------------------------------ MODULE ArenaProofs ------------------------------
(***************************************************************************)
(* The arenas of slopnet's tasks keep what they give out apart, for any    *)
(* set of tasks and any sizes of pages, headers and allocations.           *)
(*                                                                         *)
(* The invariants the runs check are not inductive.  ArenaInv adds where a *)
(* chunk may be (Placed), what a task's memory looks like (Orderly: what   *)
(* is in use lies below the bump pointers, and the bump pointer of the     *)
(* env's chunk is just behind the env or past the part of it that is read) *)
(* and what a snapshot promises (Restorable: its chunk is still held, and  *)
(* what was in use then lies in it below the snapshot, or in a chunk       *)
(* below it).                                                              *)
(***************************************************************************)
EXTENDS Arena, FiniteSetTheorems, SequenceTheorems, WellFoundedInduction, TLAPS

Allocation ==
  [task: Task, chunk: Chunk, at: Nat, size: Nat, use: {"env", "data"}]

MemoryType ==
  [chunk: [Chunk -> [size: Nat, bump: Nat]], held: [Task -> Seq(Chunk)],
   free: Seq(Chunk), live: SUBSET Allocation]

Holds(m, t, c) == \E i \in DOMAIN m.held[t] : m.held[t][i] = c

Pooled(m, c) == \E i \in DOMAIN m.free : m.free[i] = c

\* A chunk is in one place, an arena's list or the pool's, and no other.
Placed(m) ==
  /\ \A t \in Task : \A i \in DOMAIN m.held[t] : \A j \in DOMAIN m.held[t] :
       m.held[t][i] = m.held[t][j] => i = j
  /\ \A i \in DOMAIN m.free : \A j \in DOMAIN m.free : m.free[i] = m.free[j] => i = j
  /\ \A c \in Chunk :
       /\ \A t, u \in Task : Holds(m, t, c) /\ Holds(m, u, c) => t = u
       /\ \A t \in Task : ~ (Holds(m, t, c) /\ Pooled(m, c))
       /\ m.chunk[c].size # 0 <=> Pooled(m, c) \/ \E t \in Task : Holds(m, t, c)
       /\ m.chunk[c].size # 0 => m.chunk[c].size >= Page

InUse(m, t) == {a \in m.live : a.task = t}

\* The place "at" is just behind the env, or past the part of it that is read.
Clear(e, at) == at = e.at + EnvAsked \/ at >= e.at + EnvKept

Apart(a, b) == ~ Overlap(a, b.at, b.size)

\* The env of a task.
EnvPlaced(m, t, e) ==
  /\ e.size = EnvAsked /\ e.at % MaxAlign = 0
  /\ e.at + EnvWords <= m.chunk[e.chunk].size
  /\ Clear(e, m.chunk[e.chunk].bump)
  /\ \A a \in InUse(m, t) \ {e} : a.chunk = e.chunk => ~ Overlap(a, e.at, EnvKept)

\* The memory of a task.
Orderly(m, t) ==
  /\ \A c \in Chunk : Holds(m, t, c) => Header <= m.chunk[c].bump /\ m.chunk[c].bump <= m.chunk[c].size
  /\ \A a \in InUse(m, t) : /\ Holds(m, t, a.chunk)
                            /\ Header <= a.at /\ a.at + a.size <= m.chunk[a.chunk].bump
  /\ \A a, b \in InUse(m, t) : a # b /\ a.chunk = b.chunk => Apart(a, b)
  /\ \A e \in InUse(m, t) : e.use = "env" => EnvPlaced(m, t, e)

\* What a snapshot "s" of the task promises: "k" is where its chunk is.
RestorableAt(m, t, s, k) ==
  /\ m.held[t][k] = s.chunk
  /\ Header <= s.at /\ s.at <= m.chunk[s.chunk].bump
  /\ \A a \in s.kept : /\ a \in InUse(m, t)
                       /\ \E j \in DOMAIN m.held[t] : k <= j /\ m.held[t][j] = a.chunk
                       /\ a.chunk = s.chunk => a.at + a.size <= s.at
  /\ \A e \in InUse(m, t) : e.use = "env" =>
       e \in s.kept /\ (e.chunk = s.chunk => Clear(e, s.at))

Restorable(m, t, s) ==
  IF s.taken THEN \E k \in DOMAIN m.held[t] : RestorableAt(m, t, s, k) ELSE s = NoMark

Mark == [taken: BOOLEAN, chunk: 0 .. MaxChunks, at: Nat, kept: SUBSET Allocation]

TypeOK == Memory \in MemoryType /\ mark \in [Task -> Mark]

ArenaInv ==
  /\ TypeOK /\ Placed(Memory)
  /\ \A t \in Task : Orderly(Memory, t) /\ Restorable(Memory, t, mark[t])

-----------------------------------------------------------------------------
(* Arithmetic.                                                             *)

\* What the constants are.
LEMMA Constants ==
  /\ Page \in Nat /\ Page > 0 /\ Header \in Nat /\ Header > 0 /\ Header < Page
  /\ MaxAlign \in Nat /\ MaxAlign > 0
  /\ EnvAsked \in Nat /\ EnvAsked > 0 /\ EnvWords \in Nat /\ EnvKept \in Nat /\ EnvKept > 0
  /\ MaxChunks \in Nat /\ MaxChunks > 0
  /\ ArgSize \subseteq Nat /\ Size \subseteq Nat /\ 0 \notin Chunk /\ Chunk \subseteq Nat
  BY ArenaAssumption DEF Chunk

\* A multiple has no remainder.
LEMMA MultipleMod ==
  ASSUME NEW q \in Nat, NEW unit \in Nat, unit > 0
  PROVE  (q * unit) % unit = 0
<1> DEFINE x == q * unit
           p == x \div unit
           r == x % unit
<1>1. x \in Nat
  OBVIOUS
<1>2. p \in Nat /\ r \in 0 .. unit - 1 /\ p * unit + r = x
  <2> HIDE DEF x
  <2> QED BY <1>1
<1>3. x = q * unit
  OBVIOUS
<1> HIDE DEF x, p, r
<1>4. p * unit \in Nat
  BY <1>2
<1>5. ~ (p < q)
  <2> SUFFICES ASSUME p < q PROVE FALSE
    OBVIOUS
  <2>1. (p + 1) * unit <= q * unit
    BY <1>2
  <2>2. (p + 1) * unit = p * unit + unit
    BY <1>2
  <2> QED BY <1>1, <1>2, <1>3, <1>4, <2>1, <2>2
<1>6. ~ (p > q)
  <2> SUFFICES ASSUME p > q PROVE FALSE
    OBVIOUS
  <2>1. (q + 1) * unit <= p * unit
    BY <1>2
  <2>2. (q + 1) * unit = q * unit + unit
    BY <1>2
  <2> QED BY <1>1, <1>2, <1>3, <1>4, <2>1, <2>2
<1>7. p = q
  BY <1>2, <1>5, <1>6
<1>8. r = 0
  BY <1>1, <1>2, <1>3, <1>4, <1>7
<1> QED BY <1>3, <1>8 DEF r

\* AlignUp(n, unit) is the least multiple of the unit that is not below n.
LEMMA AlignUpLeast ==
  ASSUME NEW n \in Nat, NEW unit \in Nat, unit > 0
  PROVE  /\ AlignUp(n, unit) \in Nat /\ AlignUp(n, unit) >= n
         /\ AlignUp(n, unit) % unit = 0
         /\ \A k \in Nat : k % unit = 0 /\ k >= n => k >= AlignUp(n, unit)
<1> DEFINE q == (n + unit - 1) \div unit
           r == (n + unit - 1) % unit
<1>1. q \in Nat /\ r \in 0 .. unit - 1 /\ q * unit + r = n + unit - 1
  BY n + unit - 1 \in Nat
<1>2. AlignUp(n, unit) = q * unit
  BY DEF AlignUp
<1> HIDE DEF q, r
<1>3. q * unit \in Nat
  BY <1>1
<1>4. q * unit >= n
  BY <1>1, <1>3
<1>5. (q * unit) % unit = 0
  BY <1>1, MultipleMod
<1>6. ASSUME NEW k \in Nat, k % unit = 0, k >= n PROVE k >= q * unit
  <2> DEFINE p == k \div unit
  <2>1. p \in Nat /\ p * unit + (k % unit) = k
    OBVIOUS
  <2> HIDE DEF p
  <2>2. p * unit = k /\ p * unit \in Nat
    BY <1>6, <2>1
  <2>3. SUFFICES ASSUME p < q PROVE FALSE
    <3>1. p >= q => p * unit >= q * unit
      BY <1>1, <2>1
    <3> QED BY <1>1, <2>1, <2>2, <2>3, <3>1
  <2>4. (p + 1) * unit <= q * unit
    BY <1>1, <2>1, <2>3
  <2>5. (p + 1) * unit = p * unit + unit
    BY <2>1
  <2> QED BY <1>1, <1>3, <1>6, <2>2, <2>4, <2>5
<1> QED BY <1>2, <1>3, <1>4, <1>5, <1>6

\* Two places that are aligned are a multiple of the alignment apart.
LEMMA AlignedDistance ==
  ASSUME NEW x \in Nat, NEW y \in Nat, NEW unit \in Nat, unit > 0,
         x % unit = 0, y % unit = 0, y >= x
  PROVE  (y - x) % unit = 0
<1> DEFINE p == x \div unit
           q == y \div unit
<1>1. p \in Nat /\ p * unit = x /\ q \in Nat /\ q * unit = y
  <2>1. p \in Nat /\ p * unit + (x % unit) = x /\ q \in Nat /\ q * unit + (y % unit) = y
    OBVIOUS
  <2> HIDE DEF p, q
  <2>2. p * unit \in Nat /\ q * unit \in Nat
    BY <2>1
  <2> QED BY <2>1, <2>2
<1> HIDE DEF p, q
<1>2. y - x = (q - p) * unit
  BY <1>1
<1>3. q - p \in Nat
  <2> SUFFICES ASSUME q < p PROVE FALSE
    BY <1>1
  <2>1. (q + 1) * unit <= p * unit
    BY <1>1
  <2>2. (q + 1) * unit = q * unit + unit
    BY <1>1
  <2> QED BY <1>1, <2>1, <2>2
<1> QED BY <1>2, <1>3, MultipleMod

\* What follows an env at the place barena_malloc aligns to leaves its fields.
LEMMA BehindEnv ==
  ASSUME NEW at \in Nat, at % MaxAlign = 0
  PROVE  AlignUp(at + EnvAsked, MaxAlign) >= at + EnvKept
<1> DEFINE next == AlignUp(at + EnvAsked, MaxAlign)
<1>1. next \in Nat /\ next >= at + EnvAsked /\ next % MaxAlign = 0
  BY Constants, AlignUpLeast
<1> HIDE DEF next
<1>2. (next - at) % MaxAlign = 0 /\ next - at \in Nat /\ next - at >= EnvAsked
  <2>1. next >= at
    BY <1>1, Constants
  <2>2. (next - at) % MaxAlign = 0
    BY <1>1, <2>1, Constants, AlignedDistance
  <2> QED BY <1>1, <2>1, <2>2, Constants
<1>3. next - at >= AlignUp(EnvAsked, MaxAlign) /\ AlignUp(EnvAsked, MaxAlign) \in Nat
  BY <1>2, Constants, AlignUpLeast
<1>4. EnvKept <= AlignUp(EnvAsked, MaxAlign)
  BY EnvAssumption
<1>5. next >= at + EnvKept
  BY <1>1, <1>3, <1>4, Constants
<1> QED BY <1>5 DEF next

\* A chunk is never smaller than a page, and of a page where that is enough.
LEMMA ChunkSizes ==
  ASSUME NEW size \in Nat
  PROVE  /\ ChunkSize(size) \in Nat /\ ChunkSize(size) >= Page
         /\ Header + size <= Page => ChunkSize(size) = Page
<1> DEFINE required == AlignUp(Header + size, Page)
<1>1. /\ required \in Nat
      /\ \A k \in Nat : k % Page = 0 /\ k >= Header + size => k >= required
  BY Constants, AlignUpLeast, Header + size \in Nat
<1>2. ChunkSize(size) = IF Page >= required THEN Page ELSE required
  BY DEF ChunkSize
<1> HIDE DEF required
<1>3. Page % Page = 0
  BY Constants
<1> QED BY <1>1, <1>2, <1>3, Constants

\* Where a task's env is put, behind an argument of the size: it is written
\* inside a chunk of a page.
LEMMA EnvFits ==
  ASSUME NEW size \in ArgSize \cup {0}, NEW at, at = AlignUp(Header, MaxAlign),
         NEW bump, bump = (IF size = 0 THEN Header ELSE at + size)
  PROVE  /\ at \in Nat /\ at + size <= Page
         /\ AlignUp(bump, MaxAlign) + EnvWords <= Page
<1>1. at \in Nat /\ size \in Nat /\ at + size \in Nat
  <2>1. at \in Nat
    BY Constants, AlignUpLeast
  <2>2. size \in Nat
    BY Constants
  <2> QED BY <2>1, <2>2
<1>2. AlignUp(at + size, MaxAlign) + EnvWords <= Page
  BY EnvAssumption
<1>3. AlignUp(at + size, MaxAlign) \in Nat /\ AlignUp(at + size, MaxAlign) >= at + size
  BY <1>1, Constants, AlignUpLeast
<1>4. size = 0 => AlignUp(bump, MaxAlign) <= AlignUp(at + size, MaxAlign)
  BY <1>1, <1>3, Constants
<1> QED BY <1>1, <1>2, <1>3, <1>4, Constants

-----------------------------------------------------------------------------
(* Memory.                                                                 *)

\* Memory as it should be.
Sound(m) == m \in MemoryType /\ Placed(m) /\ \A t \in Task : Orderly(m, t)

\* The parts of a memory.
LEMMA MemoryParts ==
  ASSUME NEW m \in MemoryType
  PROVE  /\ m.chunk \in [Chunk -> [size: Nat, bump: Nat]]
         /\ m.held \in [Task -> Seq(Chunk)] /\ m.free \in Seq(Chunk)
         /\ m.live \in SUBSET Allocation
         /\ \A c \in Chunk : m.chunk[c].size \in Nat /\ m.chunk[c].bump \in Nat
         /\ \A a \in m.live : /\ a.task \in Task /\ a.chunk \in Chunk
                              /\ a.at \in Nat /\ a.size \in Nat
         /\ \A t \in Task : \A c : Holds(m, t, c) => c \in Chunk
         /\ \A c : Pooled(m, c) => c \in Chunk
<1>1. /\ m.chunk \in [Chunk -> [size: Nat, bump: Nat]]
      /\ m.held \in [Task -> Seq(Chunk)] /\ m.free \in Seq(Chunk)
      /\ m.live \in SUBSET Allocation
  BY DEF MemoryType
<1>2. \A c \in Chunk : m.chunk[c].size \in Nat /\ m.chunk[c].bump \in Nat
  BY <1>1
<1>3. \A a \in m.live : /\ a.task \in Task /\ a.chunk \in Chunk
                        /\ a.at \in Nat /\ a.size \in Nat
  BY <1>1 DEF Allocation
<1>4. \A t \in Task : \A c : Holds(m, t, c) => c \in Chunk
  <2> SUFFICES ASSUME NEW t \in Task, NEW c, Holds(m, t, c) PROVE c \in Chunk
    OBVIOUS
  <2>1. m.held[t] \in Seq(Chunk)
    BY <1>1
  <2> QED BY <2>1 DEF Holds
<1>5. \A c : Pooled(m, c) => c \in Chunk
  BY <1>1 DEF Pooled
<1> QED BY <1>1, <1>2, <1>3, <1>4, <1>5

\* Nothing of the task has changed.
SameFor(m, n, t) ==
  /\ n.held[t] = m.held[t] /\ InUse(n, t) = InUse(m, t)
  /\ \A c \in Chunk : Holds(m, t, c) => n.chunk[c] = m.chunk[c]

\* Then its memory and its snapshots are as good as before.
LEMMA TaskFrame ==
  ASSUME NEW m \in MemoryType, NEW n \in MemoryType, NEW t \in Task,
         SameFor(m, n, t), Orderly(m, t)
  PROVE  /\ Orderly(n, t)
         /\ \A s : Restorable(m, t, s) => Restorable(n, t, s)
<1>1. /\ InUse(n, t) = InUse(m, t) /\ n.held[t] = m.held[t]
      /\ \A c : Holds(n, t, c) <=> Holds(m, t, c)
      /\ \A c \in Chunk : Holds(m, t, c) => n.chunk[c] = m.chunk[c]
  BY DEF SameFor, Holds
<1>2. \A a \in InUse(m, t) : a.chunk \in Chunk /\ Holds(m, t, a.chunk)
                             /\ n.chunk[a.chunk] = m.chunk[a.chunk]
  BY <1>1, MemoryParts DEF Orderly, InUse
<1>3. Orderly(n, t)
  <2>1. \A c \in Chunk : Holds(n, t, c) =>
          Header <= n.chunk[c].bump /\ n.chunk[c].bump <= n.chunk[c].size
    BY <1>1 DEF Orderly
  <2>2. \A a \in InUse(n, t) : /\ Holds(n, t, a.chunk)
                               /\ Header <= a.at /\ a.at + a.size <= n.chunk[a.chunk].bump
    BY <1>1, <1>2 DEF Orderly
  <2>3. \A a, b \in InUse(n, t) : a # b /\ a.chunk = b.chunk => Apart(a, b)
    BY <1>1 DEF Orderly
  <2>4. \A e \in InUse(n, t) : e.use = "env" => EnvPlaced(n, t, e)
    <3> SUFFICES ASSUME NEW e \in InUse(m, t), e.use = "env" PROVE EnvPlaced(n, t, e)
      BY <1>1
    <3>1. EnvPlaced(m, t, e)
      BY DEF Orderly
    <3> QED BY <1>1, <1>2, <3>1 DEF EnvPlaced
  <2> QED BY <2>1, <2>2, <2>3, <2>4 DEF Orderly
<1>4. ASSUME NEW s, Restorable(m, t, s) PROVE Restorable(n, t, s)
  <2>1. CASE s.taken
    <3>1. PICK k \in DOMAIN m.held[t] : RestorableAt(m, t, s, k)
      BY <1>4, <2>1 DEF Restorable
    <3>2. Holds(m, t, s.chunk)
      BY <3>1 DEF RestorableAt, Holds
    <3>3. n.chunk[s.chunk] = m.chunk[s.chunk]
      BY <1>1, <3>2, MemoryParts
    <3>4. RestorableAt(n, t, s, k)
      BY <1>1, <3>1, <3>3 DEF RestorableAt
    <3> QED BY <1>1, <2>1, <3>1, <3>4 DEF Restorable
  <2>2. CASE ~ s.taken
    BY <1>4, <2>2 DEF Restorable
  <2> QED BY <2>1, <2>2
<1> QED BY <1>3, <1>4

\* The current chunk of a task, the next place in it, and what is given out.
Current(m, t) == Head(m.held[t])

Spot(m, t, align) == AlignUp(m.chunk[Current(m, t)].bump, align)

Given(m, t, size, align, use) ==
  [task |-> t, chunk |-> Current(m, t), at |-> Spot(m, t, align), size |-> size, use |-> use]

\* "n" is "m" after an allocation from the current chunk.
TakenFrom(m, n, t, size, align, use) ==
  /\ \A d \in Chunk : n.chunk[d].size = m.chunk[d].size
  /\ \A d \in Chunk \ {Current(m, t)} : n.chunk[d] = m.chunk[d]
  /\ n.chunk[Current(m, t)].bump = Spot(m, t, align) + size
  /\ n.live = m.live \cup {Given(m, t, size, align, use)}
  /\ Given(m, t, size, align, use) \in Allocation
  /\ Spot(m, t, align) + size <= m.chunk[Current(m, t)].size

\* What barena_alloc_from_chunk does where the chunk is large enough.
LEMMA TakeFromIs ==
  ASSUME NEW m \in MemoryType, NEW t \in Task, m.held[t] # <<>>,
         NEW size \in Nat, NEW align \in Nat, align > 0, NEW use \in {"env", "data"},
         NEW n, n = TakeFrom(m, t, size, align, use)
  PROVE  /\ Current(m, t) \in Chunk /\ Holds(m, t, Current(m, t))
         /\ Spot(m, t, align) \in Nat /\ Spot(m, t, align) >= m.chunk[Current(m, t)].bump
         /\ Spot(m, t, align) % align = 0
         /\ n \in MemoryType /\ n.held = m.held /\ n.free = m.free
         /\ ~ FitsIn(m.chunk[Current(m, t)], size, align) => n = m
         /\ FitsIn(m.chunk[Current(m, t)], size, align) =>
              TakenFrom(m, n, t, size, align, use)
<1> DEFINE c == Current(m, t)
           at == Spot(m, t, align)
           new == Given(m, t, size, align, use)
<1>1. /\ m.chunk \in [Chunk -> [size: Nat, bump: Nat]]
      /\ m.held \in [Task -> Seq(Chunk)] /\ m.free \in Seq(Chunk)
      /\ m.live \in SUBSET Allocation
  BY MemoryParts
<1>2. /\ c \in Chunk /\ Holds(m, t, c)
  <2>1. m.held[t] \in Seq(Chunk) /\ m.held[t] # <<>>
    BY <1>1
  <2>2. 1 \in DOMAIN m.held[t] /\ c = m.held[t][1] /\ c \in Chunk
    BY <2>1 DEF Current
  <2> QED BY <2>2 DEF Holds
<1>3. m.chunk[c].bump \in Nat /\ m.chunk[c].size \in Nat
  BY <1>1, <1>2
<1>4. at \in Nat /\ at >= m.chunk[c].bump /\ at % align = 0
  BY <1>3, AlignUpLeast DEF Spot
<1>5. CASE ~ FitsIn(m.chunk[c], size, align)
  <2>1. n = m
    BY <1>5 DEF TakeFrom, Current
  <2> QED BY <1>2, <1>4, <1>5, <2>1
<1>6. CASE FitsIn(m.chunk[c], size, align)
  <2> DEFINE chunk2 == [m.chunk EXCEPT ![c].bump = at + size]
             live2 == m.live \cup {new}
  <2>1. n = [m EXCEPT !.chunk = chunk2, !.live = live2]
    BY <1>6 DEF TakeFrom, Current, Spot, Given
  <2>2. chunk2 \in [Chunk -> [size: Nat, bump: Nat]]
    <3>1. at + size \in Nat
      BY <1>4
    <3> QED BY <1>1, <1>2, <3>1
  <2>3. /\ \A d \in Chunk : chunk2[d].size = m.chunk[d].size
        /\ \A d \in Chunk \ {c} : chunk2[d] = m.chunk[d]
        /\ chunk2[c].bump = at + size
    BY <1>1, <1>2
  <2>4. new \in Allocation
    BY <1>2, <1>4 DEF Allocation, Given
  <2>5. live2 \in SUBSET Allocation
    BY <1>1, <2>4
  <2>6. at + size <= m.chunk[c].size
    BY <1>6 DEF FitsIn, Spot
  <2> HIDE DEF chunk2, live2
  <2>7. /\ n.chunk = chunk2 /\ n.live = live2 /\ n.held = m.held /\ n.free = m.free
        /\ n \in MemoryType
    BY <2>1, <2>2, <2>5 DEF MemoryType
  <2> QED BY <1>2, <1>4, <1>6, <2>3, <2>4, <2>6, <2>7 DEF live2, TakenFrom
<1> QED BY <1>5, <1>6

\* Neither the task's env nor what is in use is in the way of an allocation
\* from the current chunk.
NoEnvBehind(m, t, align) ==
  \/ align = MaxAlign
  \/ \A e \in InUse(m, t) : e.use = "env" /\ e.chunk = Current(m, t)
                              => m.chunk[e.chunk].bump # e.at + EnvAsked

\* An env is asked for with the size of a size_t, aligned, and there is room to
\* write it whole.
EnvRoom(m, t, size, align, use) ==
  use = "env" =>
    /\ size = EnvAsked /\ align = MaxAlign
    /\ FitsIn(m.chunk[Current(m, t)], size, align)
         => Spot(m, t, align) + EnvWords <= m.chunk[Current(m, t)].size

\* So what is allocated is the task's alone, and what its env and its snapshots
\* promise still holds.
LEMMA TakeFromSound ==
  ASSUME NEW m, Sound(m), NEW t \in Task, m.held[t] # <<>>,
         NEW size \in Nat, NEW align \in Nat, align > 0, NEW use \in {"env", "data"},
         NoEnvBehind(m, t, align), EnvRoom(m, t, size, align, use),
         NEW n, n = TakeFrom(m, t, size, align, use)
  PROVE  /\ Sound(n)
         /\ \A u \in Task \ {t} : \A s \in Mark : Restorable(m, u, s) => Restorable(n, u, s)
         /\ use = "data" => \A s \in Mark : Restorable(m, t, s) => Restorable(n, t, s)
<1> DEFINE c == Current(m, t)
           at == Spot(m, t, align)
           new == Given(m, t, size, align, use)
<1>0. m \in MemoryType /\ Placed(m) /\ \A u \in Task : Orderly(m, u)
  BY DEF Sound
<1>1. CASE ~ FitsIn(m.chunk[c], size, align)
  <2>1. n = m
    BY <1>0, <1>1, TakeFromIs
  <2> QED BY <2>1
<1>2. CASE FitsIn(m.chunk[c], size, align)
  <2>1. /\ c \in Chunk /\ Holds(m, t, c)
        /\ at \in Nat /\ at >= m.chunk[c].bump /\ at % align = 0
        /\ n \in MemoryType /\ n.held = m.held /\ n.free = m.free
        /\ \A d \in Chunk : n.chunk[d].size = m.chunk[d].size
        /\ \A d \in Chunk \ {c} : n.chunk[d] = m.chunk[d]
        /\ n.chunk[c].bump = at + size
        /\ n.live = m.live \cup {new} /\ new \in Allocation
        /\ at + size <= m.chunk[c].size
    <3>1. /\ Current(m, t) \in Chunk /\ Holds(m, t, Current(m, t))
          /\ Spot(m, t, align) \in Nat /\ Spot(m, t, align) >= m.chunk[Current(m, t)].bump
          /\ Spot(m, t, align) % align = 0
      BY <1>0, TakeFromIs
    <3>2. n \in MemoryType /\ n.held = m.held /\ n.free = m.free
      BY <1>0, TakeFromIs
    <3>3. TakenFrom(m, n, t, size, align, use)
      BY <1>0, <1>2, TakeFromIs
    <3> QED BY <3>1, <3>2, <3>3 DEF TakenFrom
  <2>2. /\ new.task = t /\ new.chunk = c /\ new.at = at /\ new.size = size /\ new.use = use
    BY DEF Given
  <2>3. EnvRoom(m, t, size, align, use) /\ use = "env" =>
          /\ size = EnvAsked /\ align = MaxAlign /\ at + EnvWords <= m.chunk[c].size
    BY <1>2 DEF EnvRoom
  <2>4. NoEnvBehind(m, t, align) =>
          \/ align = MaxAlign
          \/ \A e \in InUse(m, t) : e.use = "env" /\ e.chunk = c => m.chunk[c].bump # e.at + EnvAsked
    BY DEF NoEnvBehind
  <2> HIDE DEF new, at, c
  <2>5. /\ InUse(n, t) = InUse(m, t) \cup {new}
        /\ \A u \in Task \ {t} : InUse(n, u) = InUse(m, u)
    BY <2>1, <2>2 DEF InUse
  <2>6. /\ \A u, d : Holds(n, u, d) <=> Holds(m, u, d)
        /\ \A d : Pooled(n, d) <=> Pooled(m, d)
    BY <2>1 DEF Holds, Pooled
  <2>7. Placed(n)
    BY <1>0, <2>1, <2>6 DEF Placed
  <2>8. ASSUME NEW u \in Task \ {t}
        PROVE  Orderly(n, u) /\ \A s \in Mark : Restorable(m, u, s) => Restorable(n, u, s)
    <3>1. \A d \in Chunk : Holds(m, u, d) => d # c
      BY <1>0, <2>1 DEF Placed
    <3>2. SameFor(m, n, u)
      BY <2>1, <2>5, <3>1 DEF SameFor
    <3> QED BY <1>0, <2>1, <3>2, TaskFrame
  <2>9. /\ m.chunk[c].bump \in Nat /\ m.chunk[c].size \in Nat /\ Header <= m.chunk[c].bump
        /\ \A a \in InUse(m, t) : a.at \in Nat /\ a.size \in Nat /\ a.chunk \in Chunk
    BY <1>0, <2>1, MemoryParts DEF Orderly, InUse
  <2>10. ASSUME NEW a \in InUse(m, t), a.chunk = c PROVE a.at + a.size <= at
    <3>1. a.at + a.size <= m.chunk[c].bump
      BY <1>0, <2>10 DEF Orderly
    <3> QED BY <2>1, <2>9, <3>1
  <2>11. ASSUME NEW e \in InUse(m, t), e.use = "env", e.chunk = c PROVE at >= e.at + EnvKept
    <3>1. EnvPlaced(m, t, e)
      BY <1>0, <2>11 DEF Orderly
    <3>2. Clear(e, m.chunk[c].bump) /\ e.at % MaxAlign = 0 /\ e.at \in Nat
      BY <2>9, <2>11, <3>1 DEF EnvPlaced
    <3>3. CASE m.chunk[c].bump >= e.at + EnvKept
      BY SMTT(30), <2>1, <2>9, <3>2, <3>3, Constants
    <3>4. CASE m.chunk[c].bump = e.at + EnvAsked
      <4>1. align = MaxAlign
        BY <2>4, <2>11, <3>4
      <4>2. at = AlignUp(e.at + EnvAsked, MaxAlign)
        BY <3>4, <4>1 DEF at, c, Spot
      <4> QED BY <3>2, <4>2, BehindEnv
    <3> QED BY <3>2, <3>3, <3>4 DEF Clear
  <2>12. Orderly(n, t)
    <3>1. ASSUME NEW d \in Chunk, Holds(n, t, d)
          PROVE  Header <= n.chunk[d].bump /\ n.chunk[d].bump <= n.chunk[d].size
      <4>1. CASE d = c
        <5>1. n.chunk[d].bump = at + size /\ n.chunk[d].size = m.chunk[c].size
          BY <2>1, <4>1
        <5> QED BY <2>1, <2>9, <5>1, Constants
      <4>2. CASE d # c
        BY <1>0, <2>1, <2>6, <3>1, <4>2 DEF Orderly
      <4> QED BY <4>1, <4>2
    <3>2. ASSUME NEW a \in InUse(n, t)
          PROVE  /\ Holds(n, t, a.chunk)
                 /\ Header <= a.at /\ a.at + a.size <= n.chunk[a.chunk].bump
      <4>1. CASE a = new
        BY <2>1, <2>2, <2>6, <2>9, <4>1, Constants
      <4>2. CASE a \in InUse(m, t)
        <5>1. /\ Holds(m, t, a.chunk)
              /\ Header <= a.at /\ a.at + a.size <= m.chunk[a.chunk].bump
          BY <1>0, <4>2 DEF Orderly
        <5>2. CASE a.chunk = c
          BY <2>1, <2>6, <2>9, <2>10, <4>2, <5>1, <5>2
        <5>3. CASE a.chunk # c
          <6>1. n.chunk[a.chunk] = m.chunk[a.chunk]
            BY <2>1, <2>9, <4>2, <5>3
          <6> QED BY <2>6, <5>1, <6>1
        <5> QED BY <5>2, <5>3
      <4> QED BY <2>5, <4>1, <4>2
    <3>3. ASSUME NEW a \in InUse(n, t), NEW b \in InUse(n, t), a # b, a.chunk = b.chunk
          PROVE  Apart(a, b)
      <4>1. CASE a \in InUse(m, t) /\ b \in InUse(m, t)
        BY <1>0, <3>3, <4>1 DEF Orderly
      <4>2. CASE a = new /\ b \in InUse(m, t)
        BY <2>1, <2>2, <2>9, <2>10, <3>3, <4>2 DEF Apart, Overlap
      <4>3. CASE b = new /\ a \in InUse(m, t)
        BY <2>1, <2>2, <2>9, <2>10, <3>3, <4>3 DEF Apart, Overlap
      <4> QED BY <2>5, <3>3, <4>1, <4>2, <4>3
    <3>4. ASSUME NEW e \in InUse(n, t), e.use = "env" PROVE EnvPlaced(n, t, e)
      <4>1. CASE e \in InUse(m, t)
        <5>1. EnvPlaced(m, t, e) /\ e.at \in Nat /\ e.chunk \in Chunk
          BY <1>0, <2>9, <3>4, <4>1 DEF Orderly
        <5>2. Clear(e, n.chunk[e.chunk].bump)
          <6>1. CASE e.chunk = c
            <7>1. at >= e.at + EnvKept
              BY <2>11, <3>4, <4>1, <6>1
            <7>2. at + size >= e.at + EnvKept
              BY <2>1, <5>1, <7>1, Constants
            <7> QED BY <2>1, <6>1, <7>2 DEF Clear
          <6>2. CASE e.chunk # c
            BY <2>1, <5>1, <6>2 DEF EnvPlaced
          <6> QED BY <6>1, <6>2
        <5>3. ASSUME NEW a \in InUse(n, t) \ {e}, a.chunk = e.chunk
              PROVE  ~ Overlap(a, e.at, EnvKept)
          <6>1. CASE a \in InUse(m, t)
            BY <5>1, <5>3, <6>1 DEF EnvPlaced
          <6>2. CASE a = new
            <7>1. at >= e.at + EnvKept
              BY <2>2, <2>11, <3>4, <4>1, <5>3, <6>2
            <7> QED BY <2>1, <2>2, <5>1, <6>2, <7>1, Constants DEF Overlap
          <6> QED BY <2>5, <6>1, <6>2
        <5>4. n.chunk[e.chunk].size = m.chunk[e.chunk].size
          BY <2>1, <5>1
        <5> QED BY <5>1, <5>2, <5>3, <5>4 DEF EnvPlaced
      <4>2. CASE e = new
        <5>1. size = EnvAsked /\ align = MaxAlign /\ at + EnvWords <= m.chunk[c].size
          BY <2>2, <2>3, <3>4, <4>2
        <5>2. CASE e \in InUse(m, t)
          BY <4>1, <5>2
        <5>3. CASE e \notin InUse(m, t)
          <6>1. ASSUME NEW a \in InUse(n, t) \ {e}, a.chunk = e.chunk
                PROVE  ~ Overlap(a, e.at, EnvKept)
            <7>1. a \in InUse(m, t) /\ a.chunk = c
              BY <2>2, <2>5, <4>2, <6>1
            <7>2. a.at + a.size <= at /\ a.at \in Nat /\ a.size \in Nat
              BY <2>9, <2>10, <7>1
            <7> QED BY <2>1, <2>2, <4>2, <7>2 DEF Overlap
          <6>2. Clear(e, n.chunk[e.chunk].bump)
            BY <2>1, <2>2, <4>2, <5>1 DEF Clear
          <6>3. e.at % MaxAlign = 0 /\ e.size = EnvAsked
            BY <2>1, <2>2, <4>2, <5>1
          <6>4. e.at + EnvWords <= n.chunk[e.chunk].size
            BY <2>1, <2>2, <4>2, <5>1
          <6> QED BY <6>1, <6>2, <6>3, <6>4 DEF EnvPlaced
        <5> QED BY <5>2, <5>3
      <4> QED BY <2>5, <4>1, <4>2
    <3> QED BY <3>1, <3>2, <3>3, <3>4 DEF Orderly
  <2>13. ASSUME use = "data", NEW s \in Mark, Restorable(m, t, s) PROVE Restorable(n, t, s)
    <3>1. CASE s.taken
      <4>1. PICK k \in DOMAIN m.held[t] : RestorableAt(m, t, s, k)
        BY <2>13, <3>1 DEF Restorable
      <4>2. Holds(m, t, s.chunk)
        BY <4>1 DEF RestorableAt, Holds
      <4>3. s.chunk \in Chunk
        BY <1>0, <4>2, MemoryParts
      <4>4. s.at <= n.chunk[s.chunk].bump
        <5>1. s.at <= m.chunk[s.chunk].bump
          BY <4>1 DEF RestorableAt
        <5>2. CASE s.chunk = c
          <6>1. s.at \in Nat
            BY DEF Mark
          <6> QED BY <2>1, <2>9, <5>1, <5>2, <6>1
        <5>3. CASE s.chunk # c
          BY <2>1, <4>3, <5>1, <5>3
        <5> QED BY <5>2, <5>3
      <4>5. \A e \in InUse(n, t) : e.use = "env" => e \in InUse(m, t)
        BY <2>2, <2>5, <2>13
      <4>6. InUse(m, t) \subseteq InUse(n, t)
        BY <2>5
      <4>7. RestorableAt(n, t, s, k)
        BY <2>1, <4>1, <4>4, <4>5, <4>6 DEF RestorableAt
      <4>8. k \in DOMAIN n.held[t]
        BY <2>1
      <4> QED BY <3>1, <4>7, <4>8 DEF Restorable
    <3>2. CASE ~ s.taken
      BY <2>13, <3>2 DEF Restorable
    <3> QED BY <3>1, <3>2
  <2>14. Sound(n)
    BY <2>1, <2>7, <2>8, <2>12 DEF Sound
  <2> QED BY <2>8, <2>13, <2>14
<1> QED BY <1>1, <1>2

-----------------------------------------------------------------------------
(* A chunk is added to an arena.                                           *)

\* A non-empty set of natural numbers has a least one.
LEMMA LeastNat ==
  ASSUME NEW T \in SUBSET Nat, T # {}
  PROVE  \E x \in T : \A y \in T : x <= y
<1> DEFINE R == OpToRel(<, Nat)
<1>1. \E x \in T : \A y \in T : ~ (<<y, x>> \in R)
  <2>1. IsWellFoundedOn(R, Nat)
    BY NatLessThanWellFounded
  <2> HIDE DEF R
  <2> QED BY <2>1, WFMin
<1>2. \A x, y \in Nat : x < y => <<x, y>> \in R
  BY DEF OpToRel
<1>3. \A x, y \in Nat : x < y \/ y <= x
  OBVIOUS
<1>4. \A x \in T : x \in Nat
  OBVIOUS
<1> HIDE DEF R
<1> QED BY <1>1, <1>2, <1>3, <1>4, Zenon

\* What is put before a sequence comes first, the others move on.
LEMMA Prepended ==
  ASSUME NEW q \in Seq(Chunk), NEW c \in Chunk, NEW r, r = <<c>> \o q
  PROVE  /\ r \in Seq(Chunk) /\ r # <<>> /\ Head(r) = c /\ Len(r) = Len(q) + 1
         /\ r[1] = c /\ \A i \in DOMAIN q : i + 1 \in DOMAIN r /\ r[i + 1] = q[i]
         /\ \A j \in DOMAIN r : j = 1 \/ (j - 1 \in DOMAIN q /\ r[j] = q[j - 1])
<1>1. /\ <<c>> \in Seq(Chunk) /\ Len(<<c>>) = 1 /\ <<c>>[1] = c /\ Len(q) \in Nat
      /\ DOMAIN q = 1 .. Len(q)
  OBVIOUS
<1>2. /\ r \in Seq(Chunk) /\ Len(r) = 1 + Len(q)
      /\ \A i \in 1 .. 1 : r[i] = <<c>>[i]
      /\ \A i \in 1 .. Len(q) : r[1 + i] = q[i]
  <2>1. /\ <<c>> \o q \in Seq(Chunk) /\ Len(<<c>> \o q) = Len(<<c>>) + Len(q)
        /\ \A i \in 1 .. Len(<<c>>) : (<<c>> \o q)[i] = <<c>>[i]
        /\ \A i \in 1 .. Len(q) : (<<c>> \o q)[Len(<<c>>) + i] = q[i]
    BY <1>1, ConcatProperties
  <2> QED BY <1>1, <2>1
<1>3. DOMAIN r = 1 .. Len(r) /\ r[1] = c
  BY <1>1, <1>2
<1>4. \A i \in DOMAIN q : i + 1 \in DOMAIN r /\ r[i + 1] = q[i]
  <2> SUFFICES ASSUME NEW i \in DOMAIN q PROVE i + 1 \in DOMAIN r /\ r[i + 1] = q[i]
    OBVIOUS
  <2>1. i \in 1 .. Len(q) /\ i + 1 = 1 + i
    BY <1>1
  <2>2. r[1 + i] = q[i]
    BY <1>2, <2>1
  <2> QED BY <1>1, <1>2, <1>3, <2>1, <2>2
<1>5. \A j \in DOMAIN r : j = 1 \/ (j - 1 \in DOMAIN q /\ r[j] = q[j - 1])
  <2> SUFFICES ASSUME NEW j \in DOMAIN r, j # 1 PROVE j - 1 \in DOMAIN q /\ r[j] = q[j - 1]
    OBVIOUS
  <2>1. j - 1 \in 1 .. Len(q) /\ 1 + (j - 1) = j
    BY <1>1, <1>2, <1>3
  <2>2. r[1 + (j - 1)] = q[j - 1]
    BY <1>2, <2>1
  <2> QED BY <1>1, <2>1, <2>2
<1>6. r # <<>> /\ Head(r) = c
  BY <1>1, <1>2, <1>3
<1> QED BY <1>1, <1>2, <1>3, <1>4, <1>5, <1>6

\* "n" is "m" with the chunk "c" in front of the task's arena.
Extended(m, n, t, c, size) ==
  /\ c \in Chunk /\ n \in MemoryType /\ n.live = m.live
  /\ n.held[t] = <<c>> \o m.held[t] /\ \A u \in Task \ {t} : n.held[u] = m.held[u]
  /\ n.chunk[c].bump = Header /\ n.chunk[c].size >= ChunkSize(size)
  /\ \A d \in Chunk \ {c} : n.chunk[d] = m.chunk[d]
  /\ \A u \in Task : ~ Holds(m, u, c)
  /\ ~ Pooled(n, c) /\ \A d \in Chunk \ {c} : Pooled(n, d) <=> Pooled(m, d)
  /\ \A i \in DOMAIN n.free : \A j \in DOMAIN n.free : n.free[i] = n.free[j] => i = j

\* It is one that was in no place before, or in the pool.
LEMMA WithNewChunkIs ==
  ASSUME NEW m, Sound(m), NEW t \in Task, NEW size \in Nat,
         FromPool(m, size) \/ Unused(m) # {},
         NEW n, n = WithNewChunk(m, t, size)
  PROVE  \E c \in Chunk : Extended(m, n, t, c, size)
<1> DEFINE c == IF FromPool(m, size) THEN Head(m.free)
                ELSE CHOOSE k \in Unused(m) : \A other \in Unused(m) : k <= other
<1>1. /\ m.chunk \in [Chunk -> [size: Nat, bump: Nat]]
      /\ m.held \in [Task -> Seq(Chunk)] /\ m.free \in Seq(Chunk)
      /\ m.live \in SUBSET Allocation /\ m \in MemoryType /\ Placed(m)
  BY MemoryParts DEF Sound
<1> DEFINE chunk2 == [m.chunk EXCEPT ![c] = [size |-> IF FromPool(m, size) THEN @.size
                                                      ELSE ChunkSize(size),
                                             bump |-> Header]]
           free2 == IF FromPool(m, size) THEN Tail(m.free) ELSE m.free
           held2 == [m.held EXCEPT ![t] = <<c>> \o @]
<1>2. n = [m EXCEPT !.chunk = chunk2, !.free = free2, !.held = held2]
  BY DEF WithNewChunk
<1>3. CASE FromPool(m, size)
  <2>1. m.free # <<>> /\ m.chunk[Head(m.free)].size >= ChunkSize(size) /\ c = Head(m.free)
    BY <1>3 DEF FromPool
  <2>2. /\ c \in Chunk /\ c = m.free[1] /\ 1 \in DOMAIN m.free
        /\ free2 \in Seq(Chunk) /\ Len(free2) = Len(m.free) - 1
        /\ \A i \in 1 .. Len(free2) : free2[i] = m.free[i + 1]
        /\ Len(m.free) \in Nat /\ DOMAIN m.free = 1 .. Len(m.free)
        /\ DOMAIN free2 = 1 .. Len(free2)
    <3>1. /\ c \in Chunk /\ Tail(m.free) \in Seq(Chunk)
          /\ Len(Tail(m.free)) = Len(m.free) - 1
          /\ \A i \in 1 .. Len(Tail(m.free)) : Tail(m.free)[i] = m.free[i + 1]
      BY <1>1, <2>1, HeadTailProperties
    <3>2. Len(m.free) \in Nat /\ Len(m.free) > 0 /\ c = m.free[1] /\ DOMAIN m.free = 1 .. Len(m.free)
      BY <1>1, <2>1
    <3>3. free2 = Tail(m.free)
      BY <1>3
    <3>4. /\ c \in Chunk /\ free2 \in Seq(Chunk) /\ Len(free2) = Len(m.free) - 1
          /\ \A i \in 1 .. Len(free2) : free2[i] = m.free[i + 1]
      BY <3>1, <3>3
    <3> HIDE DEF c, free2
    <3>5. DOMAIN free2 = 1 .. Len(free2)
      BY <3>4
    <3>6. 1 \in DOMAIN m.free
      BY <3>2
    <3> QED BY <3>2, <3>4, <3>5, <3>6
  <2> HIDE DEF c, free2
  <2>3. chunk2[c].size = m.chunk[c].size /\ chunk2[c].bump = Header
    BY <1>1, <1>3, <2>2
  <2>4. chunk2 \in [Chunk -> [size: Nat, bump: Nat]] /\ \A d \in Chunk \ {c} : chunk2[d] = m.chunk[d]
    BY <1>1, <1>3, <2>2, Constants
  <2>5. /\ held2 \in [Task -> Seq(Chunk)] /\ held2[t] = <<c>> \o m.held[t]
        /\ \A u \in Task \ {t} : held2[u] = m.held[u]
    <3>1. <<c>> \o m.held[t] \in Seq(Chunk)
      BY <1>1, <2>2, Prepended
    <3> QED BY <1>1, <3>1
  <2> HIDE DEF chunk2, held2
  <2>6. n.chunk = chunk2 /\ n.held = held2 /\ n.free = free2 /\ n.live = m.live /\ n \in MemoryType
    BY <1>1, <1>2, <2>2, <2>4, <2>5 DEF MemoryType
  <2>7. Pooled(m, c)
    BY <2>2 DEF Pooled
  <2>8. \A u \in Task : ~ Holds(m, u, c)
    BY <1>1, <2>2, <2>7 DEF Placed
  <2>9. \A i \in 1 .. Len(free2) : /\ i + 1 \in DOMAIN m.free /\ i + 1 # 1
                                   /\ free2[i] = m.free[i + 1]
    BY <2>2
  <2>10. \A i \in DOMAIN m.free : \A j \in DOMAIN m.free : m.free[i] = m.free[j] => i = j
    BY <1>1 DEF Placed
  <2>11. ~ Pooled(n, c)
    <3> SUFFICES ASSUME NEW i \in DOMAIN n.free, n.free[i] = c PROVE FALSE
      BY DEF Pooled
    <3>1. i \in 1 .. Len(free2) /\ free2[i] = c
      BY <2>2, <2>6
    <3>2. i + 1 \in DOMAIN m.free /\ i + 1 # 1 /\ m.free[i + 1] = m.free[1]
      BY <2>2, <2>9, <3>1
    <3> QED BY <2>2, <2>10, <3>2
  <2>12. ASSUME NEW d \in Chunk \ {c} PROVE Pooled(n, d) <=> Pooled(m, d)
    <3>1. Pooled(n, d) => Pooled(m, d)
      BY SMTT(30), <2>2, <2>6, <2>9 DEF Pooled
    <3>2. ASSUME Pooled(m, d) PROVE Pooled(n, d)
      <4>1. PICK i \in DOMAIN m.free : m.free[i] = d
        BY <3>2 DEF Pooled
      <4>2. i # 1
        BY <2>2, <4>1
      <4>3. i - 1 \in 1 .. Len(free2) /\ (i - 1) + 1 = i
        BY <2>2, <4>2
      <4>4. free2[i - 1] = d
        BY <2>9, <4>1, <4>3
      <4> QED BY <2>2, <2>6, <4>3, <4>4 DEF Pooled
    <3> QED BY <3>1, <3>2
  <2>13. \A i \in DOMAIN n.free : \A j \in DOMAIN n.free : n.free[i] = n.free[j] => i = j
    <3> SUFFICES ASSUME NEW i \in 1 .. Len(free2), NEW j \in 1 .. Len(free2), free2[i] = free2[j]
                 PROVE  i = j
      BY <2>2, <2>6
    <3>1. i + 1 = j + 1
      BY <2>9, <2>10
    <3> QED BY <3>1, <2>2
  <2>14. n.chunk[c].size >= ChunkSize(size)
    BY <2>1, <2>3, <2>6
  <2> QED BY <2>2, <2>3, <2>4, <2>5, <2>6, <2>8, <2>11, <2>12, <2>13, <2>14 DEF Extended
<1>4. CASE ~ FromPool(m, size)
  <2>1. Unused(m) # {} /\ Unused(m) \in SUBSET Nat /\ Unused(m) \subseteq Chunk
    BY <1>4, Constants DEF Unused
  <2>2. \E k \in Unused(m) : \A other \in Unused(m) : k <= other
    <3>1. \A T \in SUBSET Nat : T # {} => \E x \in T : \A y \in T : x <= y
      BY LeastNat
    <3> QED BY <2>1, <3>1
  <2>3. c \in Unused(m)
    BY <1>4, <2>2
  <2>4. c \in Chunk /\ m.chunk[c].size = 0
    BY <2>3 DEF Unused
  <2>5. free2 = m.free
    BY <1>4
  <2> HIDE DEF c, free2
  <2>6. /\ chunk2[c].size = ChunkSize(size) /\ chunk2[c].bump = Header
        /\ \A d \in Chunk \ {c} : chunk2[d] = m.chunk[d]
        /\ chunk2 \in [Chunk -> [size: Nat, bump: Nat]]
    BY <1>1, <1>4, <2>4, Constants, ChunkSizes
  <2>7. /\ held2 \in [Task -> Seq(Chunk)] /\ held2[t] = <<c>> \o m.held[t]
        /\ \A u \in Task \ {t} : held2[u] = m.held[u]
    <3>1. <<c>> \o m.held[t] \in Seq(Chunk)
      BY <1>1, <2>4, Prepended
    <3> QED BY <1>1, <3>1
  <2> HIDE DEF chunk2, held2
  <2>8. n.chunk = chunk2 /\ n.held = held2 /\ n.free = m.free /\ n.live = m.live /\ n \in MemoryType
    BY <1>1, <1>2, <2>5, <2>6, <2>7 DEF MemoryType
  <2>9. ~ Pooled(m, c) /\ \A u \in Task : ~ Holds(m, u, c)
    BY <1>1, <2>4 DEF Placed
  <2>10. \A d : Pooled(n, d) <=> Pooled(m, d)
    BY <2>8 DEF Pooled
  <2>11. \A i \in DOMAIN n.free : \A j \in DOMAIN n.free : n.free[i] = n.free[j] => i = j
    BY <1>1, <2>8 DEF Placed
  <2>12. n.chunk[c].size >= ChunkSize(size)
    BY <2>6, <2>8, ChunkSizes
  <2> QED BY <2>4, <2>6, <2>7, <2>8, <2>9, <2>10, <2>11, <2>12 DEF Extended
<1> QED BY <1>3, <1>4

\* What a task holds with the new chunk in front.
LEMMA ExtendedHolds ==
  ASSUME NEW m, Sound(m), NEW t \in Task, NEW size \in Nat, NEW n, NEW c \in Chunk,
         Extended(m, n, t, c, size)
  PROVE  /\ \A d : Holds(n, t, d) <=> Holds(m, t, d) \/ d = c
         /\ \A u \in Task \ {t} : \A d : Holds(n, u, d) <=> Holds(m, u, d)
         /\ \A i \in DOMAIN m.held[t] : i + 1 \in DOMAIN n.held[t] /\ n.held[t][i + 1] = m.held[t][i]
         /\ \A i \in DOMAIN n.held[t] :
              (i = 1 /\ n.held[t][i] = c)
                \/ (i - 1 \in DOMAIN m.held[t] /\ n.held[t][i] = m.held[t][i - 1])
         /\ n.held[t] # <<>> /\ Current(n, t) = c
         /\ DOMAIN m.held[t] \subseteq Nat /\ DOMAIN n.held[t] \subseteq Nat
<1>1. m.held[t] \in Seq(Chunk) /\ n.held[t] = <<c>> \o m.held[t]
  BY MemoryParts DEF Sound, Extended
<1> DEFINE q == m.held[t]
           r == n.held[t]
<1>2. /\ r \in Seq(Chunk) /\ r # <<>> /\ Head(r) = c /\ Len(r) = Len(q) + 1
      /\ r[1] = c /\ \A i \in DOMAIN q : i + 1 \in DOMAIN r /\ r[i + 1] = q[i]
      /\ \A j \in DOMAIN r : j = 1 \/ (j - 1 \in DOMAIN q /\ r[j] = q[j - 1])
  <2> HIDE DEF q, r
  <2> QED BY SMTT(30), <1>1, Prepended DEF q, r
<1>3. 1 \in DOMAIN r
  BY <1>1, <1>2
<1>4. DOMAIN q \subseteq Nat /\ DOMAIN r \subseteq Nat
  BY <1>1, <1>2
<1>5. ASSUME NEW d PROVE Holds(n, t, d) <=> Holds(m, t, d) \/ d = c
  <2>1. Holds(n, t, d) <=> \E j \in DOMAIN r : r[j] = d
    BY DEF Holds
  <2>2. Holds(m, t, d) <=> \E j \in DOMAIN q : q[j] = d
    BY DEF Holds
  <2> HIDE DEF q, r
  <2> QED BY <1>2, <1>3, <2>1, <2>2
<1>6. \A u \in Task \ {t} : \A d : Holds(n, u, d) <=> Holds(m, u, d)
  BY DEF Holds, Extended
<1> QED BY <1>2, <1>4, <1>5, <1>6 DEF Current

\* The new chunk changes nothing for what is in use.
LEMMA ExtendedSound ==
  ASSUME NEW m, Sound(m), NEW t \in Task, NEW size \in Nat, NEW n, NEW c \in Chunk,
         Extended(m, n, t, c, size)
  PROVE  /\ Sound(n)
         /\ \A u \in Task : InUse(n, u) = InUse(m, u)
         /\ \A a \in InUse(n, t) : a.chunk # c
         /\ \A u \in Task : \A s \in Mark : Restorable(m, u, s) => Restorable(n, u, s)
<1>1. m \in MemoryType /\ Placed(m) /\ \A u \in Task : Orderly(m, u)
  BY DEF Sound
<1>2. /\ n \in MemoryType /\ n.live = m.live
      /\ \A u \in Task \ {t} : n.held[u] = m.held[u]
      /\ n.chunk[c].bump = Header /\ n.chunk[c].size >= ChunkSize(size)
      /\ \A d \in Chunk \ {c} : n.chunk[d] = m.chunk[d]
      /\ \A u \in Task : ~ Holds(m, u, c)
      /\ ~ Pooled(n, c) /\ \A d \in Chunk \ {c} : Pooled(n, d) <=> Pooled(m, d)
      /\ \A i \in DOMAIN n.free : \A j \in DOMAIN n.free : n.free[i] = n.free[j] => i = j
  BY DEF Extended
<1>3. /\ \A d : Holds(n, t, d) <=> Holds(m, t, d) \/ d = c
      /\ \A u \in Task \ {t} : \A d : Holds(n, u, d) <=> Holds(m, u, d)
      /\ \A i \in DOMAIN m.held[t] : i + 1 \in DOMAIN n.held[t] /\ n.held[t][i + 1] = m.held[t][i]
      /\ \A i \in DOMAIN n.held[t] :
           (i = 1 /\ n.held[t][i] = c)
             \/ (i - 1 \in DOMAIN m.held[t] /\ n.held[t][i] = m.held[t][i - 1])
      /\ DOMAIN m.held[t] \subseteq Nat /\ DOMAIN n.held[t] \subseteq Nat
  BY ExtendedHolds
<1>4. \A u \in Task : InUse(n, u) = InUse(m, u)
  BY <1>2 DEF InUse
<1>5. \A a \in InUse(m, t) : a.chunk \in Chunk \ {c}
  BY <1>1, <1>2, MemoryParts DEF Orderly, InUse
<1>6. n.chunk[c].size \in Nat /\ n.chunk[c].size >= Page /\ n.chunk[c].size # 0
  <2>1. n.chunk[c].size \in Nat
    BY <1>2, MemoryParts
  <2>2. ChunkSize(size) \in Nat /\ ChunkSize(size) >= Page
    BY ChunkSizes
  <2>3. n.chunk[c].size >= ChunkSize(size)
    BY <1>2
  <2> QED BY <2>1, <2>2, <2>3, Constants
<1>7. Placed(n)
  <2>1. \A u \in Task : \A i \in DOMAIN n.held[u] : \A j \in DOMAIN n.held[u] :
          n.held[u][i] = n.held[u][j] => i = j
    <3>1. ASSUME NEW i \in DOMAIN n.held[t], NEW j \in DOMAIN n.held[t],
                 n.held[t][i] = n.held[t][j]
          PROVE  i = j
      <4>1. \A x \in DOMAIN m.held[t] : m.held[t][x] # c
        BY <1>2 DEF Holds
      <4>2. \A x \in DOMAIN m.held[t] : \A y \in DOMAIN m.held[t] :
              m.held[t][x] = m.held[t][y] => x = y
        BY <1>1 DEF Placed
      <4>3. CASE n.held[t][i] = c
        <5>1. n.held[t][j] = c
          BY <3>1, <4>3
        <5>2. \A x \in DOMAIN n.held[t] : n.held[t][x] = c => x = 1
          BY <1>3, <4>1
        <5> QED BY <4>3, <5>1, <5>2
      <4>4. CASE n.held[t][i] # c
        <5>1. /\ i - 1 \in DOMAIN m.held[t] /\ j - 1 \in DOMAIN m.held[t]
              /\ m.held[t][i - 1] = m.held[t][j - 1]
          BY <1>3, <3>1, <4>4
        <5>2. i - 1 = j - 1 /\ i \in Nat /\ j \in Nat
          BY <1>3, <4>2, <5>1
        <5> QED BY <5>2
      <4> QED BY <4>3, <4>4
    <3>2. ASSUME NEW u \in Task \ {t}
          PROVE  \A i \in DOMAIN n.held[u] : \A j \in DOMAIN n.held[u] :
                   n.held[u][i] = n.held[u][j] => i = j
      BY <1>1, <1>2 DEF Placed
    <3> QED BY <3>1, <3>2
  <2>2. ASSUME NEW d \in Chunk
        PROVE  /\ \A x, y \in Task : Holds(n, x, d) /\ Holds(n, y, d) => x = y
               /\ \A x \in Task : ~ (Holds(n, x, d) /\ Pooled(n, d))
               /\ n.chunk[d].size # 0 <=> Pooled(n, d) \/ \E x \in Task : Holds(n, x, d)
               /\ n.chunk[d].size # 0 => n.chunk[d].size >= Page
    <3>1. CASE d = c
      <4>1. \A x \in Task : Holds(n, x, c) <=> x = t
        BY <1>2, <1>3
      <4> QED BY <1>2, <1>6, <3>1, <4>1
    <3>2. CASE d # c
      <4>1. \A x \in Task : Holds(n, x, d) <=> Holds(m, x, d)
        BY <1>3, <3>2
      <4>2. (Pooled(n, d) <=> Pooled(m, d)) /\ n.chunk[d] = m.chunk[d]
        BY <1>2, <3>2
      <4> QED BY <1>1, <4>1, <4>2 DEF Placed
    <3> QED BY <3>1, <3>2
  <2> QED BY <1>2, <2>1, <2>2 DEF Placed
<1>8. ASSUME NEW u \in Task \ {t}
      PROVE  Orderly(n, u) /\ \A s \in Mark : Restorable(m, u, s) => Restorable(n, u, s)
  <2>1. SameFor(m, n, u)
    BY <1>2, <1>4 DEF SameFor
  <2> QED BY <1>1, <1>2, <2>1, TaskFrame
<1>9. Orderly(n, t)
  <2>1. ASSUME NEW d \in Chunk, Holds(n, t, d)
        PROVE  Header <= n.chunk[d].bump /\ n.chunk[d].bump <= n.chunk[d].size
    <3>1. CASE d = c
      BY <1>2, <1>6, <3>1, Constants
    <3>2. CASE d # c
      BY <1>1, <1>2, <1>3, <2>1, <3>2 DEF Orderly
    <3> QED BY <3>1, <3>2
  <2>2. \A a \in InUse(n, t) : /\ Holds(n, t, a.chunk)
                               /\ Header <= a.at /\ a.at + a.size <= n.chunk[a.chunk].bump
    BY <1>1, <1>2, <1>3, <1>4, <1>5 DEF Orderly
  <2>3. \A a, b \in InUse(n, t) : a # b /\ a.chunk = b.chunk => Apart(a, b)
    BY <1>1, <1>4 DEF Orderly
  <2>4. ASSUME NEW e \in InUse(n, t), e.use = "env" PROVE EnvPlaced(n, t, e)
    <3>1. EnvPlaced(m, t, e) /\ n.chunk[e.chunk] = m.chunk[e.chunk]
      BY <1>1, <1>2, <1>4, <1>5, <2>4 DEF Orderly
    <3> QED BY <1>4, <3>1 DEF EnvPlaced
  <2> QED BY <2>1, <2>2, <2>3, <2>4 DEF Orderly
<1>10. ASSUME NEW s \in Mark, Restorable(m, t, s) PROVE Restorable(n, t, s)
  <2>1. CASE s.taken
    <3>1. PICK k \in DOMAIN m.held[t] : RestorableAt(m, t, s, k)
      BY <1>10, <2>1 DEF Restorable
    <3>2. Holds(m, t, s.chunk) /\ s.chunk \in Chunk
      <4>1. Holds(m, t, s.chunk)
        BY <3>1 DEF RestorableAt, Holds
      <4> QED BY <1>1, <4>1, MemoryParts
    <3>3. n.chunk[s.chunk] = m.chunk[s.chunk]
      BY <1>2, <3>2
    <3>4. k + 1 \in DOMAIN n.held[t] /\ n.held[t][k + 1] = s.chunk
      BY <1>3, <3>1 DEF RestorableAt
    <3>5. ASSUME NEW a \in s.kept
          PROVE  /\ a \in InUse(n, t)
                 /\ \E j \in DOMAIN n.held[t] : k + 1 <= j /\ n.held[t][j] = a.chunk
                 /\ a.chunk = s.chunk => a.at + a.size <= s.at
      <4>1. PICK j \in DOMAIN m.held[t] : k <= j /\ m.held[t][j] = a.chunk
        BY <3>1 DEF RestorableAt
      <4>2. j + 1 \in DOMAIN n.held[t] /\ n.held[t][j + 1] = a.chunk /\ k + 1 <= j + 1
        BY <1>3, <4>1
      <4>3. a \in InUse(m, t) /\ (a.chunk = s.chunk => a.at + a.size <= s.at)
        BY <3>1 DEF RestorableAt
      <4> QED BY <1>4, <4>2, <4>3
    <3>6. RestorableAt(n, t, s, k + 1)
      BY <1>4, <3>1, <3>3, <3>4, <3>5 DEF RestorableAt
    <3> QED BY <2>1, <3>4, <3>6 DEF Restorable
  <2>2. CASE ~ s.taken
    BY <1>10, <2>2 DEF Restorable
  <2> QED BY <2>1, <2>2
<1> QED BY <1>1, <1>2, <1>4, <1>5, <1>7, <1>8, <1>9, <1>10 DEF Sound

\* There is room for an allocation, or a chunk for it.
Room(m, t, size, align) ==
  \/ m.held[t] # <<>> /\ FitsIn(m.chunk[Current(m, t)], size, align)
  \/ FromPool(m, size) \/ Unused(m) # {}

\* An env is asked for with the size of a size_t, aligned, and there is room to
\* write it whole where it is put.
EnvWritable(m, t, size, align, use) ==
  use = "env" =>
    /\ size = EnvAsked /\ align = MaxAlign
    /\ m.held[t] # <<>> => EnvRoom(m, t, size, align, use)

\* What barena_memalign does, to memory and to what was promised of it.
LEMMA MemalignSound ==
  ASSUME NEW m, Sound(m), NEW t \in Task,
         NEW size \in Nat, NEW align \in Nat, align > 0, NEW use \in {"env", "data"},
         Room(m, t, size, align), EnvWritable(m, t, size, align, use),
         m.held[t] # <<>> => NoEnvBehind(m, t, align),
         NEW n, n = Memalign(m, t, size, align, use)
  PROVE  /\ Sound(n)
         /\ \A u \in Task \ {t} : \A s \in Mark : Restorable(m, u, s) => Restorable(n, u, s)
         /\ use = "data" => \A s \in Mark : Restorable(m, t, s) => Restorable(n, t, s)
<1>1. CASE m.held[t] # <<>> /\ FitsIn(m.chunk[Head(m.held[t])], size, align)
  <2>1. n = TakeFrom(m, t, size, align, use)
    BY <1>1 DEF Memalign
  <2>2. EnvRoom(m, t, size, align, use)
    BY <1>1 DEF EnvWritable, EnvRoom
  <2> QED BY <1>1, <2>1, <2>2, TakeFromSound
<1>2. CASE ~ (m.held[t] # <<>> /\ FitsIn(m.chunk[Head(m.held[t])], size, align))
  <2> DEFINE p == WithNewChunk(m, t, size)
  <2>1. n = TakeFrom(p, t, size, align, use)
    BY <1>2 DEF Memalign
  <2>2. FromPool(m, size) \/ Unused(m) # {}
    BY <1>2 DEF Room, Current
  <2>3. PICK c \in Chunk : Extended(m, p, t, c, size)
    BY <2>2, WithNewChunkIs
  <2> HIDE DEF p
  <2>4. /\ Sound(p)
        /\ \A u \in Task : InUse(p, u) = InUse(m, u)
        /\ \A a \in InUse(p, t) : a.chunk # c
        /\ \A u \in Task : \A s \in Mark : Restorable(m, u, s) => Restorable(p, u, s)
    BY <2>3, ExtendedSound
  <2>5. p.held[t] # <<>> /\ Current(p, t) = c
    BY <2>3, ExtendedHolds
  <2>6. NoEnvBehind(p, t, align)
    BY <2>4, <2>5 DEF NoEnvBehind
  <2>7. EnvRoom(p, t, size, align, use)
    <3>1. p.chunk[c].bump = Header /\ p.chunk[c].size >= ChunkSize(size) /\ p.chunk[c].size \in Nat
      BY <2>3, <2>4, MemoryParts DEF Extended, Sound
    <3>2. p.chunk[c].size >= Page /\ Page \in Nat
      <4>1. ChunkSize(size) \in Nat /\ ChunkSize(size) >= Page
        BY ChunkSizes
      <4> QED BY <3>1, <4>1, Constants
    <3>3. AlignUp(Header, MaxAlign) \in Nat /\ AlignUp(Header, MaxAlign) + EnvWords <= Page
      <4>1. 0 \in ArgSize \cup {0}
        OBVIOUS
      <4> QED BY <4>1, EnvFits, Constants
    <3>4. use = "env" => size = EnvAsked /\ align = MaxAlign
      BY DEF EnvWritable
    <3>5. use = "env" => Spot(p, t, align) = AlignUp(Header, MaxAlign)
      BY <2>5, <3>1, <3>4 DEF Spot
    <3>6. use = "env" => Spot(p, t, align) + EnvWords <= p.chunk[c].size
      BY <3>1, <3>2, <3>3, <3>5, Constants
    <3> QED BY <2>5, <3>4, <3>6 DEF EnvRoom
  <2>8. /\ Sound(n)
        /\ \A u \in Task \ {t} : \A s \in Mark : Restorable(p, u, s) => Restorable(n, u, s)
        /\ use = "data" => \A s \in Mark : Restorable(p, t, s) => Restorable(n, t, s)
    BY <2>1, <2>4, <2>5, <2>6, <2>7, TakeFromSound
  <2> QED BY <2>4, <2>8
<1> QED BY <1>1, <1>2

-----------------------------------------------------------------------------
(* Chunks are given back.                                                  *)

\* A snapshot that holds, or the NULL one.
Usable(m, t, s) == s = NoMark \/ (s \in Mark /\ s.taken /\ Restorable(m, t, s))

\* The first "gone" chunks of an arena are above the snapshot.
SplitAt(m, t, s, gone) ==
  /\ gone \in 0 .. Len(m.held[t]) /\ Above(m, t, s) = 1 .. gone
  /\ s # NoMark => gone + 1 \in DOMAIN m.held[t] /\ RestorableAt(m, t, s, gone + 1)

\* Those above a snapshot come before the chunk it points into.
LEMMA AboveIsPrefix ==
  ASSUME NEW m, Sound(m), NEW t \in Task, NEW s, Usable(m, t, s)
  PROVE  \E gone \in 0 .. Len(m.held[t]) : SplitAt(m, t, s, gone)
<1> DEFINE q == m.held[t]
<1>1. /\ q \in Seq(Chunk) /\ Len(q) \in Nat /\ DOMAIN q = 1 .. Len(q)
      /\ \A i \in 1 .. Len(q) : q[i] \in Chunk
  <2>1. q \in Seq(Chunk)
    BY MemoryParts DEF Sound
  <2> QED BY <2>1
<1>2. \A i \in 1 .. Len(q) : \A j \in 1 .. Len(q) : q[i] = q[j] => i = j
  BY <1>1 DEF Sound, Placed
<1>3. Above(m, t, s) =
        {i \in 1 .. Len(q) : \A j \in 1 .. i : ~ (s.chunk = q[j] /\ Header <= s.at
                                                   /\ s.at <= m.chunk[q[j]].size)}
  BY <1>1 DEF Above
<1>4. CASE s = NoMark
  <2>1. s.chunk = 0
    BY <1>4 DEF NoMark
  <2>2. \A i \in 1 .. Len(q) : \A j \in 1 .. i : s.chunk # q[j]
    BY <1>1, <2>1, Constants
  <2>3. Above(m, t, s) = 1 .. Len(q)
    <3> HIDE DEF q
    <3> QED BY <1>3, <2>2
  <2>4. Len(q) \in 0 .. Len(q)
    BY <1>1
  <2> QED BY <1>4, <2>3, <2>4 DEF SplitAt
<1>5. CASE s # NoMark
  <2>1. s \in Mark /\ s.taken /\ Restorable(m, t, s)
    BY <1>5 DEF Usable
  <2>2. PICK k \in DOMAIN q : RestorableAt(m, t, s, k)
    BY <2>1 DEF Restorable
  <2>3. k \in 1 .. Len(q) /\ q[k] = s.chunk /\ Header <= s.at /\ s.at <= m.chunk[s.chunk].bump
    BY <1>1, <2>2 DEF RestorableAt
  <2>4. s.at <= m.chunk[s.chunk].size
    <3>1. Holds(m, t, s.chunk) /\ s.chunk \in Chunk
      BY <1>1, <2>3 DEF Holds
    <3>2. m.chunk[s.chunk].bump <= m.chunk[s.chunk].size
      BY <3>1 DEF Sound, Orderly
    <3>3. m.chunk[s.chunk].bump \in Nat /\ m.chunk[s.chunk].size \in Nat
      BY <3>1, MemoryParts DEF Sound
    <3>4. s.at \in Nat
      BY <2>1 DEF Mark
    <3> QED BY <2>3, <3>2, <3>3, <3>4
  <2> HIDE DEF q
  <2>5. ASSUME NEW i \in 1 .. Len(q) PROVE i \in Above(m, t, s) <=> i < k
    <3>1. CASE i < k
      <4>1. \A j \in 1 .. i : s.chunk # q[j]
        BY <1>1, <1>2, <2>3, <3>1
      <4> QED BY <1>3, <3>1, <4>1
    <3>2. CASE ~ (i < k)
      <4>1. k \in 1 .. i
        BY <1>1, <2>3, <3>2
      <4> QED BY <1>3, <2>3, <2>4, <3>2, <4>1
    <3> QED BY <3>1, <3>2
  <2>6. Above(m, t, s) \subseteq 1 .. Len(q)
    BY <1>3
  <2>7. Above(m, t, s) = 1 .. k - 1
    <3>1. 1 .. k - 1 \subseteq 1 .. Len(q) /\ \A i \in 1 .. Len(q) : i < k <=> i \in 1 .. k - 1
      BY <1>1, <2>3
    <3> QED BY <2>5, <2>6, <3>1
  <2>8. k - 1 \in 0 .. Len(q) /\ (k - 1) + 1 = k
    BY <1>1, <2>3
  <2> QED BY <1>5, <2>2, <2>7, <2>8 DEF SplitAt, q
<1> QED BY <1>4, <1>5

\* "n" is "m" with the first "gone" chunks of the task's arena in the pool, and
\* the chunk of the snapshot filled from there again.
GivenBack(m, n, t, s, gone) ==
  /\ n \in MemoryType
  /\ n.held[t] = SubSeq(m.held[t], gone + 1, Len(m.held[t]))
  /\ \A u \in Task \ {t} : n.held[u] = m.held[u]
  /\ n.free = [i \in 1 .. gone |-> m.held[t][gone + 1 - i]] \o m.free
  /\ \A d \in Chunk : n.chunk[d].size = m.chunk[d].size
  /\ \A d \in Chunk \ {s.chunk} : n.chunk[d] = m.chunk[d]
  /\ s # NoMark => n.chunk[s.chunk].bump = s.at
  /\ n.live = (m.live \ {a \in m.live : a.task = t}) \cup s.kept

\* The chunks that go to the pool, the last of them to its front.
LEMMA ReversedChunks ==
  ASSUME NEW q \in Seq(Chunk), NEW gone \in 0 .. Len(q),
         NEW r, r = [i \in 1 .. gone |-> q[gone + 1 - i]]
  PROVE  /\ r \in Seq(Chunk) /\ Len(r) = gone
         /\ \A i \in 1 .. gone : gone + 1 - i \in 1 .. gone /\ r[i] = q[gone + 1 - i]
<1>1. Len(q) \in Nat /\ gone \in Nat /\ gone <= Len(q)
  OBVIOUS
<1>2. \A i \in 1 .. gone : gone + 1 - i \in 1 .. gone /\ gone + 1 - i \in 1 .. Len(q)
  BY <1>1
<1>3. \A i \in 1 .. gone : q[gone + 1 - i] \in Chunk
  BY <1>2
<1> QED BY <1>1, <1>2, <1>3

\* What barena_restore does to memory.
LEMMA RestoredIs ==
  ASSUME NEW m, Sound(m), NEW t \in Task, NEW s, Usable(m, t, s),
         NEW gone, SplitAt(m, t, s, gone),
         NEW n, n = Restored(m, t, s)
  PROVE  GivenBack(m, n, t, s, gone)
<1>1. /\ m.chunk \in [Chunk -> [size: Nat, bump: Nat]]
      /\ m.held \in [Task -> Seq(Chunk)] /\ m.free \in Seq(Chunk)
      /\ m.live \in SUBSET Allocation /\ m \in MemoryType
  BY MemoryParts DEF Sound
<1> DEFINE q == m.held[t]
           r == [i \in 1 .. gone |-> q[gone + 1 - i]]
           q2 == SubSeq(q, gone + 1, Len(q))
           held2 == [m.held EXCEPT ![t] = q2]
           free2 == r \o m.free
           chunk2 == IF s.chunk = 0 THEN m.chunk
                     ELSE [m.chunk EXCEPT ![s.chunk].bump = s.at]
           live2 == (m.live \ {a \in m.live : a.task = t}) \cup s.kept
<1>2. q \in Seq(Chunk) /\ Len(q) \in Nat /\ gone \in 0 .. Len(q) /\ gone \in Nat
  BY <1>1 DEF SplitAt
<1>3. Cardinality(Above(m, t, s)) = gone
  <2>1. Cardinality(1 .. gone) = gone
    BY <1>2, FS_Interval
  <2> QED BY <2>1 DEF SplitAt
<1>4. n = [m EXCEPT !.held = held2, !.free = free2, !.chunk = chunk2, !.live = live2]
  <2>1. n = [m EXCEPT !.held[t] = SubSeq(@, gone + 1, Len(@)),
                !.free = [i \in 1 .. gone |-> m.held[t][gone + 1 - i]] \o @,
                !.chunk = IF s.chunk = 0 THEN @ ELSE [@ EXCEPT ![s.chunk].bump = s.at],
                !.live = (@ \ {a \in @ : a.task = t}) \cup s.kept]
    BY <1>3 DEF Restored
  <2> QED BY <1>1, <2>1
<1>5. q2 \in Seq(Chunk)
  <2>1. \A i \in gone + 1 .. Len(q) : q[i] \in Chunk
    <3> HIDE DEF q
    <3> QED BY <1>2
  <2> HIDE DEF q
  <2> QED BY <1>2, <2>1, SubSeqProperties
<1>6. free2 \in Seq(Chunk)
  <2>1. r \in Seq(Chunk)
    <3> HIDE DEF q
    <3> QED BY <1>2, ReversedChunks
  <2> HIDE DEF r, q
  <2> QED BY <1>1, <2>1, ConcatProperties
<1> HIDE DEF q2, free2, r, q
<1>7. held2 \in [Task -> Seq(Chunk)] /\ held2[t] = q2 /\ \A u \in Task \ {t} : held2[u] = m.held[u]
  BY <1>1, <1>5
<1>8. s.kept \in SUBSET Allocation
  BY DEF Usable, Mark, NoMark
<1>9. live2 \in SUBSET Allocation
  BY <1>1, <1>8
<1>10. /\ chunk2 \in [Chunk -> [size: Nat, bump: Nat]]
       /\ \A d \in Chunk : chunk2[d].size = m.chunk[d].size
       /\ \A d \in Chunk \ {s.chunk} : chunk2[d] = m.chunk[d]
       /\ s # NoMark => chunk2[s.chunk].bump = s.at
  <2>1. CASE s = NoMark
    <3>1. chunk2 = m.chunk
      BY <2>1 DEF NoMark
    <3> QED BY <1>1, <2>1, <3>1
  <2>2. CASE s # NoMark
    <3>1. s.at \in Nat
      BY <2>2 DEF Usable, Mark
    <3>2. s.chunk \in Chunk /\ s.chunk # 0
      <4>1. m.held[t][gone + 1] = s.chunk /\ gone + 1 \in DOMAIN m.held[t]
        BY <2>2 DEF SplitAt, RestorableAt
      <4>2. m.held[t] \in Seq(Chunk)
        BY <1>1
      <4> QED BY <4>1, <4>2, Constants
    <3>3. chunk2 = [m.chunk EXCEPT ![s.chunk].bump = s.at]
      BY <3>2
    <3> HIDE DEF chunk2
    <3> QED BY <1>1, <3>1, <3>2, <3>3
  <2> QED BY <2>1, <2>2
<1> HIDE DEF chunk2, live2, held2
<1>11. /\ n.held = held2 /\ n.free = free2 /\ n.chunk = chunk2 /\ n.live = live2
       /\ n \in MemoryType
  BY <1>1, <1>4, <1>6, <1>7, <1>9, <1>10 DEF MemoryType
<1> QED BY <1>7, <1>10, <1>11 DEF GivenBack, q2, free2, r, q, live2

\* Where the chunks are then.
LaidOut(m, n, t, gone) ==
  LET q == m.held[t]
  IN  /\ q \in Seq(Chunk) /\ Len(q) \in Nat /\ DOMAIN q = 1 .. Len(q) /\ gone \in 0 .. Len(q)
      /\ DOMAIN n.held[t] = 1 .. Len(q) - gone
      /\ \A i \in 1 .. Len(q) - gone : gone + i \in 1 .. Len(q) /\ n.held[t][i] = q[gone + i]
      /\ Len(m.free) \in Nat /\ DOMAIN m.free = 1 .. Len(m.free)
      /\ DOMAIN n.free = 1 .. gone + Len(m.free)
      /\ \A i \in 1 .. gone : gone + 1 - i \in 1 .. gone /\ n.free[i] = q[gone + 1 - i]
      /\ \A i \in 1 .. Len(m.free) : n.free[gone + i] = m.free[i]

LEMMA GivenBackPlaces ==
  ASSUME NEW m, Sound(m), NEW t \in Task, NEW s,
         NEW gone, SplitAt(m, t, s, gone), NEW n, GivenBack(m, n, t, s, gone)
  PROVE  LaidOut(m, n, t, gone)
<1> DEFINE q == m.held[t]
<1>1. /\ q \in Seq(Chunk) /\ Len(q) \in Nat /\ DOMAIN q = 1 .. Len(q)
      /\ m.free \in Seq(Chunk) /\ gone \in 0 .. Len(q) /\ gone \in Nat
  <2>1. q \in Seq(Chunk) /\ m.free \in Seq(Chunk)
    BY MemoryParts DEF Sound
  <2>2. gone \in 0 .. Len(q)
    BY DEF SplitAt
  <2> QED BY <2>1, <2>2
<1>2. n.held[t] = SubSeq(q, gone + 1, Len(q))
  BY DEF GivenBack
<1>3. \A i \in gone + 1 .. Len(q) : q[i] \in Chunk
  BY <1>1
<1> DEFINE q2 == SubSeq(q, gone + 1, Len(q))
<1>4. /\ q2 \in Seq(Chunk)
      /\ Len(q2) = IF gone + 1 <= Len(q) THEN Len(q) - (gone + 1) + 1 ELSE 0
      /\ \A i \in 1 .. Len(q) - (gone + 1) + 1 : q2[i] = q[gone + 1 + i - 1]
  BY <1>1, <1>3, SubSeqProperties
<1> HIDE DEF q2
<1>5. Len(q2) = Len(q) - gone
  BY <1>1, <1>4
<1>6. DOMAIN q2 = 1 .. Len(q) - gone
  BY <1>4, <1>5
<1>7. ASSUME NEW i \in 1 .. Len(q) - gone
      PROVE  gone + i \in 1 .. Len(q) /\ q2[i] = q[gone + i]
  <2>1. i \in 1 .. Len(q) - (gone + 1) + 1 /\ gone + 1 + i - 1 = gone + i
    BY <1>1
  <2> QED BY <1>1, <1>4, <2>1
<1> DEFINE r == [i \in 1 .. gone |-> q[gone + 1 - i]]
           f == r \o m.free
<1>8. n.free = f
  BY DEF GivenBack
<1>9. /\ r \in Seq(Chunk) /\ Len(r) = gone
      /\ \A i \in 1 .. gone : gone + 1 - i \in 1 .. gone /\ r[i] = q[gone + 1 - i]
  BY <1>1, ReversedChunks
<1> HIDE DEF r
<1>10. /\ f \in Seq(Chunk) /\ Len(f) = gone + Len(m.free) /\ Len(m.free) \in Nat
       /\ \A i \in 1 .. gone : f[i] = r[i]
       /\ \A i \in 1 .. Len(m.free) : f[gone + i] = m.free[i]
  <2> DEFINE p == m.free
  <2>1. p \in Seq(Chunk) /\ r \in Seq(Chunk)
    BY <1>1, <1>9
  <2>2. f = r \o p
    OBVIOUS
  <2> HIDE DEF p, f
  <2>3. /\ r \o p \in Seq(Chunk) /\ Len(r \o p) = Len(r) + Len(p)
        /\ \A i \in 1 .. Len(r) : (r \o p)[i] = r[i]
        /\ \A i \in 1 .. Len(p) : (r \o p)[Len(r) + i] = p[i]
    BY <2>1, ConcatProperties
  <2>4. Len(p) \in Nat
    BY <2>1
  <2> QED BY <1>1, <1>9, <2>2, <2>3, <2>4 DEF p
<1> HIDE DEF f
<1>11. DOMAIN f = 1 .. gone + Len(m.free) /\ DOMAIN m.free = 1 .. Len(m.free)
  BY <1>1, <1>10
<1>12. /\ DOMAIN n.held[t] = 1 .. Len(q) - gone
       /\ \A i \in 1 .. Len(q) - gone : gone + i \in 1 .. Len(q) /\ n.held[t][i] = q[gone + i]
  BY <1>2, <1>6, <1>7 DEF q2
<1>13. /\ DOMAIN n.free = 1 .. gone + Len(m.free)
       /\ \A i \in 1 .. gone : gone + 1 - i \in 1 .. gone /\ n.free[i] = q[gone + 1 - i]
       /\ \A i \in 1 .. Len(m.free) : n.free[gone + i] = m.free[i]
  BY <1>8, <1>9, <1>10, <1>11
<1> QED BY <1>1, <1>10, <1>11, <1>12, <1>13 DEF LaidOut

\* A chunk that was above the snapshot is in the pool, the others stay.
LEMMA GivenBackHolds ==
  ASSUME NEW m, Sound(m), NEW t \in Task, NEW s,
         NEW gone, SplitAt(m, t, s, gone), NEW n, GivenBack(m, n, t, s, gone), NEW d
  PROVE  /\ Holds(n, t, d) <=> \E i \in gone + 1 .. Len(m.held[t]) : m.held[t][i] = d
         /\ Pooled(n, d) <=> Pooled(m, d) \/ \E i \in 1 .. gone : m.held[t][i] = d
         /\ \A u \in Task \ {t} : Holds(n, u, d) <=> Holds(m, u, d)
<1> DEFINE q == m.held[t]
<1>1. /\ q \in Seq(Chunk) /\ Len(q) \in Nat /\ DOMAIN q = 1 .. Len(q) /\ gone \in 0 .. Len(q)
      /\ DOMAIN n.held[t] = 1 .. Len(q) - gone
      /\ \A i \in 1 .. Len(q) - gone : gone + i \in 1 .. Len(q) /\ n.held[t][i] = q[gone + i]
      /\ Len(m.free) \in Nat /\ DOMAIN m.free = 1 .. Len(m.free)
      /\ DOMAIN n.free = 1 .. gone + Len(m.free)
      /\ \A i \in 1 .. gone : gone + 1 - i \in 1 .. gone /\ n.free[i] = q[gone + 1 - i]
      /\ \A i \in 1 .. Len(m.free) : n.free[gone + i] = m.free[i]
  BY GivenBackPlaces DEF LaidOut
<1> HIDE DEF q
<1>2. Holds(n, t, d) <=> \E i \in gone + 1 .. Len(q) : q[i] = d
  <2>1. ASSUME NEW i \in DOMAIN n.held[t], n.held[t][i] = d
        PROVE  \E j \in gone + 1 .. Len(q) : q[j] = d
    <3>1. gone + i \in gone + 1 .. Len(q) /\ q[gone + i] = d
      BY <1>1, <2>1
    <3> QED BY <3>1
  <2>2. ASSUME NEW i \in gone + 1 .. Len(q), q[i] = d
        PROVE  \E j \in DOMAIN n.held[t] : n.held[t][j] = d
    <3>1. i - gone \in 1 .. Len(q) - gone /\ gone + (i - gone) = i
      BY <1>1
    <3>2. n.held[t][i - gone] = d
      BY <1>1, <2>2, <3>1
    <3> QED BY <1>1, <3>1, <3>2
  <2> QED BY <2>1, <2>2 DEF Holds
<1>3. Pooled(n, d) <=> Pooled(m, d) \/ \E i \in 1 .. gone : q[i] = d
  <2>1. ASSUME NEW i \in DOMAIN n.free, n.free[i] = d
        PROVE  Pooled(m, d) \/ \E j \in 1 .. gone : q[j] = d
    <3>1. CASE i <= gone
      <4>1. i \in 1 .. gone
        BY <1>1, <3>1
      <4> QED BY <1>1, <2>1, <4>1
    <3>2. CASE i > gone
      <4>1. i - gone \in 1 .. Len(m.free) /\ gone + (i - gone) = i
        BY <1>1, <3>2
      <4>2. m.free[i - gone] = d
        BY <1>1, <2>1, <4>1
      <4> QED BY <1>1, <4>1, <4>2 DEF Pooled
    <3> QED BY <1>1, <3>1, <3>2
  <2>2. ASSUME Pooled(m, d) PROVE \E j \in DOMAIN n.free : n.free[j] = d
    <3>1. PICK i \in 1 .. Len(m.free) : m.free[i] = d
      BY <1>1, <2>2 DEF Pooled
    <3>2. gone + i \in 1 .. gone + Len(m.free) /\ n.free[gone + i] = d
      BY <1>1, <3>1
    <3> QED BY <1>1, <3>2
  <2>3. ASSUME NEW i \in 1 .. gone, q[i] = d PROVE \E j \in DOMAIN n.free : n.free[j] = d
    <3>1. gone + 1 - i \in 1 .. gone /\ gone + 1 - (gone + 1 - i) = i
      BY <1>1
    <3>2. n.free[gone + 1 - i] = d
      BY <1>1, <2>3, <3>1
    <3>3. gone + 1 - i \in DOMAIN n.free
      BY <1>1, <3>1
    <3> QED BY <3>2, <3>3
  <2> QED BY <2>1, <2>2, <2>3 DEF Pooled
<1>4. \A u \in Task \ {t} : Holds(n, u, d) <=> Holds(m, u, d)
  BY DEF GivenBack, Holds
<1> QED BY <1>2, <1>3, <1>4 DEF q

\* Every chunk is still in one place.
LEMMA GivenBackPlaced ==
  ASSUME NEW m, Sound(m), NEW t \in Task, NEW s,
         NEW gone, SplitAt(m, t, s, gone), NEW n, GivenBack(m, n, t, s, gone)
  PROVE  Placed(n)
<1> DEFINE q == m.held[t]
<1>1. /\ q \in Seq(Chunk) /\ Len(q) \in Nat /\ DOMAIN q = 1 .. Len(q) /\ gone \in 0 .. Len(q)
      /\ DOMAIN n.held[t] = 1 .. Len(q) - gone
      /\ \A i \in 1 .. Len(q) - gone : gone + i \in 1 .. Len(q) /\ n.held[t][i] = q[gone + i]
      /\ Len(m.free) \in Nat /\ DOMAIN m.free = 1 .. Len(m.free)
      /\ DOMAIN n.free = 1 .. gone + Len(m.free)
      /\ \A i \in 1 .. gone : gone + 1 - i \in 1 .. gone /\ n.free[i] = q[gone + 1 - i]
      /\ \A i \in 1 .. Len(m.free) : n.free[gone + i] = m.free[i]
  BY GivenBackPlaces DEF LaidOut
<1>2. /\ \A i \in 1 .. Len(q) : \A j \in 1 .. Len(q) : q[i] = q[j] => i = j
      /\ \A i \in 1 .. Len(m.free) : \A j \in 1 .. Len(m.free) : m.free[i] = m.free[j] => i = j
  BY <1>1 DEF Sound, Placed
<1>3. \A i \in 1 .. Len(q) : \A j \in 1 .. Len(m.free) : q[i] # m.free[j]
  <2> SUFFICES ASSUME NEW i \in 1 .. Len(q), NEW j \in 1 .. Len(m.free), q[i] = m.free[j]
               PROVE  FALSE
    OBVIOUS
  <2> DEFINE d == q[i]
  <2>0. /\ i \in DOMAIN m.held[t] /\ m.held[t][i] = d
        /\ j \in DOMAIN m.free /\ m.free[j] = d /\ d \in Chunk
    BY <1>1
  <2> HIDE DEF d
  <2>1. Holds(m, t, d) /\ Pooled(m, d) /\ d \in Chunk
    BY <2>0 DEF Holds, Pooled
  <2> QED BY <2>1 DEF Sound, Placed
<1>4. \A d : /\ Holds(n, t, d) <=> \E i \in gone + 1 .. Len(q) : q[i] = d
             /\ Pooled(n, d) <=> Pooled(m, d) \/ \E i \in 1 .. gone : q[i] = d
             /\ \A u \in Task \ {t} : Holds(n, u, d) <=> Holds(m, u, d)
  BY GivenBackHolds
<1>5. \A d : Holds(m, t, d) <=> \E i \in 1 .. Len(q) : q[i] = d
  BY <1>1 DEF Holds
<1> HIDE DEF q
<1>6. \A u \in Task : \A i \in DOMAIN n.held[u] : \A j \in DOMAIN n.held[u] :
        n.held[u][i] = n.held[u][j] => i = j
  <2>1. ASSUME NEW i \in DOMAIN n.held[t], NEW j \in DOMAIN n.held[t],
               n.held[t][i] = n.held[t][j]
        PROVE  i = j
    <3>1. gone + i = gone + j
      BY SMTT(30), <1>1, <1>2, <2>1
    <3> QED BY <1>1, <3>1
  <2>2. ASSUME NEW u \in Task \ {t}
        PROVE  \A i \in DOMAIN n.held[u] : \A j \in DOMAIN n.held[u] :
                 n.held[u][i] = n.held[u][j] => i = j
    BY DEF GivenBack, Sound, Placed
  <2> QED BY <2>1, <2>2
<1>7. ASSUME NEW i \in DOMAIN n.free, NEW j \in DOMAIN n.free, n.free[i] = n.free[j]
      PROVE  i = j
  <2>1. ASSUME NEW x \in DOMAIN n.free
        PROVE  \/ x \in 1 .. gone
               \/ x - gone \in 1 .. Len(m.free) /\ n.free[x] = m.free[x - gone]
    <3>1. CASE x <= gone
      BY <1>1, <3>1
    <3>2. CASE x > gone
      <4>1. x - gone \in 1 .. Len(m.free) /\ gone + (x - gone) = x
        BY <1>1, <3>2
      <4>2. n.free[gone + (x - gone)] = m.free[x - gone]
        BY <1>1, <4>1
      <4> QED BY <4>1, <4>2
    <3> QED BY <1>1, <3>1, <3>2
  <2>2. \A x \in 1 .. gone : gone + 1 - x \in 1 .. Len(q) /\ n.free[x] = q[gone + 1 - x]
    BY SMTT(30), <1>1
  <2>3. CASE i \in 1 .. gone /\ j \in 1 .. gone
    <3>1. gone + 1 - i = gone + 1 - j
      BY <1>2, <1>7, <2>2, <2>3
    <3> QED BY <1>1, <2>3, <3>1
  <2>4. CASE i \in 1 .. gone /\ j \notin 1 .. gone
    BY <1>3, <1>7, <2>1, <2>2, <2>4
  <2>5. CASE i \notin 1 .. gone /\ j \in 1 .. gone
    BY <1>3, <1>7, <2>1, <2>2, <2>5
  <2>6. CASE i \notin 1 .. gone /\ j \notin 1 .. gone
    <3>1. i - gone = j - gone
      BY <1>2, <1>7, <2>1, <2>6
    <3> QED BY <1>1, <3>1
  <2> QED BY <2>3, <2>4, <2>5, <2>6
<1>8. ASSUME NEW d \in Chunk
      PROVE  /\ \A x, y \in Task : Holds(n, x, d) /\ Holds(n, y, d) => x = y
             /\ \A x \in Task : ~ (Holds(n, x, d) /\ Pooled(n, d))
             /\ n.chunk[d].size # 0 <=> Pooled(n, d) \/ \E x \in Task : Holds(n, x, d)
             /\ n.chunk[d].size # 0 => n.chunk[d].size >= Page
  <2>1. /\ \A x, y \in Task : Holds(m, x, d) /\ Holds(m, y, d) => x = y
        /\ \A x \in Task : ~ (Holds(m, x, d) /\ Pooled(m, d))
        /\ m.chunk[d].size # 0 <=> Pooled(m, d) \/ \E x \in Task : Holds(m, x, d)
        /\ m.chunk[d].size # 0 => m.chunk[d].size >= Page
        /\ n.chunk[d].size = m.chunk[d].size
    BY DEF Sound, Placed, GivenBack
  <2>2. Holds(n, t, d) => Holds(m, t, d)
    <3>1. gone + 1 .. Len(q) \subseteq 1 .. Len(q)
      BY <1>1
    <3> QED BY <1>4, <1>5, <3>1
  <2>3. (\E i \in 1 .. gone : q[i] = d) => Holds(m, t, d)
    <3>1. 1 .. gone \subseteq 1 .. Len(q)
      BY <1>1
    <3> QED BY <1>5, <3>1
  <2>4. Holds(m, t, d) => Holds(n, t, d) \/ Pooled(n, d)
    <3>1. \A i \in 1 .. Len(q) : i \in 1 .. gone \/ i \in gone + 1 .. Len(q)
      BY <1>1
    <3> QED BY <1>4, <1>5, <3>1
  <2>5. ~ (Holds(n, t, d) /\ \E i \in 1 .. gone : q[i] = d)
    <3> SUFFICES ASSUME NEW i \in gone + 1 .. Len(q), NEW j \in 1 .. gone, q[i] = d, q[j] = d
                 PROVE  FALSE
      BY <1>4
    <3>1. i \in 1 .. Len(q) /\ j \in 1 .. Len(q) /\ i # j
      BY <1>1
    <3> QED BY <1>2, <3>1
  <2>6. ~ (Holds(n, t, d) /\ Pooled(n, d))
    BY <1>4, <2>1, <2>2, <2>5
  <2>7. ASSUME NEW x \in Task \ {t} PROVE ~ (Holds(n, x, d) /\ Pooled(n, d))
    BY <1>4, <2>1, <2>3
  <2>8. \A x, y \in Task : Holds(n, x, d) /\ Holds(n, y, d) => x = y
    BY <1>4, <2>1, <2>2
  <2>9. n.chunk[d].size # 0 <=> Pooled(n, d) \/ \E x \in Task : Holds(n, x, d)
    BY <1>4, <2>1, <2>2, <2>3, <2>4
  <2> QED BY <2>1, <2>6, <2>7, <2>8, <2>9
<1> QED BY <1>6, <1>7, <1>8 DEF Placed

\* What is in use then was in use when the snapshot was taken, and lies in what
\* the arena keeps.
LEMMA GivenBackSound ==
  ASSUME NEW m, Sound(m), NEW t \in Task, NEW s, Usable(m, t, s),
         NEW gone, SplitAt(m, t, s, gone), NEW n, GivenBack(m, n, t, s, gone)
  PROVE  /\ Sound(n) /\ InUse(n, t) = s.kept
         /\ \A u \in Task \ {t} : \A x : Restorable(m, u, x) => Restorable(n, u, x)
<1>1. m \in MemoryType /\ n \in MemoryType /\ Placed(m) /\ \A u \in Task : Orderly(m, u)
  BY DEF Sound, GivenBack
<1>2. Placed(n)
  BY GivenBackPlaced
<1>3. s # NoMark => RestorableAt(m, t, s, gone + 1) /\ gone + 1 \in DOMAIN m.held[t]
  BY DEF SplitAt
<1>4. s.kept \subseteq InUse(m, t)
  <2>1. CASE s = NoMark
    BY <2>1 DEF NoMark
  <2>2. CASE s # NoMark
    BY <1>3, <2>2 DEF RestorableAt
  <2> QED BY <2>1, <2>2
<1>5. n.live = (m.live \ {a \in m.live : a.task = t}) \cup s.kept
  BY DEF GivenBack
<1>6. InUse(n, t) = s.kept /\ \A u \in Task \ {t} : InUse(n, u) = InUse(m, u)
  BY <1>4, <1>5 DEF InUse
<1>7. s # NoMark => Holds(m, t, s.chunk) /\ s.chunk \in Chunk
  <2> SUFFICES ASSUME s # NoMark PROVE Holds(m, t, s.chunk) /\ s.chunk \in Chunk
    OBVIOUS
  <2>1. Holds(m, t, s.chunk)
    BY <1>3 DEF Holds, RestorableAt
  <2> QED BY <1>1, <2>1, MemoryParts
<1>8. ASSUME NEW u \in Task \ {t}
      PROVE  Orderly(n, u) /\ \A x : Restorable(m, u, x) => Restorable(n, u, x)
  <2>1. \A d \in Chunk : Holds(m, u, d) => n.chunk[d] = m.chunk[d]
    <3> SUFFICES ASSUME NEW d \in Chunk, Holds(m, u, d) PROVE n.chunk[d] = m.chunk[d]
      OBVIOUS
    <3>1. d # s.chunk
      <4>1. CASE s = NoMark
        BY <4>1, Constants DEF NoMark
      <4>2. CASE s # NoMark
        BY <1>1, <1>7, <4>2 DEF Placed
      <4> QED BY <4>1, <4>2
    <3> QED BY <3>1 DEF GivenBack
  <2>2. SameFor(m, n, u)
    BY <1>6, <2>1 DEF SameFor, GivenBack
  <2> QED BY <1>1, <2>2, TaskFrame
<1>9. \A a \in s.kept : Holds(n, t, a.chunk)
  <2> SUFFICES ASSUME NEW a \in s.kept PROVE Holds(n, t, a.chunk)
    OBVIOUS
  <2>1. s # NoMark
    BY DEF NoMark
  <2>2. PICK j \in DOMAIN m.held[t] : gone + 1 <= j /\ m.held[t][j] = a.chunk
    BY <1>3, <2>1 DEF RestorableAt
  <2>3. m.held[t] \in Seq(Chunk)
    BY <1>1, MemoryParts
  <2>4. j \in gone + 1 .. Len(m.held[t])
    BY <2>2, <2>3 DEF SplitAt
  <2> QED BY <2>2, <2>4, GivenBackHolds
<1>10. \A d : Holds(n, t, d) => Holds(m, t, d)
  <2> SUFFICES ASSUME NEW d, Holds(n, t, d) PROVE Holds(m, t, d)
    OBVIOUS
  <2>1. PICK i \in gone + 1 .. Len(m.held[t]) : m.held[t][i] = d
    BY GivenBackHolds
  <2>2. m.held[t] \in Seq(Chunk) /\ gone \in Nat
    BY <1>1, MemoryParts DEF SplitAt
  <2>3. i \in DOMAIN m.held[t]
    BY <2>1, <2>2
  <2> QED BY <2>1, <2>3 DEF Holds
<1>11. /\ \A d \in Chunk : n.chunk[d].size = m.chunk[d].size
       /\ \A d \in Chunk \ {s.chunk} : n.chunk[d] = m.chunk[d]
       /\ s # NoMark => n.chunk[s.chunk].bump = s.at
  BY DEF GivenBack
<1>12. s # NoMark =>
         /\ Header <= s.at /\ s.at <= m.chunk[s.chunk].bump /\ s.at \in Nat
         /\ m.chunk[s.chunk].bump \in Nat /\ m.chunk[s.chunk].size \in Nat
  BY <1>1, <1>3, <1>7, MemoryParts DEF RestorableAt, Usable, Mark
<1>13. Orderly(n, t)
  <2>1. ASSUME NEW d \in Chunk, Holds(n, t, d)
        PROVE  Header <= n.chunk[d].bump /\ n.chunk[d].bump <= n.chunk[d].size
    <3>1. Header <= m.chunk[d].bump /\ m.chunk[d].bump <= m.chunk[d].size
      BY <1>1, <1>10, <2>1 DEF Orderly
    <3>2. CASE d = s.chunk
      <4>1. s # NoMark
        BY <3>2, Constants DEF NoMark
      <4>2. n.chunk[d].bump = s.at /\ n.chunk[d].size = m.chunk[d].size
        BY <1>11, <3>2, <4>1
      <4> QED BY <1>12, <3>1, <3>2, <4>1, <4>2, Constants
    <3>3. CASE d # s.chunk
      BY <1>11, <3>1, <3>3
    <3> QED BY <3>2, <3>3
  <2>2. ASSUME NEW a \in InUse(n, t)
        PROVE  /\ Holds(n, t, a.chunk)
               /\ Header <= a.at /\ a.at + a.size <= n.chunk[a.chunk].bump
    <3>1. a \in s.kept /\ s # NoMark /\ a \in InUse(m, t)
      BY <1>4, <1>6 DEF NoMark
    <3>2. Header <= a.at /\ a.at + a.size <= m.chunk[a.chunk].bump
      BY <1>1, <3>1 DEF Orderly
    <3>3. a.chunk = s.chunk => a.at + a.size <= s.at
      BY <1>3, <3>1 DEF RestorableAt
    <3>4. a.chunk \in Chunk
      BY <1>1, <3>1, MemoryParts DEF InUse
    <3>5. a.at + a.size <= n.chunk[a.chunk].bump
      BY <1>11, <3>1, <3>2, <3>3, <3>4
    <3> QED BY <1>9, <3>1, <3>2, <3>5
  <2>3. \A a, b \in InUse(n, t) : a # b /\ a.chunk = b.chunk => Apart(a, b)
    BY <1>1, <1>4, <1>6 DEF Orderly
  <2>4. ASSUME NEW e \in InUse(n, t), e.use = "env" PROVE EnvPlaced(n, t, e)
    <3>1. e \in s.kept /\ s # NoMark /\ e \in InUse(m, t)
      BY <1>4, <1>6 DEF NoMark
    <3>2. EnvPlaced(m, t, e)
      BY <1>1, <2>4, <3>1 DEF Orderly
    <3>3. e.chunk = s.chunk => Clear(e, s.at)
      BY <1>3, <2>4, <3>1 DEF RestorableAt
    <3>4. e.chunk \in Chunk
      BY <1>1, <3>1, MemoryParts DEF InUse
    <3>5. Clear(e, n.chunk[e.chunk].bump)
      <4>1. CASE e.chunk = s.chunk
        BY <1>11, <3>1, <3>3, <4>1
      <4>2. CASE e.chunk # s.chunk
        BY <1>11, <3>2, <3>4, <4>2 DEF EnvPlaced
      <4> QED BY <4>1, <4>2
    <3>6. n.chunk[e.chunk].size = m.chunk[e.chunk].size
      BY <1>11, <3>4
    <3>7. InUse(n, t) \subseteq InUse(m, t)
      BY <1>4, <1>6
    <3> QED BY <3>2, <3>5, <3>6, <3>7 DEF EnvPlaced
  <2> QED BY <2>1, <2>2, <2>3, <2>4 DEF Orderly
<1> QED BY <1>1, <1>2, <1>6, <1>8, <1>13 DEF Sound

\* What barena_restore does, to memory and to what was promised of it.
LEMMA RestoredSound ==
  ASSUME NEW m, Sound(m), NEW t \in Task, NEW s, Usable(m, t, s),
         NEW n, n = Restored(m, t, s)
  PROVE  /\ Sound(n) /\ InUse(n, t) = s.kept
         /\ \A u \in Task \ {t} : \A x : Restorable(m, u, x) => Restorable(n, u, x)
         /\ s = NoMark => n.held[t] = <<>>
<1>1. PICK gone \in 0 .. Len(m.held[t]) : SplitAt(m, t, s, gone)
  BY AboveIsPrefix
<1>2. GivenBack(m, n, t, s, gone)
  BY <1>1, RestoredIs
<1>3. s = NoMark => n.held[t] = <<>>
  <2> SUFFICES ASSUME s = NoMark PROVE n.held[t] = <<>>
    OBVIOUS
  <2> DEFINE q == m.held[t]
  <2>1. q \in Seq(Chunk)
    BY MemoryParts DEF Sound
  <2>2. Above(m, t, s) = DOMAIN q
    <3>1. \A i \in DOMAIN q : q[i] # 0
      BY <2>1, Constants
    <3>2. s.chunk = 0 /\ \A i \in DOMAIN q : 1 .. i \subseteq DOMAIN q
      BY <2>1 DEF NoMark
    <3> HIDE DEF q
    <3> QED BY <3>1, <3>2 DEF Above, q
  <2>3. 1 .. gone = 1 .. Len(q)
    BY <1>1, <2>1, <2>2 DEF SplitAt
  <2>4. Len(q) \in Nat /\ gone \in 0 .. Len(q)
    BY <1>1, <2>1
  <2>5. gone = Len(q)
    <3> HIDE DEF q
    <3>1. CASE Len(q) = 0
      BY <2>4, <3>1
    <3>2. CASE Len(q) > 0
      <4>1. Len(q) \in 1 .. gone
        BY <2>3, <2>4, <3>2
      <4> QED BY <2>4, <4>1
    <3> QED BY <2>4, <3>1, <3>2
  <2>6. n.held[t] = SubSeq(q, gone + 1, Len(q))
    BY <1>2 DEF GivenBack
  <2> HIDE DEF q
  <2>7. gone + 1 \in Int /\ Len(q) \in Int /\ Len(q) < gone + 1
    BY <2>4, <2>5
  <2>8. SubSeq(q, gone + 1, Len(q)) = <<>>
    BY <2>7, SubSeqEmpty
  <2> QED BY <2>6, <2>8
<1>4. /\ Sound(n) /\ InUse(n, t) = s.kept
      /\ \A u \in Task \ {t} : \A x : Restorable(m, u, x) => Restorable(n, u, x)
  BY <1>1, <1>2, GivenBackSound
<1> QED BY <1>3, <1>4

-----------------------------------------------------------------------------
(* The steps.                                                              *)

\* What the invariant says of the memory and of the snapshots.
LEMMA InvParts ==
  ASSUME ArenaInv
  PROVE  /\ Sound(Memory) /\ Memory \in MemoryType
         /\ mark \in [Task -> Mark] /\ \A t \in Task : Restorable(Memory, t, mark[t])
         /\ NoMark \in Mark /\ \A m : \A t \in Task : Restorable(m, t, NoMark)
<1>1. NoMark \in Mark
  BY Constants DEF NoMark, Mark
<1>2. \A m : \A t \in Task : Restorable(m, t, NoMark)
  BY DEF Restorable, NoMark
<1> QED BY <1>1, <1>2 DEF ArenaInv, TypeOK, Sound

\* A step that leaves sound memory and snapshots that hold keeps the invariant.
LEMMA StepKeeps ==
  ASSUME NEW n, Sound(n), Becomes(n), mark' \in [Task -> Mark],
         \A t \in Task : Restorable(n, t, mark'[t])
  PROVE  ArenaInv'
<1>1. n \in MemoryType /\ Placed(n) /\ \A t \in Task : Orderly(n, t)
  BY DEF Sound
<1>2. Memory' = n
  BY <1>1 DEF Memory, Becomes, MemoryType
<1> QED BY <1>1, <1>2 DEF ArenaInv, TypeOK

LEMMA InitKeeps == Init => ArenaInv
<1> SUFFICES ASSUME Init PROVE ArenaInv
  OBVIOUS
<1> DEFINE m == Memory
<1>1. /\ m.chunk = [c \in Chunk |-> Absent] /\ m.held = [t \in Task |-> <<>>]
      /\ m.free = <<>> /\ m.live = {}
  BY DEF Init, Memory
<1>2. m \in MemoryType
  BY DEF Init, Memory, MemoryType, Absent
<1>3. mark \in [Task -> Mark] /\ \A t \in Task : mark[t] = NoMark
  BY Constants DEF Init, Mark, NoMark
<1> HIDE DEF m
<1>4. \A t \in Task : \A c : ~ Holds(m, t, c)
  BY <1>1 DEF Holds
<1>5. \A c : ~ Pooled(m, c)
  BY <1>1 DEF Pooled
<1>6. \A c \in Chunk : m.chunk[c].size = 0
  BY <1>1 DEF Absent
<1>7. Placed(m)
  BY <1>1, <1>4, <1>5, <1>6 DEF Placed
<1>8. \A t \in Task : InUse(m, t) = {}
  BY <1>1 DEF InUse
<1>9. \A t \in Task : Orderly(m, t)
  BY <1>4, <1>8 DEF Orderly
<1>10. \A t \in Task : Restorable(m, t, mark[t])
  BY <1>3 DEF Restorable, NoMark
<1> QED BY <1>2, <1>3, <1>7, <1>9, <1>10 DEF ArenaInv, TypeOK, m

\* A running task has an arena: that of its env.
LEMMA RunningHolds ==
  ASSUME ArenaInv, NEW t \in Task, Running(t)
  PROVE  held[t] # <<>> /\ held[t] \in Seq(Chunk)
<1>1. PICK e \in Of(t) : e.use = "env"
  BY DEF Running
<1>2. e \in InUse(Memory, t)
  BY DEF Of, InUse, Memory
<1>3. Holds(Memory, t, e.chunk)
  BY <1>2 DEF ArenaInv, Orderly
<1>4. held[t] \in Seq(Chunk)
  BY InvParts, MemoryParts DEF Memory
<1> QED BY <1>3, <1>4 DEF Holds, Memory

\* What a running task allocates leaves all in order.
LEMMA AllocationKeeps ==
  ASSUME ArenaInv, NEW t \in Task, NEW size \in Size, NEW align \in Nat, align > 0,
         CanAllocate(t, size, align), NoEnvBehind(Memory, t, align),
         Becomes(Memalign(Memory, t, size, align, "data")), UNCHANGED mark
  PROVE  ArenaInv'
<1> DEFINE n == Memalign(Memory, t, size, align, "data")
<1>1. /\ Sound(Memory) /\ Memory \in MemoryType
      /\ mark \in [Task -> Mark] /\ \A u \in Task : Restorable(Memory, u, mark[u])
  BY InvParts
<1>2. size \in Nat
  BY Constants
<1>3. Room(Memory, t, size, align)
  <2>1. held[t] # <<>>
    BY RunningHolds DEF CanAllocate
  <2> QED BY <2>1 DEF CanAllocate, Room, Current, Memory
<1>4. EnvWritable(Memory, t, size, align, "data")
  BY DEF EnvWritable
<1>5. /\ Sound(n)
      /\ \A u \in Task \ {t} : \A s \in Mark : Restorable(Memory, u, s) => Restorable(n, u, s)
      /\ \A s \in Mark : Restorable(Memory, t, s) => Restorable(n, t, s)
  <2>1. "data" \in {"env", "data"}
    OBVIOUS
  <2> HIDE DEF n
  <2>2. n = Memalign(Memory, t, size, align, "data")
    BY DEF n
  <2> QED BY <1>1, <1>2, <1>3, <1>4, <2>1, <2>2, MemalignSound
<1>6. \A u \in Task : Restorable(n, u, mark'[u])
  BY <1>1, <1>5
<1>7. mark' \in [Task -> Mark] /\ Becomes(n)
  BY <1>1
<1> HIDE DEF n
<1> QED BY <1>5, <1>6, <1>7, StepKeeps

LEMMA AllocateKeeps ==
  ASSUME ArenaInv, NEW t \in Task, Allocate(t)
  PROVE  ArenaInv'
<1>1. PICK size \in Size : /\ CanAllocate(t, size, MaxAlign)
                           /\ Becomes(Memalign(Memory, t, size, MaxAlign, "data"))
  BY DEF Allocate, Malloc
<1>2. UNCHANGED mark /\ NoEnvBehind(Memory, t, MaxAlign)
  BY DEF Allocate, NoEnvBehind
<1> QED BY <1>1, <1>2, Constants, AllocationKeeps

LEMMA AllocateAlignedKeeps ==
  ASSUME ArenaInv, NEW t \in Task, AllocateAligned(t)
  PROVE  ArenaInv'
<1>1. PICK size \in Size : /\ CanAllocate(t, size, 1)
                           /\ Becomes(Memalign(Memory, t, size, 1, "data"))
  BY DEF AllocateAligned
<1>2. UNCHANGED mark /\ ~ EnvIsLast(t)
  BY DEF AllocateAligned
<1>3. NoEnvBehind(Memory, t, 1)
  <2> SUFFICES ASSUME NEW e \in InUse(Memory, t), e.use = "env"
               PROVE  Memory.chunk[e.chunk].bump # e.at + EnvAsked
    BY DEF NoEnvBehind
  <2>1. e.size = EnvAsked
    BY DEF ArenaInv, Orderly, EnvPlaced
  <2>2. e \in Of(t) /\ Memory.chunk = chunk
    BY DEF Of, InUse, Memory
  <2> QED BY <1>2, <2>1, <2>2 DEF EnvIsLast
<1>4. 1 \in Nat /\ 1 > 0
  OBVIOUS
<1> QED BY <1>1, <1>2, <1>3, <1>4, AllocationKeeps

LEMMA RestoreKeeps ==
  ASSUME ArenaInv, NEW t \in Task, NEW s, Usable(Memory, t, s),
         Becomes(Restored(Memory, t, s)), mark' = [mark EXCEPT ![t] = NoMark]
  PROVE  ArenaInv'
<1> DEFINE n == Restored(Memory, t, s)
<1>1. /\ Sound(Memory) /\ Memory \in MemoryType
      /\ mark \in [Task -> Mark] /\ \A u \in Task : Restorable(Memory, u, mark[u])
      /\ NoMark \in Mark /\ \A m : \A u \in Task : Restorable(m, u, NoMark)
  BY InvParts
<1>2. Becomes(n) /\ n = Restored(Memory, t, s)
  OBVIOUS
<1> HIDE DEF n
<1>3. /\ Sound(n)
      /\ \A u \in Task \ {t} : \A x : Restorable(Memory, u, x) => Restorable(n, u, x)
  BY <1>1, <1>2, RestoredSound
<1>4. /\ mark' \in [Task -> Mark] /\ mark'[t] = NoMark
      /\ \A u \in Task \ {t} : mark'[u] = mark[u]
  BY <1>1
<1>5. \A u \in Task : Restorable(n, u, mark'[u])
  BY <1>1, <1>3, <1>4
<1> QED BY <1>2, <1>3, <1>4, <1>5, StepKeeps

LEMMA SnapshotKeeps ==
  ASSUME ArenaInv, NEW t \in Task, Snapshot(t)
  PROVE  ArenaInv'
<1> DEFINE c == Head(held[t])
           s == [taken |-> TRUE, kept |-> Of(t), chunk |-> c, at |-> chunk[c].bump]
<1>1. /\ Sound(Memory) /\ Memory \in MemoryType
      /\ mark \in [Task -> Mark] /\ \A u \in Task : Restorable(Memory, u, mark[u])
  BY InvParts
<1>2. held[t] # <<>> /\ held[t] \in Seq(Chunk)
  BY RunningHolds DEF Snapshot
<1>3. c \in Chunk /\ 1 \in DOMAIN held[t] /\ held[t][1] = c
  BY <1>2
<1>4. Memory.held = held /\ Memory.chunk = chunk /\ InUse(Memory, t) = Of(t)
  BY DEF Memory, InUse, Of
<1>5. /\ chunk[c].bump \in Nat /\ Holds(Memory, t, c)
      /\ \A i \in DOMAIN held[t] : 1 <= i
  BY <1>1, <1>2, <1>3, <1>4, MemoryParts DEF Holds
<1>6. Orderly(Memory, t)
  BY DEF ArenaInv
<1>7. s \in Mark
  <2>1. Of(t) \subseteq Allocation
    BY <1>1, MemoryParts DEF Of, Memory
  <2>2. c \in 0 .. MaxChunks
    BY <1>3, Constants DEF Chunk
  <2> QED BY <1>5, <2>1, <2>2 DEF Mark
<1>8. mark' = [mark EXCEPT ![t] = s] /\ UNCHANGED <<chunk, held, free, live>>
  BY <1>2 DEF Snapshot
<1>9. s.taken /\ s.kept = Of(t) /\ s.chunk = c /\ s.at = chunk[c].bump
  OBVIOUS
<1> HIDE DEF s, c
<1>10. RestorableAt(Memory, t, s, 1)
  <2>1. Header <= s.at /\ s.at <= chunk[c].bump
    BY <1>3, <1>4, <1>5, <1>6, <1>9 DEF Orderly
  <2>2. ASSUME NEW a \in s.kept
        PROVE  /\ a \in InUse(Memory, t)
               /\ \E j \in DOMAIN held[t] : 1 <= j /\ held[t][j] = a.chunk
               /\ a.chunk = s.chunk => a.at + a.size <= s.at
    <3>1. a \in InUse(Memory, t) /\ Holds(Memory, t, a.chunk)
      BY <1>4, <1>6, <1>9 DEF Orderly
    <3>2. a.at + a.size <= chunk[a.chunk].bump
      BY <1>4, <1>6, <3>1 DEF Orderly
    <3> QED BY <1>4, <1>5, <1>9, <3>1, <3>2 DEF Holds
  <2>3. \A e \in InUse(Memory, t) : e.use = "env" =>
          e \in s.kept /\ (e.chunk = s.chunk => Clear(e, s.at))
    BY <1>4, <1>6, <1>9 DEF Orderly, EnvPlaced
  <2> QED BY <1>3, <1>4, <1>9, <2>1, <2>2, <2>3 DEF RestorableAt
<1>11. Restorable(Memory, t, s)
  BY <1>3, <1>4, <1>9, <1>10 DEF Restorable
<1>12. /\ mark' \in [Task -> Mark] /\ mark'[t] = s
       /\ \A u \in Task \ {t} : mark'[u] = mark[u]
  BY <1>1, <1>7, <1>8
<1>13. \A u \in Task : Restorable(Memory, u, mark'[u])
  BY <1>1, <1>11, <1>12
<1>14. Becomes(Memory)
  BY <1>8 DEF Becomes, Memory
<1> QED BY <1>1, <1>12, <1>13, <1>14, StepKeeps

\* No chunk is left once the pool is cleaned up.
LEMMA CleanupKeeps ==
  ASSUME ArenaInv, Cleanup
  PROVE  ArenaInv'
<1> DEFINE n == [chunk |-> chunk', held |-> held', free |-> free', live |-> live']
<1>1. /\ Sound(Memory) /\ Memory \in MemoryType
      /\ NoMark \in Mark /\ \A m : \A u \in Task : Restorable(m, u, NoMark)
  BY InvParts
<1>2. /\ n.held = [t \in Task |-> <<>>] /\ n.free = <<>> /\ n.live = {}
      /\ n.chunk = chunk' /\ Becomes(n)
  BY DEF Cleanup, Becomes
<1>3. chunk \in [Chunk -> [size: Nat, bump: Nat]]
  BY <1>1, MemoryParts DEF Memory
<1>4. /\ chunk' \in [Chunk -> [size: Nat, bump: Nat]]
      /\ \A c \in Chunk : \/ chunk'[c] = Absent
                          \/ chunk'[c] = chunk[c] /\ ~ Pooled(Memory, c)
                               /\ \A t \in Task : ~ Holds(Memory, t, c)
  BY <1>3 DEF Cleanup, Absent, Pooled, Holds, Memory
<1>5. ASSUME NEW c \in Chunk PROVE n.chunk[c].size = 0
  <2>1. CASE chunk'[c] = Absent
    BY <1>2, <2>1 DEF Absent
  <2>2. CASE chunk'[c] # Absent
    <3>1. chunk'[c] = chunk[c] /\ Memory.chunk[c].size = 0
      BY <1>1, <1>4, <2>2 DEF Sound, Placed
    <3> QED BY <1>2, <3>1 DEF Memory
  <2> QED BY <2>1, <2>2
<1>6. n \in MemoryType
  <2>1. held' \in [Task -> Seq(Chunk)] /\ free' \in Seq(Chunk) /\ live' \in SUBSET Allocation
    BY DEF Cleanup
  <2> QED BY <1>4, <2>1 DEF MemoryType
<1> HIDE DEF n
<1>7. \A t \in Task : \A c : ~ Holds(n, t, c)
  BY <1>2 DEF Holds
<1>8. \A c : ~ Pooled(n, c)
  BY <1>2 DEF Pooled
<1>9. Placed(n)
  BY <1>2, <1>5, <1>7, <1>8 DEF Placed
<1>10. \A t \in Task : InUse(n, t) = {}
  BY <1>2 DEF InUse
<1>11. \A t \in Task : Orderly(n, t)
  BY <1>7, <1>10 DEF Orderly
<1>12. Sound(n)
  BY <1>6, <1>9, <1>11 DEF Sound
<1>13. mark' \in [Task -> Mark] /\ \A t \in Task : mark'[t] = NoMark
  BY <1>1 DEF Cleanup
<1>14. \A t \in Task : Restorable(n, t, mark'[t])
  BY <1>1, <1>13
<1> QED BY <1>2, <1>12, <1>13, <1>14, StepKeeps

\* A chunk that goes to the pool is large enough for what fits into a page.
LEMMA RoomForPage ==
  ASSUME NEW m, Sound(m), NEW size \in Nat, Header + size <= Page,
         Unused(m) # {} \/ m.free # <<>>
  PROVE  FromPool(m, size) \/ Unused(m) # {}
<1> SUFFICES ASSUME m.free # <<>> PROVE FromPool(m, size)
  OBVIOUS
<1> DEFINE c == Head(m.free)
<1>1. m \in MemoryType /\ m.free \in Seq(Chunk)
  BY MemoryParts DEF Sound
<1>2. 1 \in DOMAIN m.free /\ m.free[1] = c /\ c \in Chunk
  BY <1>1
<1> HIDE DEF c
<1>3. Pooled(m, c)
  BY <1>2 DEF Pooled
<1>4. m.chunk[c].size >= Page
  BY <1>2, <1>3 DEF Sound, Placed
<1>5. ChunkSize(size) = Page
  BY ChunkSizes
<1> QED BY <1>4, <1>5 DEF FromPool, c

\* The first allocation of an arena is at the front of a chunk of at least a page.
AtFront(n, t, size) ==
  /\ n.held[t] # <<>> /\ Current(n, t) \in Chunk
  /\ n.chunk[Current(n, t)].bump = AlignUp(Header, MaxAlign) + size
  /\ n.chunk[Current(n, t)].size \in Nat /\ n.chunk[Current(n, t)].size >= Page

LEMMA FirstAllocation ==
  ASSUME NEW m, Sound(m), NEW t \in Task, m.held[t] = <<>>,
         NEW size \in Nat, AlignUp(Header, MaxAlign) + size <= Page,
         FromPool(m, size) \/ Unused(m) # {},
         NEW n, n = Malloc(m, t, size, "data")
  PROVE  AtFront(n, t, size)
<1> DEFINE p == WithNewChunk(m, t, size)
           at == AlignUp(Header, MaxAlign)
<1>1. n = TakeFrom(p, t, size, MaxAlign, "data")
  BY DEF Malloc, Memalign
<1>2. PICK c \in Chunk : Extended(m, p, t, c, size)
  BY WithNewChunkIs
<1> HIDE DEF p
<1>3. Sound(p) /\ p \in MemoryType
  BY <1>2, ExtendedSound DEF Sound
<1>4. p.held[t] # <<>> /\ Current(p, t) = c
  BY <1>2, ExtendedHolds
<1>5. p.chunk[c].bump = Header /\ p.chunk[c].size >= Page /\ p.chunk[c].size \in Nat
  <2>1. p.chunk[c].bump = Header /\ p.chunk[c].size >= ChunkSize(size) /\ p.chunk[c].size \in Nat
    BY <1>2, <1>3, MemoryParts DEF Extended
  <2>2. ChunkSize(size) \in Nat /\ ChunkSize(size) >= Page
    BY ChunkSizes
  <2> QED BY <2>1, <2>2, Constants
<1>6. at \in Nat /\ at >= Header
  BY Constants, AlignUpLeast
<1>7. Spot(p, t, MaxAlign) = at
  BY <1>4, <1>5 DEF Spot
<1>8. FitsIn(p.chunk[Current(p, t)], size, MaxAlign)
  <2> DEFINE k == p.chunk[c]
  <2>1. k.size - Header >= size /\ AlignUp(k.bump, MaxAlign) + size <= k.size
    BY <1>5, <1>6, Constants
  <2> QED BY <1>4, <2>1 DEF FitsIn
<1> HIDE DEF at
<1>9. n \in MemoryType /\ n.held = p.held
  BY <1>1, <1>3, <1>4, Constants, TakeFromIs
<1>10. TakenFrom(p, n, t, size, MaxAlign, "data")
  BY <1>1, <1>3, <1>4, <1>8, Constants, TakeFromIs
<1>11. Current(n, t) = c
  BY <1>4, <1>9 DEF Current
<1>12. n.chunk[c].bump = at + size /\ n.chunk[c].size = p.chunk[c].size
  BY <1>4, <1>7, <1>10 DEF TakenFrom
<1> QED BY <1>4, <1>5, <1>9, <1>11, <1>12 DEF AtFront, at

\* The argument's copy and the env are put into an arena that was given back.
LEMMA BeginSound ==
  ASSUME NEW m, Sound(m), NEW t \in Task, m.held[t] = <<>>, NEW size \in ArgSize,
         Unused(m) # {} \/ m.free # <<>>,
         NEW p, p = (IF size = 0 THEN m ELSE Malloc(m, t, size, "data")),
         NEW n, n = Malloc(p, t, EnvAsked, "env")
  PROVE  /\ Sound(n)
         /\ \A u \in Task \ {t} : \A s \in Mark : Restorable(m, u, s) => Restorable(n, u, s)
<1> DEFINE at == AlignUp(Header, MaxAlign)
           bump == IF size = 0 THEN Header ELSE at + size
<1>1. size \in Nat /\ EnvAsked \in Nat /\ MaxAlign \in Nat /\ MaxAlign > 0
  BY Constants
<1>2. /\ at \in Nat /\ at >= Header /\ at + size <= Page
      /\ AlignUp(bump, MaxAlign) + EnvWords <= Page
  <2>1. size \in ArgSize \cup {0}
    OBVIOUS
  <2>2. at >= Header
    BY Constants, AlignUpLeast
  <2> QED BY <2>1, <2>2, EnvFits
<1>3. at + EnvWords <= Page
  <2>1. 0 \in ArgSize \cup {0}
    OBVIOUS
  <2> QED BY <2>1, EnvFits
<1>4. EnvAsked <= EnvWords
  BY EnvAssumption
<1>5. n = Memalign(p, t, EnvAsked, MaxAlign, "env") /\ "env" \in {"env", "data"}
  BY DEF Malloc
<1>6. CASE size = 0
  <2>1. p = m
    BY <1>6
  <2>2. FromPool(m, EnvAsked) \/ Unused(m) # {}
    <3>1. Header + EnvAsked <= Page
      BY <1>2, <1>3, <1>4, Constants
    <3> QED BY <1>1, <3>1, RoomForPage
  <2>3. Room(m, t, EnvAsked, MaxAlign)
    BY <2>2 DEF Room
  <2>4. EnvWritable(m, t, EnvAsked, MaxAlign, "env")
    BY DEF EnvWritable
  <2> QED BY <1>1, <1>5, <2>1, <2>3, <2>4, MemalignSound
<1>7. CASE size # 0
  <2>1. p = Malloc(m, t, size, "data") /\ p = Memalign(m, t, size, MaxAlign, "data")
    BY <1>7 DEF Malloc
  <2>2. FromPool(m, size) \/ Unused(m) # {}
    <3>1. Header + size <= Page
      BY <1>1, <1>2, Constants
    <3> QED BY <1>1, <3>1, RoomForPage
  <2>3. Room(m, t, size, MaxAlign) /\ EnvWritable(m, t, size, MaxAlign, "data")
    BY <2>2 DEF Room, EnvWritable
  <2>4. /\ Sound(p)
        /\ \A u \in Task \ {t} : \A s \in Mark : Restorable(m, u, s) => Restorable(p, u, s)
    <3>1. "data" \in {"env", "data"}
      OBVIOUS
    <3> QED BY <1>1, <2>1, <2>3, <3>1, MemalignSound
  <2>5. AtFront(p, t, size)
    BY <1>1, <1>2, <2>1, <2>2, FirstAllocation
  <2> DEFINE c == Current(p, t)
  <2>6. Spot(p, t, MaxAlign) = AlignUp(bump, MaxAlign)
    BY <1>7, <2>5 DEF Spot, AtFront
  <2>7. AlignUp(bump, MaxAlign) \in Nat /\ AlignUp(bump, MaxAlign) >= bump
    <3>1. bump \in Nat
      BY <1>1, <1>2, <1>7
    <3> HIDE DEF bump
    <3> QED BY <1>1, <3>1, AlignUpLeast
  <2>8. p.held[t] # <<>> /\ p.chunk[c].size \in Nat /\ p.chunk[c].size >= Page
    BY <2>5 DEF AtFront
  <2>9. bump \in Nat /\ bump >= Header
    BY <1>1, <1>2, <1>7, Constants
  <2> HIDE DEF bump, c
  <2>10. Spot(p, t, MaxAlign) + EnvWords <= p.chunk[c].size
    BY <1>2, <2>6, <2>7, <2>8, Constants
  <2>11. FitsIn(p.chunk[c], EnvAsked, MaxAlign)
    <3>0. Header + EnvAsked <= Page
      BY <1>2, <1>3, <1>4, Constants
    <3>1. p.chunk[c].size - Header >= EnvAsked
      BY <2>8, <3>0, Constants
    <3>2. Spot(p, t, MaxAlign) = AlignUp(p.chunk[c].bump, MaxAlign)
      BY DEF Spot, c
    <3>3. AlignUp(p.chunk[c].bump, MaxAlign) + EnvAsked <= p.chunk[c].size
      BY SMTT(30), <1>2, <1>4, <2>6, <2>7, <2>8, <3>2, Constants
    <3> QED BY <3>1, <3>3 DEF FitsIn
  <2>12. Room(p, t, EnvAsked, MaxAlign)
    BY <2>8, <2>11 DEF Room, c
  <2>13. EnvWritable(p, t, EnvAsked, MaxAlign, "env")
    BY <2>10 DEF EnvWritable, EnvRoom, c
  <2>14. NoEnvBehind(p, t, MaxAlign)
    BY DEF NoEnvBehind
  <2>15. /\ Sound(n)
         /\ \A u \in Task \ {t} : \A s \in Mark : Restorable(p, u, s) => Restorable(n, u, s)
    BY <1>1, <1>5, <2>4, <2>12, <2>13, <2>14, MemalignSound
  <2> QED BY <2>4, <2>15
<1> QED BY <1>6, <1>7

LEMMA BeginKeeps ==
  ASSUME ArenaInv, NEW t \in Task, Begin(t)
  PROVE  ArenaInv'
<1> DEFINE clean == Reset(Memory, t)
           WithArg(size) == IF size = 0 THEN clean ELSE Malloc(clean, t, size, "data")
<1>1. PICK size \in ArgSize :
        /\ Unused(clean) # {} \/ clean.free # <<>>
        /\ Becomes(Malloc(WithArg(size), t, EnvAsked, "env"))
        /\ mark' = [mark EXCEPT ![t] = NoMark]
  BY DEF Begin
<1> DEFINE p == WithArg(size)
           n == Malloc(p, t, EnvAsked, "env")
<1>2. /\ Sound(Memory) /\ Memory \in MemoryType
      /\ mark \in [Task -> Mark] /\ \A u \in Task : Restorable(Memory, u, mark[u])
      /\ NoMark \in Mark /\ \A m : \A u \in Task : Restorable(m, u, NoMark)
  BY InvParts
<1>3. clean = Restored(Memory, t, NoMark) /\ Usable(Memory, t, NoMark)
  BY DEF Reset, Usable
<1>4. p = (IF size = 0 THEN clean ELSE Malloc(clean, t, size, "data"))
  OBVIOUS
<1>5. n = Malloc(p, t, EnvAsked, "env") /\ Becomes(n)
  BY <1>1
<1> HIDE DEF clean, p, n, WithArg
<1>6. /\ Sound(clean) /\ clean.held[t] = <<>>
      /\ \A u \in Task \ {t} : \A x : Restorable(Memory, u, x) => Restorable(clean, u, x)
  BY <1>2, <1>3, RestoredSound
<1>7. /\ Sound(n)
      /\ \A u \in Task \ {t} : \A s \in Mark : Restorable(clean, u, s) => Restorable(n, u, s)
  BY <1>1, <1>4, <1>5, <1>6, BeginSound
<1>8. /\ mark' \in [Task -> Mark] /\ mark'[t] = NoMark
      /\ \A u \in Task \ {t} : mark'[u] = mark[u]
  BY <1>1, <1>2
<1>9. \A u \in Task : Restorable(n, u, mark'[u])
  BY <1>2, <1>6, <1>7, <1>8
<1> QED BY <1>5, <1>7, <1>8, <1>9, StepKeeps

LEMMA NextKeeps ==
  ASSUME ArenaInv, [Next]_vars
  PROVE  ArenaInv'
<1>1. CASE Cleanup
  BY <1>1, CleanupKeeps
<1>2. ASSUME NEW t \in Task, Begin(t) PROVE ArenaInv'
  BY <1>2, BeginKeeps
<1>3. ASSUME NEW t \in Task, Allocate(t) PROVE ArenaInv'
  BY <1>3, AllocateKeeps
<1>4. ASSUME NEW t \in Task, AllocateAligned(t) PROVE ArenaInv'
  BY <1>4, AllocateAlignedKeeps
<1>5. ASSUME NEW t \in Task, Snapshot(t) PROVE ArenaInv'
  BY <1>5, SnapshotKeeps
<1>6. ASSUME NEW t \in Task, Restore(t) PROVE ArenaInv'
  <2>1. mark[t] \in Mark /\ Restorable(Memory, t, mark[t])
    BY InvParts
  <2>2. Usable(Memory, t, mark[t])
    BY <1>6, <2>1 DEF Restore, Usable
  <2> QED BY <1>6, <2>2, RestoreKeeps DEF Restore
<1>7. ASSUME NEW t \in Task, End(t) PROVE ArenaInv'
  <2>1. Usable(Memory, t, NoMark)
    BY DEF Usable
  <2> QED BY <1>7, <2>1, RestoreKeeps DEF End, Reset
<1>8. CASE UNCHANGED vars
  <2>1. Memory' = Memory /\ mark' = mark
    BY <1>8 DEF vars, Memory
  <2> QED BY <2>1 DEF ArenaInv, TypeOK
<1> QED BY <1>1, <1>2, <1>3, <1>4, <1>5, <1>6, <1>7, <1>8 DEF Next

\* The inductive invariant.
THEOREM ArenaStands == Spec => []ArenaInv
<1>1. Init => ArenaInv
  BY InitKeeps
<1>2. ArenaInv /\ [Next]_vars => ArenaInv'
  BY NextKeeps
<1> QED BY <1>1, <1>2, PTL DEF Spec

-----------------------------------------------------------------------------
(* What the runs check.                                                    *)

\* A task is alone in its chunks.
LEMMA OneTask ==
  ASSUME ArenaInv, NEW t \in Task, NEW u \in Task, NEW c,
         Holds(Memory, t, c), Holds(Memory, u, c)
  PROVE  t = u
<1>1. c \in Chunk
  BY InvParts, MemoryParts
<1> QED BY <1>1 DEF ArenaInv, Placed

\* What was given out is the memory of one task.
LEMMA LiveParts ==
  ASSUME ArenaInv, NEW a \in live
  PROVE  /\ a.task \in Task /\ a.chunk \in Chunk /\ a \in InUse(Memory, a.task)
         /\ Holds(Memory, a.task, a.chunk) /\ Orderly(Memory, a.task)
<1>1. a.task \in Task /\ a.chunk \in Chunk
  BY InvParts, MemoryParts DEF Memory
<1>2. a \in InUse(Memory, a.task)
  BY DEF InUse, Memory
<1>3. Orderly(Memory, a.task)
  BY <1>1 DEF ArenaInv
<1> QED BY <1>1, <1>2, <1>3 DEF Orderly

\* A task was given what lies in its own arena, between the header and the free
\* part of a chunk, and no word of it was given out twice (barena_memalign,
\* barena_restore, barena_reset).
THEOREM ArenaLiveDisjoint == Spec => []LiveDisjoint
<1>1. ArenaInv => LiveDisjoint
  <2> SUFFICES ASSUME ArenaInv PROVE LiveDisjoint
    OBVIOUS
  <2>1. ASSUME NEW a \in live
        PROVE  /\ \E i \in DOMAIN held[a.task] : held[a.task][i] = a.chunk
               /\ Header <= a.at /\ a.at + a.size <= chunk[a.chunk].bump
               /\ chunk[a.chunk].bump <= chunk[a.chunk].size
    BY LiveParts DEF Orderly, Holds, Memory
  <2>2. ASSUME NEW a \in live, NEW b \in live, a # b, a.chunk = b.chunk
        PROVE  ~ Overlap(a, b.at, b.size)
    <3>1. a.task = b.task
      BY <2>2, LiveParts, OneTask
    <3>2. a \in InUse(Memory, a.task) /\ b \in InUse(Memory, a.task) /\ Orderly(Memory, a.task)
      BY <3>1, LiveParts
    <3>3. Apart(a, b)
      BY <2>2, <3>2 DEF Orderly
    <3> QED BY <3>3 DEF Apart
  <2> QED BY <2>1, <2>2 DEF LiveDisjoint
<1> QED BY <1>1, ArenaStands, PTL

\* The env that snet_task_begin asks for with the size of a size_t is written
\* inside its chunk, and no allocation of any task overlaps what is read of it.
THEOREM ArenaEnvIntact == Spec => []EnvIntact
<1>1. ArenaInv => EnvIntact
  <2> SUFFICES ASSUME ArenaInv, NEW e \in live, e.use = "env"
               PROVE  /\ e.at + EnvWords <= chunk[e.chunk].size
                      /\ \A a \in live \ {e} : a.chunk = e.chunk => ~ Overlap(a, e.at, EnvKept)
    BY DEF EnvIntact
  <2>1. EnvPlaced(Memory, e.task, e)
    BY LiveParts DEF Orderly
  <2>2. ASSUME NEW a \in live \ {e}, a.chunk = e.chunk
        PROVE  ~ Overlap(a, e.at, EnvKept)
    <3>1. a.task = e.task
      BY <2>2, LiveParts, OneTask
    <3>2. a \in InUse(Memory, e.task) \ {e}
      BY <3>1, LiveParts
    <3> QED BY <2>1, <2>2, <3>2 DEF EnvPlaced
  <2> QED BY <2>1, <2>2 DEF EnvPlaced, Memory
<1> QED BY <1>1, ArenaStands, PTL

\* An arena holds no more chunks than there are.
LEMMA FewChunks ==
  ASSUME ArenaInv, NEW t \in Task, NEW i \in DOMAIN held[t]
  PROVE  i \in Chunk
<1> DEFINE q == held[t]
<1>1. q \in Seq(Chunk)
  BY InvParts, MemoryParts DEF Memory
<1>2. \A k \in DOMAIN q : \A j \in DOMAIN q : q[k] = q[j] => k = j
  BY DEF ArenaInv, Placed, Memory
<1> HIDE DEF q
<1>3. Len(q) \in Nat /\ DOMAIN q = 1 .. Len(q) /\ q \in [1 .. Len(q) -> Chunk]
  BY <1>1
<1>4. q \in Injection(1 .. Len(q), Chunk)
  BY <1>2, <1>3 DEF Injection, IsInjective
<1>5. IsFiniteSet(Chunk) /\ Cardinality(Chunk) = MaxChunks
  BY Constants, FS_Interval DEF Chunk
<1>6. Cardinality(1 .. Len(q)) <= MaxChunks
  BY <1>4, <1>5, FS_Injection
<1>7. Cardinality(1 .. Len(q)) = Len(q)
  BY <1>3, FS_Interval
<1>8. Len(q) <= MaxChunks
  BY <1>6, <1>7
<1>9. i \in 1 .. Len(q)
  BY <1>3 DEF q
<1> QED BY <1>3, <1>8, <1>9, Constants DEF Chunk

\* A chunk is in one arena or in the pool, once, and none is lost, so that
\* barena_pool_cleanup frees them all.
THEOREM ArenaChunkOwnedOnce == Spec => []ChunkOwnedOnce
<1>1. ArenaInv => ChunkOwnedOnce
  <2> SUFFICES ASSUME ArenaInv, NEW c \in Chunk
               PROVE  Cardinality({p \in Task \X Chunk :
                                     p[2] \in DOMAIN held[p[1]] /\ held[p[1]][p[2]] = c})
                        + Cardinality({i \in DOMAIN free : free[i] = c})
                        = (IF chunk[c].size = 0 THEN 0 ELSE 1)
    BY DEF ChunkOwnedOnce
  <2> DEFINE owners == {p \in Task \X Chunk :
                          p[2] \in DOMAIN held[p[1]] /\ held[p[1]][p[2]] = c}
             pooled == {i \in DOMAIN free : free[i] = c}
  <2>1. /\ \A t, u \in Task : Holds(Memory, t, c) /\ Holds(Memory, u, c) => t = u
        /\ \A t \in Task : ~ (Holds(Memory, t, c) /\ Pooled(Memory, c))
        /\ chunk[c].size # 0 <=> Pooled(Memory, c) \/ \E t \in Task : Holds(Memory, t, c)
    BY DEF ArenaInv, Placed, Memory
  <2>2. ~ Pooled(Memory, c) => pooled = {}
    BY DEF Pooled, Memory
  <2>3. Pooled(Memory, c) => \E i : pooled = {i}
    <3> SUFFICES ASSUME Pooled(Memory, c) PROVE \E i : pooled = {i}
      OBVIOUS
    <3>1. PICK i \in DOMAIN free : free[i] = c
      BY DEF Pooled, Memory
    <3>2. \A j \in DOMAIN free : free[j] = c => j = i
      BY <3>1 DEF ArenaInv, Placed, Memory
    <3>3. pooled = {i}
      BY <3>1, <3>2
    <3> QED BY <3>3
  <2>4. (\A t \in Task : ~ Holds(Memory, t, c)) => owners = {}
    <3> SUFFICES ASSUME \A t \in Task : ~ Holds(Memory, t, c), NEW p \in owners PROVE FALSE
      OBVIOUS
    <3>1. p[1] \in Task /\ p[2] \in DOMAIN held[p[1]] /\ held[p[1]][p[2]] = c
      OBVIOUS
    <3> QED BY <3>1 DEF Holds, Memory
  <2>5. (\E t \in Task : Holds(Memory, t, c)) => \E p : owners = {p}
    <3> SUFFICES ASSUME NEW t \in Task, Holds(Memory, t, c) PROVE \E p : owners = {p}
      OBVIOUS
    <3>1. PICK i \in DOMAIN held[t] : held[t][i] = c
      BY DEF Holds, Memory
    <3>2. i \in Chunk
      BY FewChunks
    <3>3. <<t, i>> \in owners
      BY <3>1, <3>2
    <3>4. ASSUME NEW p \in owners PROVE p = <<t, i>>
      <4>1. /\ p \in Task \X Chunk /\ p[1] \in Task /\ p[2] \in DOMAIN held[p[1]]
            /\ held[p[1]][p[2]] = c
        OBVIOUS
      <4>2. Holds(Memory, p[1], c)
        BY <4>1 DEF Holds, Memory
      <4>3. p[1] = t
        BY <2>1, <4>1, <4>2
      <4>4. p[2] = i
        BY <3>1, <4>1, <4>3 DEF ArenaInv, Placed, Memory
      <4> QED BY <4>1, <4>3, <4>4
    <3> HIDE DEF owners
    <3>5. owners = {<<t, i>>}
      BY <3>3, <3>4
    <3> QED BY <3>5
  <2> HIDE DEF owners, pooled
  <2>6. Cardinality({}) = 0 /\ \A x : Cardinality({x}) = 1
    BY FS_EmptySet, FS_Singleton
  <2>7. Cardinality(owners) + Cardinality(pooled) = (IF chunk[c].size = 0 THEN 0 ELSE 1)
    <3>1. CASE Pooled(Memory, c)
      <4>1. Cardinality(owners) = 0 /\ Cardinality(pooled) = 1 /\ chunk[c].size # 0
        BY <2>1, <2>3, <2>4, <2>6, <3>1
      <4> QED BY <4>1
    <3>2. CASE ~ Pooled(Memory, c) /\ \E t \in Task : Holds(Memory, t, c)
      <4>1. Cardinality(owners) = 1 /\ Cardinality(pooled) = 0 /\ chunk[c].size # 0
        BY <2>1, <2>2, <2>5, <2>6, <3>2
      <4> QED BY <4>1
    <3>3. CASE ~ Pooled(Memory, c) /\ \A t \in Task : ~ Holds(Memory, t, c)
      <4>1. Cardinality(owners) = 0 /\ Cardinality(pooled) = 0 /\ chunk[c].size = 0
        BY <2>1, <2>2, <2>4, <2>6, <3>3
      <4> QED BY <4>1
    <3> QED BY <3>1, <3>2, <3>3
  <2> QED BY <2>7 DEF owners, pooled
<1> QED BY <1>1, ArenaStands, PTL
=============================================================================
