-------------------------------- MODULE Arena --------------------------------
(***************************************************************************)
(* The memory of slopnet's tasks (barena.h and its use in slopnet.c).      *)
(* Every task has an arena, a list of chunks of which the first is filled  *)
(* from the front; all arenas share one pool of chunks that were given     *)
(* back.  Sizes and places are counted in words of a pointer's size, and a *)
(* chunk starts with the words of its header.  "live" is what the callers  *)
(* hold, which the code does not know: it is what they were given and have *)
(* not given back by resetting an arena or restoring a snapshot of it.     *)
(***************************************************************************)
EXTENDS Integers, Sequences, FiniteSets

CONSTANTS Task,      \* the tasks, each with its arena
          Page,      \* words of a page, and of a chunk of the pool
          Header,    \* words of a chunk's header
          MaxAlign,  \* alignment of barena_malloc
          EnvAsked,  \* words snet_task_begin asks for its env
          EnvWords,  \* words it writes there
          EnvKept,   \* words of the env that are read while the task runs
          ArgSize,   \* sizes of arguments
          Size,      \* sizes of allocations
          MaxChunks, \* bound on chunks in existence
          MaxLive    \* bound on the allocations of a task

ASSUME ArenaAssumption ==
  /\ {Page, Header, MaxAlign, EnvAsked, EnvWords, EnvKept, MaxChunks, MaxLive}
       \subseteq Nat \ {0}
  /\ ArgSize \subseteq Nat /\ Size \subseteq Nat \ {0}
  /\ Page % MaxAlign = 0 /\ Header < Page

VARIABLES chunk,  \* chunk[c]: size of the chunk and where its free part begins
          held,   \* held[t]: the chunks of the task's arena, current one first
          free,   \* the pool's free chunks
          mark,   \* mark[t]: a snapshot of the arena, and what was live then
          live    \* the allocations in use

vars == <<chunk, held, free, mark, live>>

Chunk == 1 .. MaxChunks

Absent == [size |-> 0, bump |-> 0]

NoMark == [taken |-> FALSE, chunk |-> 0, at |-> 0, kept |-> {}]

Of(t) == {a \in live : a.task = t}

Memory == [chunk |-> chunk, held |-> held, free |-> free, live |-> live]

Becomes(m) ==
  chunk' = m.chunk /\ held' = m.held /\ free' = m.free /\ live' = m.live

Init ==
  /\ chunk = [c \in Chunk |-> Absent]
  /\ held = [t \in Task |-> <<>>]
  /\ free = <<>>
  /\ mark = [t \in Task |-> NoMark]
  /\ live = {}

AlignUp(n, unit) == ((n + unit - 1) \div unit) * unit

\* A task's argument and its env, written whole, fit into one page, and what
\* is read of the env into the words that the alignment leaves to it.
ASSUME EnvAssumption ==
  /\ EnvAsked <= EnvWords /\ EnvKept <= AlignUp(EnvAsked, MaxAlign)
  /\ \A size \in ArgSize \cup {0} :
       AlignUp(AlignUp(Header, MaxAlign) + size, MaxAlign) + EnvWords <= Page

\* Mutant of FitsIn: the gap left for the alignment is not counted.
FitsInTight(k, size, align) == k.size - Header >= size /\ k.bump + size <= k.size

FitsIn(k, size, align) ==
  k.size - Header >= size /\ AlignUp(k.bump, align) + size <= k.size

\* barena_alloc_from_chunk on the current chunk; nothing where it is too small.
TakeFrom(m, t, size, align, use) ==
  LET c  == Head(m.held[t])
      at == AlignUp(m.chunk[c].bump, align)
  IN  IF FitsIn(m.chunk[c], size, align)
      THEN [m EXCEPT !.chunk[c].bump = at + size,
                     !.live = @ \cup {[task |-> t, chunk |-> c, at |-> at,
                                       size |-> size, use |-> use]}]
      ELSE m

\* A chunk of a page or, for what does not fit into one, of several.
ChunkSize(size) ==
  LET required == AlignUp(Header + size, Page)
  IN  IF Page >= required THEN Page ELSE required

FromPool(m, size) == m.free # <<>> /\ m.chunk[Head(m.free)].size >= ChunkSize(size)

Unused(m) == {c \in Chunk : m.chunk[c].size = 0}

\* The arena's new current chunk: the pool's first, if that is large enough,
\* otherwise one from the system.
WithNewChunk(m, t, size) ==
  LET c == IF FromPool(m, size) THEN Head(m.free)
           ELSE CHOOSE k \in Unused(m) : \A other \in Unused(m) : k <= other
  IN  [m EXCEPT !.chunk[c] = [size |-> IF FromPool(m, size) THEN @.size
                                       ELSE ChunkSize(size),
                              bump |-> Header],
                !.free = IF FromPool(m, size) THEN Tail(@) ELSE @,
                !.held[t] = <<c>> \o @]

Memalign(m, t, size, align, use) ==
  IF m.held[t] # <<>> /\ FitsIn(m.chunk[Head(m.held[t])], size, align)
  THEN TakeFrom(m, t, size, align, use)
  ELSE TakeFrom(WithNewChunk(m, t, size), t, size, align, use)

\* Mutant of Malloc: aligned to a word only.
MallocByWord(m, t, size, use) == Memalign(m, t, size, 1, use)

Malloc(m, t, size, use) == Memalign(m, t, size, MaxAlign, use)

\* The chunks above the one a snapshot points into; all for the NULL one.
Above(m, t, s) ==
  {i \in DOMAIN m.held[t] :
     \A j \in 1 .. i : ~ (s.chunk = m.held[t][j] /\ Header <= s.at
                            /\ s.at <= m.chunk[m.held[t][j]].size)}

\* Mutant of Restored: only the first of the chunks is given back.
RestoredOne(m, t, s) ==
  LET n == Cardinality(Above(m, t, s))
  IN  [m EXCEPT !.held[t] = SubSeq(@, n + 1, Len(@)),
                !.free = IF n = 0 THEN @ ELSE <<m.held[t][1]>> \o @,
                !.chunk = IF s.chunk = 0 THEN @ ELSE [@ EXCEPT ![s.chunk].bump = s.at],
                !.live = (@ \ {a \in @ : a.task = t}) \cup s.kept]

\* Those chunks go to the pool, the last of them to its front, and the chunk
\* the snapshot points into is filled from there again.
Restored(m, t, s) ==
  LET n == Cardinality(Above(m, t, s))
  IN  [m EXCEPT !.held[t] = SubSeq(@, n + 1, Len(@)),
                !.free = [i \in 1 .. n |-> m.held[t][n + 1 - i]] \o @,
                !.chunk = IF s.chunk = 0 THEN @ ELSE [@ EXCEPT ![s.chunk].bump = s.at],
                !.live = (@ \ {a \in @ : a.task = t}) \cup s.kept]

Reset(m, t) == Restored(m, t, NoMark)

-----------------------------------------------------------------------------

Running(t) == \E a \in Of(t) : a.use = "env"

\* A running task allocates, within the bounds: no more than MaxLive at a
\* time, and no chunk beyond MaxChunks.
CanAllocate(t, size, align) ==
  /\ Running(t) /\ Cardinality(Of(t)) < MaxLive
  /\ \/ FitsIn(chunk[Head(held[t])], size, align)
     \/ FromPool(Memory, size) \/ Unused(Memory) # {}

\* A task is begun: whatever the one before it allocated is given back, and
\* the copy of the argument and the env come first in the arena.
Begin(t) ==
  \E size \in ArgSize :
    LET clean   == Reset(Memory, t)
        withArg == IF size = 0 THEN clean ELSE Malloc(clean, t, size, "data")
    IN  /\ Unused(clean) # {} \/ clean.free # <<>>
        /\ Becomes(Malloc(withArg, t, EnvAsked, "env"))
        /\ mark' = [mark EXCEPT ![t] = NoMark]

Allocate(t) ==
  /\ \E size \in Size : /\ CanAllocate(t, size, MaxAlign)
                        /\ Becomes(Malloc(Memory, t, size, "data"))
  /\ UNCHANGED mark

EnvIsLast(t) == \E a \in Of(t) : a.use = "env" /\ chunk[a.chunk].bump = a.at + a.size

\* The login page's memory is aligned as its caller asks; a task's first
\* allocation comes from barena_malloc.
AllocateAligned(t) ==
  /\ ~ EnvIsLast(t)
  /\ \E size \in Size : /\ CanAllocate(t, size, 1)
                        /\ Becomes(Memalign(Memory, t, size, 1, "data"))
  /\ UNCHANGED mark

Snapshot(t) ==
  /\ Running(t)
  /\ mark' = [mark EXCEPT ![t] =
       [taken |-> TRUE, kept |-> Of(t),
        chunk |-> IF held[t] = <<>> THEN 0 ELSE Head(held[t]),
        at    |-> IF held[t] = <<>> THEN 0 ELSE chunk[Head(held[t])].bump]]
  /\ UNCHANGED <<chunk, held, free, live>>

Restore(t) ==
  /\ mark[t].taken
  /\ Becomes(Restored(Memory, t, mark[t]))
  /\ mark' = [mark EXCEPT ![t] = NoMark]

End(t) ==
  /\ Becomes(Reset(Memory, t))
  /\ mark' = [mark EXCEPT ![t] = NoMark]

\* The session ends: every arena is reset, which leaves all their chunks to
\* the pool, and the pool's chunks go back to the system.
Cleanup ==
  LET pooled == {c \in Chunk : \/ \E i \in DOMAIN free : free[i] = c
                              \/ \E t \in Task : \E i \in DOMAIN held[t] : held[t][i] = c}
  IN  /\ chunk' = [c \in Chunk |-> IF c \in pooled THEN Absent ELSE chunk[c]]
      /\ held' = [t \in Task |-> <<>>]
      /\ free' = <<>>
      /\ mark' = [t \in Task |-> NoMark]
      /\ live' = {}

Next ==
  \/ Cleanup
  \/ \E t \in Task : \/ Begin(t) \/ Allocate(t) \/ AllocateAligned(t)
                     \/ Snapshot(t) \/ Restore(t) \/ End(t)

Spec == Init /\ [][Next]_vars

-----------------------------------------------------------------------------

Overlap(a, at, size) == a.at < at + size /\ at < a.at + a.size

\* What a task was given and still holds lies in a chunk of its own arena,
\* between the chunk's header and the part still free, and no two
\* allocations share a word, however chunks went through the pool and back
\* (barena_memalign, barena_restore).
LiveDisjoint ==
  /\ \A a \in live : /\ \E i \in DOMAIN held[a.task] : held[a.task][i] = a.chunk
                     /\ Header <= a.at /\ a.at + a.size <= chunk[a.chunk].bump
                     /\ chunk[a.chunk].bump <= chunk[a.chunk].size
  /\ \A a, b \in live : a # b /\ a.chunk = b.chunk => ~ Overlap(a, b.at, b.size)

\* A chunk is in one place only, an arena or the pool, and none is lost, so
\* that cleaning the pool up frees them all (barena_restore,
\* barena_pool_cleanup).
ChunkOwnedOnce ==
  \A c \in Chunk :
    LET owners == {p \in Task \X Chunk :
                     p[2] \in DOMAIN held[p[1]] /\ held[p[1]][p[2]] = c}
        pooled == {i \in DOMAIN free : free[i] = c}
    IN  Cardinality(owners) + Cardinality(pooled)
          = (IF chunk[c].size = 0 THEN 0 ELSE 1)

\* The env is allocated with the size of a size_t and written whole: what
\* is written stays inside the chunk, and no later allocation of the task
\* overlaps the fields read while it runs (snet_task_begin).
EnvIntact ==
  \A e \in live : e.use = "env" =>
    /\ e.at + EnvWords <= chunk[e.chunk].size
    /\ \A a \in live \ {e} : a.chunk = e.chunk => ~ Overlap(a, e.at, EnvKept)
=============================================================================
