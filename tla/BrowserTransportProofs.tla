----------------------- MODULE BrowserTransportProofs -----------------------
(***************************************************************************)
(* The browser's transport never writes to memory that was freed, no two   *)
(* datagrams share a buffer, what it says of its state is so, and messages *)
(* are handed over in order, for any number of transports, addresses,      *)
(* datagrams and writes under way.                                         *)
(***************************************************************************)
EXTENDS BrowserTransport, FiniteSetTheorems, SequenceTheorems, TLAPS

Buffer == Nat \ {0}

Context == [memory: {"unused", "live", "freed"}, queue: Seq(Nat), next: Nat,
            last: Nat, processed: Nat, handed: Nat]

Script == [state: {0, 1, 2}, handle: BOOLEAN, urls: Nat, closable: BOOLEAN,
           timer: BOOLEAN, reading: Nat,
           place: {"none", "connecting", "throwing", "reading", "cancelling",
                   "ending", "done"},
           session: {"none", "connecting", "open", "closing", "closed"}]

\* Jobs that an event of the browser leaves, which are alone.
Event == {"ready", "failed", "value", "sent", "sendFailed"}

Write == [of: Transport, buffer: Buffer]

JobType == [of: Transport, buffer: Nat,
            kind: Event \cup {"finally", "readFailed", "closed"}]

TypeOK ==
  /\ c \in [Transport -> Context]
  /\ js \in [Transport -> Script]
  /\ jobs \subseteq JobType
  /\ pool \in Seq(Buffer)
  /\ writes \subseteq Write /\ IsFiniteSet(writes)

\* What a job that is ready says of its transport.
JobHolds(j) ==
  /\ j.kind \in Event => jobs = {j}
  /\ j.kind \in {"ready", "failed"} =>
       js[j.of].place = "connecting" /\ js[j.of].session # "connecting"
  /\ j.kind = "value" => js[j.of].reading = j.buffer /\ j.buffer # None
  /\ j.kind \in {"sent", "sendFailed"} => [of |-> j.of, buffer |-> j.buffer] \in writes
  /\ j.kind = "finally" =>
       j = Job(j.of, "finally", None) /\ js[j.of].place \in {"ending", "throwing"}
  /\ j.kind = "readFailed" =>
       j = Job(j.of, "readFailed", None) /\ js[j.of].place = "reading"

JobsHold == \A j \in jobs : JobHolds(j)

\* A read is under way only while the loop reads, and only in a transport that
\* close() works on; one that was freed as it read is about to end its read.
PlaceHolds(t) ==
  /\ js[t].reading # None => js[t].place = "reading"
  /\ js[t].place = "reading" => js[t].closable
  /\ js[t].session = "connecting" => js[t].place = "connecting"
  /\ c[t].memory = "unused" => js[t].place = "none"
  /\ c[t].memory = "freed" /\ t \notin early =>
       /\ js[t].place # "connecting"
       /\ js[t].reading # None => Job(t, "readFailed", None) \in jobs

PlacesHold == \A t \in Transport : PlaceHolds(t)

IInv == TypeOK /\ JobsHold /\ PlacesHold /\ NoUseAfterFree /\ BufferUnshared

-----------------------------------------------------------------------------
\* What the helpers return.

\* The next address, or the end: no read is begun, and only a transport that
\* is connecting has a session that is.
LEMMA TriesReturns ==
  ASSUME NEW o \in Script, NEW p \in Tries(o)
  PROVE  /\ p \in Script
         /\ p.place \in {"ending", "throwing", "connecting"}
         /\ p.reading = o.reading /\ p.closable = o.closable
         /\ p.session = "connecting" => p.place = "connecting" \/ o.session = "connecting"
<1>1. CASE o.urls = 0
  <2>1. p = [o EXCEPT !.place = "ending", !.state = 0]
    BY <1>1 DEF Tries
  <2>2. p \in Script
    BY <2>1 DEF Script
  <2>3. /\ p.place = "ending" /\ p.reading = o.reading /\ p.closable = o.closable
        /\ p.session = o.session
    BY <2>1 DEF Script
  <2> QED BY <2>2, <2>3
<1>2. CASE o.urls # 0
  <2>1. o.urls - 1 \in Nat
    BY <1>2 DEF Script
  <2>2. \/ p = [o EXCEPT !.place = "connecting", !.urls = @ - 1, !.session = "connecting"]
        \/ p = [o EXCEPT !.place = "throwing"]
    BY <1>2 DEF Tries
  <2> QED BY <2>1, <2>2 DEF Script
<1> QED BY <1>1, <1>2

\* transport.close() touches neither the reading function nor its read.
LEMMA ClosedReturns ==
  ASSUME NEW o \in Script
  PROVE  /\ Closed(o) \in Script
         /\ Closed(o).place = o.place /\ Closed(o).reading = o.reading
         /\ Closed(o).closable = o.closable
         /\ Closed(o).session = "connecting" <=> o.session = "connecting"
<1>1. CASE ~ o.closable
  BY <1>1 DEF Closed
<1>2. CASE o.closable
  <2> DEFINE left == IF o.state = 2 /\ o.session = "open" THEN "closing" ELSE o.session
  <2>1. Closed(o) = [o EXCEPT !.timer = FALSE, !.session = left, !.state = 0]
    BY <1>2 DEF Closed
  <2>2. /\ left \in {"none", "connecting", "open", "closing", "closed"}
        /\ left = "connecting" <=> o.session = "connecting"
    BY DEF Script
  <2> HIDE DEF left
  <2>3. Closed(o) \in Script
    BY <2>1, <2>2 DEF Script
  <2>4. /\ Closed(o).place = o.place /\ Closed(o).reading = o.reading
        /\ Closed(o).closable = o.closable /\ Closed(o).session = left
    BY <2>1 DEF Script
  <2> QED BY <2>2, <2>3, <2>4
<1> QED BY <1>1, <1>2

\* A buffer that is acquired is not in use and no longer in the pool.
LEMMA AcquiredReturns ==
  ASSUME TypeOK, BufferUnshared
  PROVE  /\ Acquired \in Buffer /\ PoolWithout \in Seq(Buffer)
         /\ Acquired \notin InUse
         /\ \A i \in DOMAIN PoolWithout : PoolWithout[i] # Acquired
         /\ \A i \in DOMAIN PoolWithout : PoolWithout[i] \notin InUse
         /\ \A i, k \in DOMAIN PoolWithout : i # k => PoolWithout[i] # PoolWithout[k]
<1>1. CASE pool = <<>>
  <2>1. IsFiniteSet(InUse)
    <3>1. IsFiniteSet({w.buffer : w \in writes})
      <4> DEFINE f == [w \in writes |-> w.buffer]
      <4>1. f \in Surjection(writes, {w.buffer : w \in writes})
        BY DEF Surjection
      <4> QED BY <4>1, FS_Surjection DEF TypeOK
    <3>2. IsFiniteSet({js[t].reading : t \in Transport})
      <4> DEFINE f == [t \in Transport |-> js[t].reading]
      <4>1. f \in Surjection(Transport, {js[t].reading : t \in Transport})
        BY DEF Surjection
      <4> QED BY <4>1, FS_Surjection, BrowserAssumption
    <3>3. IsFiniteSet({js[t].reading : t \in Transport} \ {None})
      BY <3>2, FS_Difference
    <3> QED BY <3>1, <3>3, FS_Union DEF InUse
  <2> DEFINE n == Cardinality(InUse)
  <2>2. n \in Nat
    BY <2>1, FS_CardinalityType
  <2>3. ~ (1 .. n + 1 \subseteq InUse)
    <3>1. SUFFICES ASSUME 1 .. n + 1 \subseteq InUse PROVE FALSE
      OBVIOUS
    <3>2. Cardinality(1 .. n + 1) <= n
      BY <2>1, <3>1, FS_Subset
    <3>3. Cardinality(1 .. n + 1) = n + 1
      <4>1. 1 \in Int /\ n + 1 \in Int /\ 1 <= n + 1
        BY <2>2
      <4>2. Cardinality(1 .. n + 1) = (n + 1) - 1 + 1
        BY <4>1, FS_Interval
      <4> QED BY <2>2, <4>2
    <3> QED BY <2>2, <3>2, <3>3
  <2>4. \E b \in 1 .. n + 1 : b \notin InUse
    BY <2>3
  <2>5. NewBuffer \in 1 .. n + 1 /\ NewBuffer \notin InUse
    BY <2>4 DEF NewBuffer
  <2>6. Acquired = NewBuffer /\ PoolWithout = <<>>
    BY <1>1 DEF Acquired, PoolWithout
  <2>7. NewBuffer \in Buffer
    BY <2>2, <2>5 DEF Buffer
  <2> QED BY <2>5, <2>6, <2>7
<1>2. CASE pool # <<>>
  <2>1. /\ pool \in Seq(Buffer) /\ Len(pool) \in Nat /\ Len(pool) # 0
        /\ DOMAIN pool = 1 .. Len(pool)
    BY <1>2, EmptySeq, LenProperties DEF TypeOK
  <2>2. Acquired = pool[Len(pool)] /\ Len(pool) \in DOMAIN pool
    BY <1>2, <2>1 DEF Acquired
  <2>3. /\ PoolWithout \in Seq(Buffer) /\ DOMAIN PoolWithout = 1 .. Len(pool) - 1
        /\ \A i \in 1 .. Len(pool) - 1 : PoolWithout[i] = pool[i]
    BY <1>2, <2>1 DEF PoolWithout
  <2>4. \A i \in DOMAIN pool : pool[i] \notin InUse
    BY DEF BufferUnshared, Pooled
  <2>5. \A i, k \in DOMAIN pool : i # k => pool[i] # pool[k]
    BY DEF BufferUnshared
  <2>6. Acquired \in Buffer /\ Acquired \notin InUse
    BY <2>1, <2>2, <2>4
  <2>7. \A i \in 1 .. Len(pool) - 1 : i \in DOMAIN pool /\ i # Len(pool)
    <3>1. \A n \in Nat : \A i \in 1 .. n - 1 : i \in 1 .. n /\ i # n
      OBVIOUS
    <3> QED BY <2>1, <3>1
  <2> QED BY <2>2, <2>3, <2>4, <2>5, <2>6, <2>7
<1> QED BY <1>1, <1>2

-----------------------------------------------------------------------------
\* The steps of C code.

\* Where no buffer changes hands, none becomes shared.
LEMMA BuffersKept ==
  ASSUME BufferUnshared, pool' = pool, writes' = writes,
         \A t \in Transport : js'[t].reading = js[t].reading
  PROVE  BufferUnshared'
<1>1. InUse' = InUse /\ Pooled' = Pooled
  BY DEF InUse, Pooled
<1> QED BY <1>1 DEF BufferUnshared

\* A transport that is connected for the first time has nothing under way.
LEMMA ConnectStep ==
  ASSUME IInv, NEW t \in Transport, Connect(t)
  PROVE  IInv'
<1> USE DEF IInv
<1> DEFINE begun == [js[t] EXCEPT !.state = 1, !.handle = TRUE]
<1>1. PICK o \in Tries(begun) : js' = [js EXCEPT ![t] = o] /\ jobs' = JobsAfter(t, o)
  BY DEF Connect
<1>2. /\ js[t].place = "none" /\ js[t].reading = None /\ js[t].session # "connecting"
      /\ c[t].memory = "unused" /\ jobs = {}
  BY DEF Connect, PlacesHold, PlaceHolds, Idle
<1>3. begun \in Script /\ begun.reading = None /\ begun.session # "connecting"
  BY <1>2 DEF TypeOK, Script
<1> HIDE DEF begun
<1>4. /\ o \in Script /\ o.place \in {"ending", "throwing", "connecting"}
      /\ o.reading = None
      /\ o.session = "connecting" => o.place = "connecting"
  BY <1>1, <1>3, TriesReturns
<1>5. /\ js' \in [Transport -> Script]
      /\ js'[t] = o /\ \A u \in Transport \ {t} : js'[u] = js[u]
  BY <1>1, <1>4 DEF TypeOK
<1>6. /\ c' \in [Transport -> Context]
      /\ c'[t].memory = "live" /\ \A u \in Transport \ {t} : c'[u] = c[u]
  BY DEF Connect, TypeOK, Context
<1>7. \A j \in jobs' : j = Job(t, "finally", None) /\ o.place \in {"ending", "throwing"}
  BY <1>1 DEF JobsAfter
<1>8. TypeOK'
  <2>1. Job(t, "finally", None) \in JobType
    BY DEF Job, JobType, None
  <2>2. pool' = pool /\ writes' = writes
    BY DEF Connect
  <2>3. jobs' \subseteq JobType
    BY <1>7, <2>1
  <2> QED BY <1>5, <1>6, <2>2, <2>3 DEF TypeOK
<1>9. JobsHold'
  <2>1. ASSUME NEW j \in jobs' PROVE JobHolds(j)'
    <3>1. /\ j.of = t /\ j.kind = "finally" /\ j = Job(t, "finally", None)
          /\ js'[t].place \in {"ending", "throwing"}
      BY <1>5, <1>7 DEF Job
    <3> QED BY <3>1 DEF JobHolds, Event
  <2> QED BY <2>1 DEF JobsHold
<1>10. PlacesHold'
  <2>1. PlaceHolds(t)'
    BY <1>4, <1>5, <1>6 DEF PlaceHolds
  <2>2. ASSUME NEW u \in Transport \ {t} PROVE PlaceHolds(u)'
    BY <1>2, <1>5, <1>6 DEF Connect, PlacesHold, PlaceHolds
  <2> QED BY <2>1, <2>2 DEF PlacesHold
<1>11. NoUseAfterFree'
  BY DEF Connect, NoUseAfterFree
<1>12. BufferUnshared'
  BY <1>2, <1>4, <1>5, BuffersKept DEF Connect
<1> QED BY <1>8, <1>9, <1>10, <1>11, <1>12

\* Freeing a transport that reads makes the job that ends the read ready.
LEMMA CleanupStep ==
  ASSUME IInv, NEW t \in Transport, Cleanup(t)
  PROVE  IInv'
<1> USE DEF IInv
<1>1. js[t] \in Script /\ jobs = {}
  BY DEF Cleanup, TypeOK, Idle
<1>2. Closed(js[t]) \in Script
  BY <1>1, ClosedReturns
<1>3. /\ js' \in [Transport -> Script]
      /\ js'[t].place = js[t].place /\ js'[t].reading = js[t].reading
      /\ js'[t].closable = js[t].closable
      /\ js'[t].session = "connecting" <=> js[t].session = "connecting"
      /\ \A u \in Transport \ {t} : js'[u] = js[u]
  <2>1. js' = [js EXCEPT ![t] = [Closed(js[t]) EXCEPT !.handle = FALSE]]
    BY DEF Cleanup
  <2>2. [Closed(js[t]) EXCEPT !.handle = FALSE] \in Script
    BY <1>2 DEF Script
  <2>3. /\ js' \in [Transport -> Script] /\ js'[t] = [Closed(js[t]) EXCEPT !.handle = FALSE]
        /\ \A u \in Transport \ {t} : js'[u] = js[u]
    BY <2>1, <2>2 DEF TypeOK
  <2>4. /\ js'[t].place = Closed(js[t]).place /\ js'[t].reading = Closed(js[t]).reading
        /\ js'[t].closable = Closed(js[t]).closable
        /\ js'[t].session = Closed(js[t]).session
    BY <1>2, <2>3 DEF Script
  <2> QED BY <1>1, <2>3, <2>4, ClosedReturns
<1>4. /\ c' \in [Transport -> Context]
      /\ c'[t].memory = "freed" /\ \A u \in Transport \ {t} : c'[u] = c[u]
  <2>1. [Unused EXCEPT !.memory = "freed"] \in Context
    BY EmptySeq DEF Unused, Context, None
  <2>2. [Unused EXCEPT !.memory = "freed"].memory = "freed"
    BY DEF Unused
  <2> QED BY <2>1, <2>2 DEF Cleanup, TypeOK
<1>5. jobs' = Rejected(t, js[t])
  BY DEF Cleanup
<1>6. \A j \in jobs' : j = Job(t, "readFailed", None) /\ js[t].place = "reading"
  BY <1>5 DEF Rejected
<1>7. TypeOK'
  <2>1. Job(t, "readFailed", None) \in JobType
    BY DEF Job, JobType, None
  <2>2. pool' = pool /\ writes' = writes
    BY DEF Cleanup
  <2>3. jobs' \subseteq JobType
    BY <1>6, <2>1
  <2> QED BY <1>3, <1>4, <2>2, <2>3 DEF TypeOK
<1>8. JobsHold'
  <2>1. ASSUME NEW j \in jobs' PROVE JobHolds(j)'
    <3>1. /\ j.of = t /\ j.kind = "readFailed" /\ j = Job(t, "readFailed", None)
          /\ js'[t].place = "reading"
      BY <1>3, <1>6 DEF Job
    <3> QED BY <3>1 DEF JobHolds, Event
  <2> QED BY <2>1 DEF JobsHold
<1>9. PlacesHold'
  <2>1. PlaceHolds(t)'
    <3>1. PlaceHolds(t)
      BY DEF PlacesHold
    <3>2. js[t].reading # None => Job(t, "readFailed", None) \in jobs'
      BY <1>5, <3>1 DEF PlaceHolds, Rejected
    <3>3. t \notin early' => js[t].place # "connecting"
      BY DEF Cleanup
    <3> QED BY <1>3, <1>4, <3>1, <3>2, <3>3 DEF PlaceHolds
  <2>2. ASSUME NEW u \in Transport \ {t} PROVE PlaceHolds(u)'
    <3>1. PlaceHolds(u) /\ (u \in early => u \in early')
      BY DEF PlacesHold, Cleanup
    <3> QED BY <1>1, <1>3, <1>4, <3>1 DEF PlaceHolds
  <2> QED BY <2>1, <2>2 DEF PlacesHold
<1>10. NoUseAfterFree'
  BY DEF Cleanup, NoUseAfterFree
<1>11. BufferUnshared'
  BY <1>3, BuffersKept DEF Cleanup
<1> QED BY <1>7, <1>8, <1>9, <1>10, <1>11

\* Taking a message changes the queue of a context only.
LEMMA RecvStep ==
  ASSUME IInv, NEW t \in Transport, Recv(t)
  PROVE  IInv'
<1> USE DEF IInv
<1>1. /\ c' \in [Transport -> Context]
      /\ \A u \in Transport : c'[u].memory = c[u].memory
  <2> DEFINE k == c[t]
             next == IF k.next < Len(k.queue)
                     THEN [k EXCEPT !.last = k.queue[k.next + 1], !.queue[k.next + 1] = None,
                                    !.next = k.next + 1, !.handed = k.handed + 1]
                     ELSE EmptyQueue(k)
  <2>1. k \in Context
    BY DEF TypeOK
  <2>2. next \in Context /\ next.memory = k.memory
    <3>1. CASE k.next < Len(k.queue)
      <4>1. k.queue \in Seq(Nat) /\ k.next \in Nat /\ Len(k.queue) \in Nat /\ k.handed \in Nat
        BY <2>1, LenProperties DEF Context
      <4>2. k.next + 1 \in 1 .. Len(k.queue)
        BY <3>1, <4>1
      <4>3. k.queue[k.next + 1] \in Nat
        BY <4>1, <4>2, ElementOfSeq
      <4>4. [k.queue EXCEPT ![k.next + 1] = None] \in Seq(Nat)
        BY <4>1, <4>2, ExceptSeq, None \in Nat DEF None
      <4> DEFINE queue == [k.queue EXCEPT ![k.next + 1] = None]
                 last == k.queue[k.next + 1]
      <4>5. next = [k EXCEPT !.last = last, !.queue = queue, !.next = k.next + 1,
                             !.handed = k.handed + 1]
        BY <2>1, <3>1 DEF Context
      <4>6. last \in Nat /\ queue \in Seq(Nat) /\ k.next + 1 \in Nat /\ k.handed + 1 \in Nat
        BY <4>1, <4>3, <4>4
      <4> HIDE DEF queue, last, next, k
      <4> QED BY <2>1, <4>5, <4>6 DEF Context
    <3>2. CASE ~ k.next < Len(k.queue)
      BY <2>1, <3>2, EmptySeq DEF EmptyQueue, Context, None
    <3> QED BY <3>1, <3>2
  <2>3. c' = [c EXCEPT ![t] = next]
    BY DEF Recv
  <2> HIDE DEF next
  <2> QED BY <2>2, <2>3 DEF TypeOK
<1>2. UNCHANGED <<js, jobs, pool, writes, touched, early>>
  BY DEF Recv
<1>3. TypeOK'
  BY <1>1, <1>2 DEF TypeOK
<1>4. JobsHold'
  BY <1>2 DEF JobsHold, JobHolds
<1>5. PlacesHold'
  BY <1>1, <1>2 DEF PlacesHold, PlaceHolds
<1>6. NoUseAfterFree'
  BY <1>2 DEF NoUseAfterFree
<1>7. BufferUnshared'
  BY <1>2, BuffersKept
<1> QED BY <1>3, <1>4, <1>5, <1>6, <1>7

\* A write begins in a buffer nobody has.
LEMMA SendStep ==
  ASSUME IInv, NEW t \in Transport, Send(t)
  PROVE  IInv'
<1> USE DEF IInv
<1> DEFINE w == [of |-> t, buffer |-> Acquired]
<1>1. /\ writes' = writes \cup {w} /\ pool' = PoolWithout /\ jobs = {}
      /\ UNCHANGED <<c, js, jobs, touched, early>>
  BY DEF Send, Idle
<1>2. w \in Write /\ w.buffer = Acquired
  BY AcquiredReturns DEF Write
<1> HIDE DEF w
<1>3. TypeOK'
  BY <1>1, <1>2, AcquiredReturns, FS_AddElement DEF TypeOK
<1>4. JobsHold'
  BY <1>1 DEF JobsHold
<1>5. PlacesHold'
  BY <1>1 DEF PlacesHold, PlaceHolds
<1>6. NoUseAfterFree'
  BY <1>1 DEF NoUseAfterFree
<1>7. BufferUnshared'
  <2>1. InUse' = InUse \cup {Acquired}
    BY <1>1, <1>2 DEF InUse
  <2>2. Pooled' \cap InUse' = {}
    BY <1>1, <2>1, AcquiredReturns DEF Pooled
  <2>3. \A v, x \in writes' : v # x => v.buffer # x.buffer
    <3>1. \A v \in writes : v.buffer # Acquired
      BY AcquiredReturns DEF InUse
    <3> QED BY <1>1, <1>2, <3>1 DEF BufferUnshared
  <2>4. \A v \in writes', u \in Transport : v.buffer # js'[u].reading
    <3>1. \A u \in Transport : js[u].reading # Acquired
      <4>1. Acquired # None
        BY AcquiredReturns DEF Buffer, None
      <4> QED BY <4>1, AcquiredReturns DEF InUse
    <3> QED BY <1>1, <1>2, <3>1 DEF BufferUnshared
  <2>5. \A i, k \in DOMAIN pool' : i # k => pool'[i] # pool'[k]
    BY <1>1, AcquiredReturns
  <2> QED BY <1>1, <2>2, <2>3, <2>4, <2>5 DEF BufferUnshared
<1> QED BY <1>3, <1>4, <1>5, <1>6, <1>7

-----------------------------------------------------------------------------
\* The events of the browser.

\* When no job is left, no read is under way for a transport that was cleaned
\* up, unless it was connecting then.
LEMMA IdleReads ==
  ASSUME IInv, Idle, NEW t \in Transport, js[t].reading # None
  PROVE  js[t].place = "reading" /\ (c[t].memory = "freed" => t \in early)
  BY DEF IInv, PlacesHold, PlaceHolds, Idle

\* What an attempt to connect comes to is heard by one that is connecting.
LEMMA SettlesStep ==
  ASSUME IInv, NEW t \in Transport, Settles(t)
  PROVE  IInv'
<1> USE DEF IInv
<1>1. PICK session \in {"open", "closed"}, kind \in {"ready", "failed"} :
        js' = [js EXCEPT ![t].session = session] /\ jobs' = {Job(t, kind, None)}
  BY DEF Settles
<1>2. /\ Idle /\ js[t].session = "connecting" /\ js[t].place = "connecting"
      /\ UNCHANGED <<c, pool, writes, touched, early>>
  BY DEF Settles, PlacesHold, PlaceHolds
<1>3. /\ js' \in [Transport -> Script]
      /\ js'[t].session = session /\ \A u \in Transport \ {t} : js'[u] = js[u]
      /\ \A u \in Transport : /\ js'[u].place = js[u].place /\ js'[u].reading = js[u].reading
                              /\ js'[u].closable = js[u].closable
  BY <1>1 DEF TypeOK, Script
<1>4. TypeOK'
  <2>1. Job(t, kind, None) \in JobType
    BY <1>1 DEF Job, JobType, Event, None
  <2> QED BY <1>1, <1>2, <1>3, <2>1 DEF TypeOK
<1>5. JobsHold'
  <2> DEFINE j == Job(t, kind, None)
  <2>1. j.of = t /\ j.kind = kind /\ jobs' = {j}
    BY <1>1 DEF Job
  <2> HIDE DEF j
  <2>2. js'[t].place = "connecting" /\ js'[t].session # "connecting"
    BY <1>1, <1>2, <1>3
  <2> QED BY <2>1, <2>2 DEF JobsHold, JobHolds, Event
<1>6. PlacesHold'
  <2>1. ASSUME NEW u \in Transport PROVE PlaceHolds(u)'
    <3>1. PlaceHolds(u) /\ (u # t => js'[u].session = js[u].session)
      BY <1>3 DEF PlacesHold
    <3> QED BY <1>1, <1>2, <1>3, <3>1, IdleReads DEF PlaceHolds
  <2> QED BY <2>1 DEF PlacesHold
<1>7. NoUseAfterFree' /\ BufferUnshared'
  BY <1>2, <1>3, BuffersKept DEF NoUseAfterFree
<1> QED BY <1>4, <1>5, <1>6, <1>7

\* A datagram that arrives takes the buffer of the pending read with it.
LEMMA ArrivesStep ==
  ASSUME IInv, NEW t \in Transport, Arrives(t)
  PROVE  IInv'
<1> USE DEF IInv
<1> DEFINE j == Job(t, "value", js[t].reading)
<1>1. /\ Idle /\ jobs' = {j} /\ js[t].reading # None
      /\ UNCHANGED <<c, js, pool, writes, touched, early>>
  BY DEF Arrives
<1>2. j.of = t /\ j.kind = "value" /\ j.buffer = js[t].reading
  BY DEF Job
<1>3. j \in JobType
  BY DEF Job, JobType, Event, TypeOK, Script
<1> HIDE DEF j
<1>4. TypeOK'
  BY <1>1, <1>3 DEF TypeOK
<1>5. JobsHold'
  BY <1>1, <1>2 DEF JobsHold, JobHolds, Event
<1>6. PlacesHold'
  <2>1. ASSUME NEW u \in Transport PROVE PlaceHolds(u)'
    <3>1. PlaceHolds(u)
      BY DEF PlacesHold
    <3> QED BY <1>1, <3>1, IdleReads DEF PlaceHolds
  <2> QED BY <2>1 DEF PlacesHold
<1>7. NoUseAfterFree' /\ BufferUnshared'
  BY <1>1, BuffersKept DEF NoUseAfterFree
<1> QED BY <1>4, <1>5, <1>6, <1>7

\* The end of a session ends the read too, and both are told.
LEMMA SessionEndsStep ==
  ASSUME IInv, NEW t \in Transport, SessionEnds(t)
  PROVE  IInv'
<1> USE DEF IInv
<1>1. /\ Idle /\ js[t].session \in {"open", "closing"}
      /\ js' = [js EXCEPT ![t].session = "closed"]
      /\ jobs' = {Job(t, "closed", None)} \cup Rejected(t, js[t])
      /\ UNCHANGED <<c, pool, writes, touched, early>>
  BY DEF SessionEnds
<1>2. /\ js' \in [Transport -> Script]
      /\ js'[t].session = "closed" /\ \A u \in Transport \ {t} : js'[u] = js[u]
      /\ \A u \in Transport : /\ js'[u].place = js[u].place /\ js'[u].reading = js[u].reading
                              /\ js'[u].closable = js[u].closable
  BY <1>1 DEF TypeOK, Script
<1>3. \A j \in jobs' : \/ j = Job(t, "closed", None)
                       \/ j = Job(t, "readFailed", None) /\ js[t].place = "reading"
  BY <1>1 DEF Rejected
<1>4. TypeOK'
  <2>1. Job(t, "closed", None) \in JobType /\ Job(t, "readFailed", None) \in JobType
    BY DEF Job, JobType, None
  <2>2. jobs' \subseteq JobType
    BY <1>3, <2>1
  <2> QED BY <1>1, <1>2, <2>2 DEF TypeOK
<1>5. JobsHold'
  <2>1. ASSUME NEW j \in jobs' PROVE JobHolds(j)'
    <3>1. /\ j.of = t
          /\ \/ j.kind = "closed"
             \/ /\ j.kind = "readFailed" /\ j = Job(t, "readFailed", None)
                /\ js'[t].place = "reading"
      BY <1>2, <1>3 DEF Job
    <3> QED BY <3>1 DEF JobHolds, Event
  <2> QED BY <2>1 DEF JobsHold
<1>6. PlacesHold'
  <2>1. ASSUME NEW u \in Transport PROVE PlaceHolds(u)'
    <3>1. PlaceHolds(u) /\ (u # t => js'[u].session = js[u].session)
      BY <1>2 DEF PlacesHold
    <3> QED BY <1>1, <1>2, <3>1, IdleReads DEF PlaceHolds
  <2> QED BY <2>1 DEF PlacesHold
<1>7. NoUseAfterFree' /\ BufferUnshared'
  BY <1>1, <1>2, BuffersKept DEF NoUseAfterFree
<1> QED BY <1>4, <1>5, <1>6, <1>7

\* A write that settles is still among those under way when it is told.
LEMMA WriteSettlesStep ==
  ASSUME IInv, NEW w \in writes, WriteSettles(w)
  PROVE  IInv'
<1> USE DEF IInv
<1>1. PICK kind \in {"sent", "sendFailed"} : jobs' = {Job(w.of, kind, w.buffer)}
  BY DEF WriteSettles
<1> DEFINE j == Job(w.of, kind, w.buffer)
<1>2. Idle /\ UNCHANGED <<c, js, pool, writes, touched, early>>
  BY DEF WriteSettles
<1>3. w \in Write /\ w = [of |-> w.of, buffer |-> w.buffer]
  BY DEF TypeOK, Write
<1>4. j.of = w.of /\ j.kind = kind /\ j.buffer = w.buffer /\ jobs' = {j}
  BY <1>1 DEF Job
<1>5. j \in JobType
  BY <1>3 DEF Job, JobType, Event, Write, Buffer
<1> HIDE DEF j
<1>6. TypeOK'
  BY <1>2, <1>4, <1>5 DEF TypeOK
<1>7. JobsHold'
  BY <1>1, <1>2, <1>3, <1>4 DEF JobsHold, JobHolds, Event
<1>8. PlacesHold'
  <2>1. ASSUME NEW u \in Transport PROVE PlaceHolds(u)'
    <3>1. PlaceHolds(u)
      BY DEF PlacesHold
    <3> QED BY <1>2, <3>1, IdleReads DEF PlaceHolds
  <2> QED BY <2>1 DEF PlacesHold
<1>9. NoUseAfterFree' /\ BufferUnshared'
  BY <1>2, BuffersKept DEF NoUseAfterFree
<1> QED BY <1>6, <1>7, <1>8, <1>9

\* A reader that is cancelled reads no more.
LEMMA CancelSettlesStep ==
  ASSUME IInv, NEW t \in Transport, CancelSettles(t)
  PROVE  IInv'
<1> USE DEF IInv
<1>1. /\ Idle /\ js[t].place = "cancelling"
      /\ js' = [js EXCEPT ![t].place = "ending", ![t].state = 0]
      /\ jobs' = {Job(t, "finally", None)}
      /\ UNCHANGED <<c, pool, writes, touched, early>>
  BY DEF CancelSettles
<1>2. /\ js' \in [Transport -> Script]
      /\ js'[t].place = "ending" /\ \A u \in Transport \ {t} : js'[u] = js[u]
      /\ js'[t].reading = js[t].reading /\ js'[t].session = js[t].session
  <2> DEFINE o == [js[t] EXCEPT !.place = "ending", !.state = 0]
  <2>1. js[t] \in Script
    BY DEF TypeOK
  <2>2. /\ o \in Script /\ o.place = "ending"
        /\ o.reading = js[t].reading /\ o.session = js[t].session
    BY <2>1 DEF Script
  <2>3. js' = [js EXCEPT ![t] = o]
    BY <1>1, <2>1 DEF TypeOK, Script
  <2> HIDE DEF o
  <2> QED BY <2>2, <2>3 DEF TypeOK
<1>3. TypeOK'
  <2>1. Job(t, "finally", None) \in JobType
    BY DEF Job, JobType, None
  <2> QED BY <1>1, <1>2, <2>1 DEF TypeOK
<1>4. JobsHold'
  <2> DEFINE j == Job(t, "finally", None)
  <2>1. j.of = t /\ j.kind = "finally" /\ j = Job(t, "finally", None) /\ jobs' = {j}
    BY <1>1 DEF Job
  <2> HIDE DEF j
  <2> QED BY <1>2, <2>1 DEF JobsHold, JobHolds, Event
<1>5. PlacesHold'
  <2>1. ASSUME NEW u \in Transport PROVE PlaceHolds(u)'
    <3>1. PlaceHolds(u)
      BY DEF PlacesHold
    <3> QED BY <1>1, <1>2, <3>1, IdleReads DEF PlaceHolds
  <2> QED BY <2>1 DEF PlacesHold
<1>6. NoUseAfterFree' /\ BufferUnshared'
  <2>1. \A u \in Transport : js'[u].reading = js[u].reading
    BY <1>2
  <2> QED BY <1>1, <2>1, BuffersKept DEF NoUseAfterFree
<1> QED BY <1>3, <1>4, <1>5, <1>6

-----------------------------------------------------------------------------
\* The jobs.

\* A job is run alone, or next to others that are no events.
LEMMA JobsBeside ==
  ASSUME IInv, NEW j \in jobs
  PROVE  /\ j \in JobType /\ j.of \in Transport /\ JobHolds(j)
         /\ j.kind \in Event => jobs \ {j} = {}
         /\ \A k \in jobs \ {j} : k.kind \notin Event /\ JobHolds(k)
  BY DEF IInv, TypeOK, JobType, JobsHold, JobHolds

\* The first read begins in a buffer nobody has, and only of a transport that
\* is live, or was disconnected while it was connecting.
LEMMA RunReadyStep ==
  ASSUME IInv, NEW j \in jobs, RunReady(j)
  PROVE  IInv'
<1> USE DEF IInv
<1> DEFINE t == j.of
           open == [js[t] EXCEPT !.state = 2, !.closable = TRUE, !.timer = TRUE, !.urls = 0]
           reads == [open EXCEPT !.place = "reading", !.reading = Acquired]
           throws == [open EXCEPT !.place = "throwing"]
<1>1. /\ j.kind = "ready" /\ t \in Transport /\ jobs \ {j} = {}
      /\ js[t].place = "connecting" /\ js[t].session # "connecting"
      /\ UNCHANGED <<c, writes, touched, early>>
  BY JobsBeside DEF RunReady, JobHolds, Event
<1>2. js[t].reading = None /\ (c[t].memory = "freed" => t \in early)
      /\ c[t].memory # "unused"
  BY <1>1 DEF PlacesHold, PlaceHolds
<1>3. open \in Script /\ open.reading = None /\ open.session = js[t].session /\ open.closable
  BY <1>1, <1>2 DEF TypeOK, Script
<1>4. Acquired \in Nat /\ Acquired # None
  BY AcquiredReturns DEF Buffer, None
<1>5. \/ /\ js' = [js EXCEPT ![t] = reads] /\ pool' = PoolWithout /\ jobs' = {}
      \/ /\ js' = [js EXCEPT ![t] = throws] /\ pool' = pool
         /\ jobs' = {Job(t, "finally", None)}
  BY <1>1 DEF RunReady, Done
<1> HIDE DEF open
<1>6. CASE js' = [js EXCEPT ![t] = reads] /\ pool' = PoolWithout /\ jobs' = {}
  <2>1. /\ reads \in Script /\ reads.place = "reading" /\ reads.reading = Acquired
        /\ reads.session = js[t].session /\ reads.closable
    BY <1>3, <1>4 DEF Script
  <2> HIDE DEF reads
  <2>2. /\ js' \in [Transport -> Script] /\ js'[t] = reads
        /\ \A u \in Transport \ {t} : js'[u] = js[u]
    BY <1>1, <1>6, <2>1 DEF TypeOK
  <2>3. TypeOK'
    BY <1>1, <1>6, <2>2, AcquiredReturns DEF TypeOK
  <2>4. JobsHold'
    BY <1>6 DEF JobsHold
  <2>5. PlacesHold'
    <3>1. ASSUME NEW u \in Transport PROVE PlaceHolds(u)'
      <4>1. PlaceHolds(u)
        BY DEF PlacesHold
      <4>2. u # t /\ c[u].memory = "freed" /\ u \notin early => js[u].reading = None
        BY <1>1, <4>1 DEF PlaceHolds, Job
      <4> QED BY <1>1, <1>2, <1>6, <2>1, <2>2, <4>1, <4>2 DEF PlaceHolds
    <3> QED BY <3>1 DEF PlacesHold
  <2>6. BufferUnshared'
    <3>1. InUse' = InUse \cup {Acquired}
      BY <1>1, <1>2, <1>4, <2>1, <2>2 DEF InUse
    <3>2. Pooled' \cap InUse' = {}
      BY <1>6, <3>1, AcquiredReturns DEF Pooled
    <3>3. \A v \in writes : v.buffer # Acquired
      BY AcquiredReturns DEF InUse
    <3>4. \A u \in Transport : js[u].reading # Acquired
      BY <1>4, AcquiredReturns DEF InUse
    <3>5. \A v \in writes', u \in Transport : v.buffer # js'[u].reading
      BY <1>1, <2>1, <2>2, <3>3 DEF BufferUnshared
    <3>6. \A u, v \in Transport :
            u # v /\ js'[u].reading # None => js'[u].reading # js'[v].reading
      BY <2>1, <2>2, <3>4 DEF BufferUnshared
    <3>7. \A i, k \in DOMAIN pool' : i # k => pool'[i] # pool'[k]
      BY <1>6, AcquiredReturns
    <3> QED BY <1>1, <3>2, <3>5, <3>6, <3>7 DEF BufferUnshared
  <2> QED BY <1>1, <2>3, <2>4, <2>5, <2>6 DEF NoUseAfterFree
<1>7. CASE js' = [js EXCEPT ![t] = throws] /\ pool' = pool /\ jobs' = {Job(t, "finally", None)}
  <2>1. /\ throws \in Script /\ throws.place = "throwing" /\ throws.reading = None
        /\ throws.session = js[t].session
    BY <1>3 DEF Script
  <2> HIDE DEF throws
  <2>2. /\ js' \in [Transport -> Script] /\ js'[t] = throws
        /\ \A u \in Transport \ {t} : js'[u] = js[u]
    BY <1>1, <1>7, <2>1 DEF TypeOK
  <2>3. TypeOK'
    <3>1. Job(t, "finally", None) \in JobType
      BY <1>1 DEF Job, JobType, None
    <3> QED BY <1>1, <1>7, <2>2, <3>1 DEF TypeOK
  <2>4. JobsHold'
    <3> DEFINE f == Job(t, "finally", None)
    <3>1. f.of = t /\ f.kind = "finally" /\ f = Job(t, "finally", None) /\ jobs' = {f}
      BY <1>7 DEF Job
    <3> HIDE DEF f
    <3> QED BY <2>1, <2>2, <3>1 DEF JobsHold, JobHolds, Event
  <2>5. PlacesHold'
    <3>1. ASSUME NEW u \in Transport PROVE PlaceHolds(u)'
      <4>1. PlaceHolds(u)
        BY DEF PlacesHold
      <4>2. u # t /\ c[u].memory = "freed" /\ u \notin early => js[u].reading = None
        BY <1>1, <4>1 DEF PlaceHolds, Job
      <4> QED BY <1>1, <1>2, <2>1, <2>2, <4>1, <4>2 DEF PlaceHolds
    <3> QED BY <3>1 DEF PlacesHold
  <2>6. BufferUnshared'
    <3>1. \A u \in Transport : js'[u].reading = js[u].reading
      BY <1>2, <2>1, <2>2
    <3> QED BY <1>1, <1>7, <3>1, BuffersKept
  <2> QED BY <1>1, <2>3, <2>4, <2>5, <2>6 DEF NoUseAfterFree
<1> QED BY <1>5, <1>6, <1>7

\* After a failure the next address is tried, or none, and nothing is read.
LEMMA RunFailedStep ==
  ASSUME IInv, NEW j \in jobs, RunFailed(j)
  PROVE  IInv'
<1> USE DEF IInv
<1> DEFINE t == j.of
<1>1. /\ j.kind = "failed" /\ t \in Transport /\ jobs \ {j} = {}
      /\ js[t].place = "connecting" /\ js[t].session # "connecting"
      /\ UNCHANGED <<c, pool, writes, touched, early>>
  BY JobsBeside DEF RunFailed, JobHolds, Event
<1>2. js[t].reading = None /\ (c[t].memory = "freed" => t \in early)
      /\ c[t].memory # "unused"
  BY <1>1 DEF PlacesHold, PlaceHolds
<1>3. PICK o \in Tries(js[t]) : js' = [js EXCEPT ![t] = o] /\ jobs' = JobsAfter(t, o)
  BY <1>1 DEF RunFailed, Done
<1>4. /\ o \in Script /\ o.place \in {"ending", "throwing", "connecting"}
      /\ o.reading = None
      /\ o.session = "connecting" => o.place = "connecting"
  BY <1>1, <1>2, <1>3, TriesReturns DEF TypeOK
<1>5. /\ js' \in [Transport -> Script]
      /\ js'[t] = o /\ \A u \in Transport \ {t} : js'[u] = js[u]
  BY <1>1, <1>3, <1>4 DEF TypeOK
<1>6. \A f \in jobs' : f = Job(t, "finally", None) /\ o.place \in {"ending", "throwing"}
  BY <1>3 DEF JobsAfter
<1>7. TypeOK'
  <2>1. Job(t, "finally", None) \in JobType
    BY <1>1 DEF Job, JobType, None
  <2>2. jobs' \subseteq JobType
    BY <1>6, <2>1
  <2> QED BY <1>1, <1>5, <2>2 DEF TypeOK
<1>8. JobsHold'
  <2>1. ASSUME NEW f \in jobs' PROVE JobHolds(f)'
    <3>1. /\ f.of = t /\ f.kind = "finally" /\ f = Job(t, "finally", None)
          /\ js'[t].place \in {"ending", "throwing"}
      BY <1>5, <1>6 DEF Job
    <3> QED BY <3>1 DEF JobHolds, Event
  <2> QED BY <2>1 DEF JobsHold
<1>9. PlacesHold'
  <2>1. ASSUME NEW u \in Transport PROVE PlaceHolds(u)'
    <3>1. PlaceHolds(u)
      BY DEF PlacesHold
    <3>2. u # t /\ c[u].memory = "freed" /\ u \notin early => js[u].reading = None
      BY <1>1, <3>1 DEF PlaceHolds, Job
    <3> QED BY <1>1, <1>2, <1>4, <1>5, <3>1, <3>2 DEF PlaceHolds
  <2> QED BY <2>1 DEF PlacesHold
<1>10. NoUseAfterFree' /\ BufferUnshared'
  <2>1. \A u \in Transport : js'[u].reading = js[u].reading
    BY <1>2, <1>4, <1>5
  <2> QED BY <1>1, <2>1, BuffersKept DEF NoUseAfterFree
<1> QED BY <1>7, <1>8, <1>9, <1>10

\* A datagram is processed alone: no job that ends the read is ready, so the
\* memory it is written to is not freed, unless it was while connecting.
LEMMA RunValueStep ==
  ASSUME IInv, NEW j \in jobs, RunValue(j)
  PROVE  IInv'
<1> USE DEF IInv
<1> DEFINE t == j.of
<1>1. /\ j.kind = "value" /\ t \in Transport /\ jobs = {j} /\ jobs' = {}
      /\ js[t].reading = j.buffer /\ j.buffer # None /\ js[t].place = "reading"
      /\ js' = [js EXCEPT ![t].reading = j.buffer]
      /\ UNCHANGED <<pool, writes, early>>
  BY JobsBeside DEF RunValue, Done, JobHolds, Event, PlacesHold, PlaceHolds
<1>2. js' = js
  BY <1>1 DEF TypeOK, Script
<1>3. /\ c' \in [Transport -> Context]
      /\ \A u \in Transport : c'[u].memory = c[u].memory
  <2>1. CASE c[t].memory = "live"
    <3> DEFINE k == c[t]
               next == [k EXCEPT !.processed = @ + 1, !.queue = Append(@, k.processed + 1)]
    <3>1. k \in Context
      BY <1>1 DEF TypeOK
    <3>2. k.processed + 1 \in Nat /\ Append(k.queue, k.processed + 1) \in Seq(Nat)
      BY <3>1, AppendProperties DEF Context
    <3>3. next \in Context /\ next.memory = k.memory
      BY <3>1, <3>2 DEF Context
    <3>4. c' = [c EXCEPT ![t] = next]
      BY <1>1, <2>1 DEF RunValue, TypeOK, Context
    <3> HIDE DEF next
    <3> QED BY <1>1, <3>3, <3>4 DEF TypeOK
  <2>2. CASE c[t].memory # "live"
    BY <2>2 DEF RunValue, TypeOK
  <2> QED BY <2>1, <2>2
<1>4. TypeOK'
  BY <1>1, <1>2, <1>3 DEF TypeOK
<1>5. JobsHold'
  BY <1>1 DEF JobsHold
<1>6. ASSUME NEW u \in Transport, c[u].memory = "freed", u \notin early
      PROVE  js[u].reading = None
  BY <1>1, <1>6 DEF PlacesHold, PlaceHolds, Job
<1>7. PlacesHold'
  <2>1. ASSUME NEW u \in Transport PROVE PlaceHolds(u)'
    <3>1. PlaceHolds(u)
      BY DEF PlacesHold
    <3> QED BY <1>1, <1>2, <1>3, <1>6, <3>1 DEF PlaceHolds
  <2> QED BY <2>1 DEF PlacesHold
<1>8. NoUseAfterFree'
  <2>1. CASE c[t].memory = "live"
    BY <1>1, <2>1 DEF RunValue, NoUseAfterFree
  <2>2. CASE c[t].memory # "live"
    <3>1. c[t].memory = "freed"
      BY <1>1, <2>2 DEF TypeOK, Context, PlacesHold, PlaceHolds
    <3>2. t \in early
      BY <1>1, <1>6, <3>1
    <3> QED BY <1>1, <2>2, <3>2 DEF RunValue, NoUseAfterFree
  <2> QED BY <2>1, <2>2
<1>9. BufferUnshared'
  BY <1>1, <1>2, BuffersKept
<1> QED BY <1>4, <1>5, <1>7, <1>8, <1>9

\* The read that is given up was the only thing its job stood for.
LEMMA RunReadFailedStep ==
  ASSUME IInv, NEW j \in jobs, RunReadFailed(j)
  PROVE  IInv'
<1> USE DEF IInv
<1> DEFINE t == j.of
<1>1. /\ j.kind = "readFailed" /\ j = Job(t, "readFailed", None) /\ t \in Transport
      /\ js[t].place = "reading" /\ jobs' = jobs \ {j}
      /\ js' = [js EXCEPT ![t].place = "cancelling", ![t].reading = None]
      /\ UNCHANGED <<c, pool, writes, touched, early>>
  BY JobsBeside DEF RunReadFailed, Done, JobHolds
<1>2. /\ js' \in [Transport -> Script]
      /\ js'[t].place = "cancelling" /\ js'[t].reading = None
      /\ js'[t].session = js[t].session /\ \A u \in Transport \ {t} : js'[u] = js[u]
  <2> DEFINE o == [js[t] EXCEPT !.place = "cancelling", !.reading = None]
  <2>1. js[t] \in Script
    BY <1>1 DEF TypeOK
  <2>2. /\ o \in Script /\ o.place = "cancelling" /\ o.reading = None
        /\ o.session = js[t].session
    BY <2>1 DEF Script, None
  <2>3. js' = [js EXCEPT ![t] = o]
    BY <1>1, <2>1 DEF TypeOK, Script
  <2> HIDE DEF o
  <2> QED BY <1>1, <2>2, <2>3 DEF TypeOK
<1>3. TypeOK'
  BY <1>1, <1>2 DEF TypeOK
<1>4. JobsHold'
  <2>1. ASSUME NEW k \in jobs' PROVE JobHolds(k)'
    <3>1. k \in jobs \ {j} /\ k \in jobs
      BY <1>1
    <3>2. k.kind \notin Event /\ JobHolds(k) /\ k.of \in Transport
      BY <3>1, JobsBeside
    <3>3. k.kind \in {"finally", "readFailed"} => k.of # t
      BY <1>1, <3>1, <3>2 DEF JobHolds
    <3> QED BY <1>2, <3>2, <3>3 DEF JobHolds, Event
  <2> QED BY <2>1 DEF JobsHold
<1>5. PlacesHold'
  <2>1. ASSUME NEW u \in Transport PROVE PlaceHolds(u)'
    <3>1. PlaceHolds(u) /\ PlaceHolds(t)
      BY <1>1 DEF PlacesHold
    <3>2. CASE u = t
      BY <1>1, <1>2, <3>1, <3>2 DEF PlaceHolds
    <3>3. CASE u # t
      <4>1. Job(u, "readFailed", None) # j
        BY <1>1, <3>3 DEF Job
      <4> QED BY <1>1, <1>2, <3>1, <3>3, <4>1 DEF PlaceHolds
    <3> QED BY <3>2, <3>3
  <2> QED BY <2>1 DEF PlacesHold
<1>6. BufferUnshared'
  <2>1. \A u \in Transport : js'[u].reading = js[u].reading \/ js'[u].reading = None
    BY <1>2
  <2>2. InUse' \subseteq InUse /\ Pooled' = Pooled
    BY <1>1, <2>1 DEF InUse, Pooled
  <2>3. \A w \in writes : w.buffer # None
    BY DEF TypeOK, Write, Buffer, None
  <2>4. ASSUME NEW w \in writes', NEW u \in Transport PROVE w.buffer # js'[u].reading
    <3>1. w \in writes /\ w.buffer # js[u].reading /\ w.buffer # None
      BY <1>1, <2>3 DEF BufferUnshared
    <3> QED BY <2>1, <3>1
  <2>5. \A u, v \in Transport :
          u # v /\ js'[u].reading # None => js'[u].reading # js'[v].reading
    BY <2>1 DEF BufferUnshared
  <2> QED BY <1>1, <2>2, <2>4, <2>5 DEF BufferUnshared
<1> QED BY <1>1, <1>3, <1>4, <1>5, <1>6 DEF NoUseAfterFree

\* start() ends once, with no read left.
LEMMA RunFinallyStep ==
  ASSUME IInv, NEW j \in jobs, RunFinally(j)
  PROVE  IInv'
<1> USE DEF IInv
<1> DEFINE t == j.of
<1>1. /\ j.kind = "finally" /\ j = Job(t, "finally", None) /\ t \in Transport
      /\ js[t].place \in {"ending", "throwing"} /\ jobs' = jobs \ {j}
      /\ js' = [js EXCEPT ![t] = [Closed(js[t]) EXCEPT !.state = 0, !.urls = 0, !.place = "done"]]
      /\ UNCHANGED <<c, pool, writes, touched, early>>
  BY JobsBeside DEF RunFinally, Done, JobHolds
<1>2. js[t].reading = None /\ js[t].session # "connecting" /\ c[t].memory # "unused"
  BY <1>1 DEF PlacesHold, PlaceHolds
<1>3. /\ js' \in [Transport -> Script]
      /\ js'[t].place = "done" /\ js'[t].reading = None /\ js'[t].session # "connecting"
      /\ \A u \in Transport \ {t} : js'[u] = js[u]
  <2> DEFINE closed == Closed(js[t])
             o == [closed EXCEPT !.state = 0, !.urls = 0, !.place = "done"]
  <2>1. js[t] \in Script
    BY <1>1 DEF TypeOK
  <2>2. closed \in Script /\ closed.reading = None /\ closed.session # "connecting"
    BY <1>2, <2>1, ClosedReturns
  <2>3. js' = [js EXCEPT ![t] = o]
    BY <1>1
  <2> HIDE DEF closed
  <2>4. /\ o \in Script /\ o.place = "done" /\ o.reading = None
        /\ o.session # "connecting"
    BY <2>2 DEF Script
  <2> HIDE DEF o
  <2> QED BY <1>1, <2>3, <2>4 DEF TypeOK
<1>4. TypeOK'
  BY <1>1, <1>3 DEF TypeOK
<1>5. JobsHold'
  <2>1. ASSUME NEW k \in jobs' PROVE JobHolds(k)'
    <3>1. k \in jobs \ {j} /\ k \in jobs
      BY <1>1
    <3>2. k.kind \notin Event /\ JobHolds(k) /\ k.of \in Transport
      BY <3>1, JobsBeside
    <3>3. k.kind \in {"finally", "readFailed"} => k.of # t
      BY <1>1, <3>1, <3>2 DEF JobHolds
    <3> QED BY <1>3, <3>2, <3>3 DEF JobHolds, Event
  <2> QED BY <2>1 DEF JobsHold
<1>6. PlacesHold'
  <2>1. ASSUME NEW u \in Transport PROVE PlaceHolds(u)'
    <3>1. PlaceHolds(u) /\ Job(u, "readFailed", None) # j
      BY <1>1 DEF PlacesHold, Job
    <3> QED BY <1>1, <1>2, <1>3, <3>1 DEF PlaceHolds
  <2> QED BY <2>1 DEF PlacesHold
<1>7. NoUseAfterFree' /\ BufferUnshared'
  <2>1. \A u \in Transport : js'[u].reading = js[u].reading
    BY <1>2, <1>3
  <2> QED BY <1>1, <2>1, BuffersKept DEF NoUseAfterFree
<1> QED BY <1>4, <1>5, <1>6, <1>7

\* A session that ended closes its transport, which gives up its read.
LEMMA RunClosedStep ==
  ASSUME IInv, NEW j \in jobs, RunClosed(j)
  PROVE  IInv'
<1> USE DEF IInv
<1> DEFINE t == j.of
           o == Closed([js[t] EXCEPT !.state = 0])
<1>1. /\ j.kind = "closed" /\ t \in Transport
      /\ js' = [js EXCEPT ![t] = o]
      /\ jobs' = (jobs \ {j}) \cup Rejected(t, js[t])
      /\ UNCHANGED <<c, pool, writes, touched, early>>
  BY JobsBeside DEF RunClosed, Done
<1>2. /\ o \in Script /\ o.place = js[t].place /\ o.reading = js[t].reading
      /\ o.closable = js[t].closable
      /\ o.session = "connecting" <=> js[t].session = "connecting"
  <2> DEFINE p == [js[t] EXCEPT !.state = 0]
  <2>1. js[t] \in Script
    BY <1>1 DEF TypeOK
  <2>2. /\ p \in Script /\ p.place = js[t].place /\ p.reading = js[t].reading
        /\ p.closable = js[t].closable /\ p.session = js[t].session
    BY <2>1 DEF Script
  <2>3. o = Closed(p)
    OBVIOUS
  <2> HIDE DEF o, p
  <2> QED BY <2>2, <2>3, ClosedReturns
<1> HIDE DEF o
<1>3. /\ js' \in [Transport -> Script]
      /\ \A u \in Transport :
           /\ js'[u].place = js[u].place /\ js'[u].reading = js[u].reading
           /\ js'[u].closable = js[u].closable
           /\ js'[u].session = "connecting" <=> js[u].session = "connecting"
  BY <1>1, <1>2 DEF TypeOK
<1>4. \A k \in jobs' : \/ k \in jobs \ {j} /\ k \in jobs
                       \/ k = Job(t, "readFailed", None) /\ js[t].place = "reading"
  BY <1>1 DEF Rejected
<1>5. TypeOK'
  <2>1. Job(t, "readFailed", None) \in JobType
    BY <1>1 DEF Job, JobType, None
  <2>2. jobs' \subseteq JobType
    BY <1>4, <2>1 DEF TypeOK
  <2> QED BY <1>1, <1>3, <2>2 DEF TypeOK
<1>6. JobsHold'
  <2>1. ASSUME NEW k \in jobs' PROVE JobHolds(k)'
    <3>1. CASE k \in jobs \ {j} /\ k \in jobs
      <4>1. k.kind \notin Event /\ JobHolds(k) /\ k.of \in Transport
        BY <3>1, JobsBeside
      <4> QED BY <1>3, <4>1 DEF JobHolds, Event
    <3>2. CASE k = Job(t, "readFailed", None) /\ js[t].place = "reading"
      <4>1. k.of = t /\ k.kind = "readFailed" /\ js'[t].place = "reading"
        BY <1>1, <1>3, <3>2 DEF Job
      <4> QED BY <3>2, <4>1 DEF JobHolds, Event
    <3> QED BY <1>4, <3>1, <3>2
  <2> QED BY <2>1 DEF JobsHold
<1>7. PlacesHold'
  <2>1. ASSUME NEW u \in Transport PROVE PlaceHolds(u)'
    <3>1. PlaceHolds(u) /\ Job(u, "readFailed", None) # j
      BY <1>1 DEF PlacesHold, Job
    <3> QED BY <1>1, <1>3, <3>1 DEF PlaceHolds
  <2> QED BY <2>1 DEF PlacesHold
<1>8. NoUseAfterFree' /\ BufferUnshared'
  BY <1>1, <1>3, BuffersKept DEF NoUseAfterFree
<1> QED BY <1>5, <1>6, <1>7, <1>8

\* The buffer of a write that succeeded goes back to a pool without it.
LEMMA RunSentStep ==
  ASSUME IInv, NEW j \in jobs, RunSent(j)
  PROVE  IInv'
<1> USE DEF IInv
<1> DEFINE w == [of |-> j.of, buffer |-> j.buffer]
           b == w.buffer
<1>1. /\ j.kind = "sent" /\ jobs = {j} /\ jobs' = {} /\ w \in writes
      /\ pool' = Append(pool, b) /\ writes' = writes \ {w}
      /\ UNCHANGED <<c, js, touched, early>>
  BY JobsBeside DEF RunSent, Done, JobHolds, Event
<1>2. b \in Buffer /\ b \in InUse
  BY <1>1 DEF TypeOK, Write, InUse
<1> HIDE DEF w
<1>3. TypeOK'
  <2>1. pool' \in Seq(Buffer)
    BY <1>1, <1>2, AppendProperties DEF TypeOK
  <2>2. IsFiniteSet(writes')
    BY <1>1, FS_RemoveElement DEF TypeOK
  <2> QED BY <1>1, <2>1, <2>2 DEF TypeOK
<1>4. JobsHold'
  BY <1>1 DEF JobsHold
<1>5. PlacesHold'
  <2>1. ASSUME NEW u \in Transport PROVE PlaceHolds(u)'
    <3>1. PlaceHolds(u) /\ Job(u, "readFailed", None) \notin jobs
      BY <1>1 DEF PlacesHold, Job
    <3> QED BY <1>1, <3>1 DEF PlaceHolds
  <2> QED BY <2>1 DEF PlacesHold
<1>6. BufferUnshared'
  <2>1. InUse' \subseteq InUse /\ b \notin InUse'
    BY <1>1 DEF InUse, BufferUnshared
  <2>2. /\ Len(pool) \in Nat /\ DOMAIN pool = 1 .. Len(pool)
        /\ DOMAIN pool' = 1 .. Len(pool) + 1 /\ pool'[Len(pool) + 1] = b
        /\ \A i \in 1 .. Len(pool) : pool'[i] = pool[i]
    BY <1>1, <1>2, AppendProperties, LenProperties DEF TypeOK
  <2>3. \A i \in 1 .. Len(pool) : pool[i] # b /\ pool[i] \notin InUse
    BY <1>2, <2>2 DEF BufferUnshared, Pooled
  <2>4. \A i \in DOMAIN pool' : i \in 1 .. Len(pool) \/ i = Len(pool) + 1
    BY <2>2
  <2>5. Pooled' \cap InUse' = {}
    BY <2>1, <2>2, <2>3, <2>4 DEF Pooled
  <2>6. ASSUME NEW i \in DOMAIN pool', NEW k \in DOMAIN pool', i # k
        PROVE  pool'[i] # pool'[k]
    <3>1. i \in 1 .. Len(pool) /\ k \in 1 .. Len(pool) => pool[i] # pool[k]
      BY <2>2, <2>6 DEF BufferUnshared
    <3> QED BY <2>2, <2>3, <2>4, <2>6, <3>1
  <2> QED BY <1>1, <2>5, <2>6 DEF BufferUnshared
<1> QED BY <1>1, <1>3, <1>4, <1>5, <1>6 DEF NoUseAfterFree

\* A write that failed closes its transport, and its buffer is dropped.
LEMMA RunSendFailedStep ==
  ASSUME IInv, NEW j \in jobs, RunSendFailed(j)
  PROVE  IInv'
<1> USE DEF IInv
<1> DEFINE t == j.of
           w == [of |-> j.of, buffer |-> j.buffer]
<1>1. /\ j.kind = "sendFailed" /\ t \in Transport /\ jobs = {j}
      /\ jobs' = Rejected(t, js[t]) /\ writes' = writes \ {w}
      /\ js' = [js EXCEPT ![t] = Closed(js[t])]
      /\ UNCHANGED <<c, pool, touched, early>>
  BY JobsBeside DEF RunSendFailed, Done, Event
<1> HIDE DEF w
<1>2. /\ js' \in [Transport -> Script]
      /\ \A u \in Transport :
           /\ js'[u].place = js[u].place /\ js'[u].reading = js[u].reading
           /\ js'[u].closable = js[u].closable
           /\ js'[u].session = "connecting" <=> js[u].session = "connecting"
  <2> DEFINE closed == Closed(js[t])
  <2>1. /\ closed \in Script /\ closed.place = js[t].place
        /\ closed.reading = js[t].reading /\ closed.closable = js[t].closable
        /\ closed.session = "connecting" <=> js[t].session = "connecting"
    BY <1>1, ClosedReturns DEF TypeOK
  <2>2. js' = [js EXCEPT ![t] = closed]
    BY <1>1
  <2> HIDE DEF closed
  <2> QED BY <1>1, <2>1, <2>2 DEF TypeOK
<1>3. \A k \in jobs' : k = Job(t, "readFailed", None) /\ js[t].place = "reading"
  BY <1>1 DEF Rejected
<1>4. TypeOK'
  <2>1. Job(t, "readFailed", None) \in JobType
    BY <1>1 DEF Job, JobType, None
  <2>2. jobs' \subseteq JobType
    BY <1>3, <2>1
  <2>3. writes' \subseteq Write /\ IsFiniteSet(writes')
    BY <1>1, FS_RemoveElement DEF TypeOK
  <2> QED BY <1>1, <1>2, <2>2, <2>3 DEF TypeOK
<1>5. JobsHold'
  <2>1. ASSUME NEW k \in jobs' PROVE JobHolds(k)'
    <3>1. /\ k.of = t /\ k.kind = "readFailed" /\ k = Job(t, "readFailed", None)
          /\ js'[t].place = "reading"
      BY <1>1, <1>2, <1>3 DEF Job
    <3> QED BY <3>1 DEF JobHolds, Event
  <2> QED BY <2>1 DEF JobsHold
<1>6. PlacesHold'
  <2>1. ASSUME NEW u \in Transport PROVE PlaceHolds(u)'
    <3>1. PlaceHolds(u) /\ Job(u, "readFailed", None) \notin jobs
      BY <1>1 DEF PlacesHold, Job
    <3> QED BY <1>1, <1>2, <3>1 DEF PlaceHolds
  <2> QED BY <2>1 DEF PlacesHold
<1>7. BufferUnshared'
  <2>1. InUse' \subseteq InUse /\ Pooled' = Pooled
    BY <1>1, <1>2 DEF InUse, Pooled
  <2> QED BY <1>1, <1>2, <2>1 DEF BufferUnshared
<1> QED BY <1>1, <1>4, <1>5, <1>6, <1>7 DEF NoUseAfterFree

-----------------------------------------------------------------------------
\* The invariant, and the theorems it gives.

\* Before the first connection nothing is under way.
LEMMA InitHolds == Init => IInv
<1> SUFFICES ASSUME Init PROVE IInv
  OBVIOUS
<1>1. TypeOK
  <2>1. c \in [Transport -> Context]
    <3>1. Unused \in Context
      BY EmptySeq DEF Unused, Context, None
    <3> HIDE DEF Unused
    <3> QED BY <3>1 DEF Init
  <2>2. js \in [Transport -> Script]
    BY BrowserAssumption DEF Init, Script, None
  <2> QED BY <2>1, <2>2, EmptySeq, FS_EmptySet DEF Init, TypeOK
<1>2. JobsHold
  BY DEF Init, JobsHold
<1>3. PlacesHold
  BY DEF Init, PlacesHold, PlaceHolds, Unused
<1>4. BufferUnshared
  BY DEF Init, BufferUnshared, Pooled
<1> QED BY <1>1, <1>2, <1>3, <1>4 DEF IInv, Init, NoUseAfterFree

\* Every step of C code, of the browser and of JavaScript keeps the invariant.
LEMMA IInvStep == IInv /\ [Next]_vars => IInv'
<1> SUFFICES ASSUME IInv, [Next]_vars PROVE IInv'
  OBVIOUS
<1>1. ASSUME NEW j \in jobs, RunJob(j) PROVE IInv'
  BY <1>1, RunReadyStep, RunFailedStep, RunValueStep, RunReadFailedStep,
     RunFinallyStep, RunClosedStep, RunSentStep, RunSendFailedStep DEF RunJob
<1>2. ASSUME NEW t \in Transport,
             \/ Connect(t) \/ Cleanup(t) \/ Recv(t) \/ Send(t)
             \/ Settles(t) \/ Arrives(t) \/ SessionEnds(t) \/ CancelSettles(t)
      PROVE  IInv'
  BY <1>2, ConnectStep, CleanupStep, RecvStep, SendStep, SettlesStep, ArrivesStep,
     SessionEndsStep, CancelSettlesStep
<1>3. ASSUME NEW w \in writes, WriteSettles(w) PROVE IInv'
  BY <1>3, WriteSettlesStep
<1>4. CASE UNCHANGED vars
  <2>1. TypeOK' /\ JobsHold' /\ PlacesHold'
    BY <1>4 DEF vars, IInv, TypeOK, JobsHold, JobHolds, PlacesHold, PlaceHolds
  <2> QED BY <1>4, <2>1, BuffersKept DEF vars, IInv, NoUseAfterFree
<1> QED BY <1>1, <1>2, <1>3, <1>4 DEF Next, Jobs

\* A transport that is freed while it reads is reading no more by the time
\* its read can be answered: slopnet_transport.js never writes a datagram to
\* a context that was freed, unless it was connecting then.
THEOREM TransportNoUseAfterFree == Spec => []NoUseAfterFree
<1>1. IInv => NoUseAfterFree
  BY DEF IInv
<1> QED BY <1>1, InitHolds, IInvStep, PTL DEF Spec

\* acquireSendBuffer and acquireReadBuffer never give out a buffer that a
\* write or a read of any transport still uses, and releaseBuffer takes none
\* back twice.
THEOREM TransportBufferUnshared == Spec => []BufferUnshared
<1>1. IInv => BufferUnshared
  BY DEF IInv
<1> QED BY <1>1, InitHolds, IInvStep, PTL DEF Spec

-----------------------------------------------------------------------------
\* What a transport says of itself.

\* The kinds of job that wait to be run for t.
Waiting(t) == {j.kind : j \in {i \in jobs : i.of = t}}

\* A transport that says it is connected and has no open session, or no read
\* under way, has a job waiting that makes it say otherwise; so has one that
\* says it is connecting when the attempt is over.
HonestHolds(t) ==
  /\ js[t].state = 2 =>
       /\ js[t].timer
       /\ js[t].session = "open" \/ "closed" \in Waiting(t)
       /\ \/ js[t].place = "reading" /\ js[t].reading # None
          \/ "closed" \in Waiting(t) \/ "finally" \in Waiting(t)
       /\ "readFailed" \in Waiting(t) => "closed" \in Waiting(t)
  /\ js[t].state = 1 =>
       \/ js[t].session = "connecting"
       \/ {"ready", "failed", "finally"} \cap Waiting(t) # {}
  /\ "ready" \in Waiting(t) => js[t].session = "open"

HonestInv == \A t \in Transport : HonestHolds(t)

\* The next address leaves the state, or ends it.
LEMMA TriesState ==
  ASSUME NEW o \in Script, NEW p \in Tries(o)
  PROVE  \/ p.state = 0
         \/ p.state = o.state /\ p.session = "connecting"
         \/ p.state = o.state /\ p.place = "throwing"
  BY DEF Tries, Script

\* transport.close() ends the state, or finds a transport it cannot close yet.
LEMMA ClosedState ==
  ASSUME NEW o \in Script
  PROVE  Closed(o).state = 0 \/ (~ o.closable /\ Closed(o) = o)
  BY DEF Closed, Script

\* With no job waiting, a transport is what it says.
LEMMA HonestWhenIdle ==
  ASSUME Idle, NEW t \in Transport, HonestHolds(t)
  PROVE  /\ Waiting(t) = {}
         /\ js[t].state = 2 => /\ js[t].session = "open" /\ js[t].timer
                               /\ js[t].place = "reading" /\ js[t].reading # None
         /\ js[t].state = 1 => js[t].session = "connecting"
<1>1. Waiting(t) = {}
  BY DEF Waiting, Idle
<1> QED BY <1>1 DEF HonestHolds

\* The jobs of one transport say nothing of another.
LEMMA HonestElsewhere ==
  ASSUME HonestInv, NEW t \in Transport,
         \A u \in Transport \ {t} : js'[u] = js[u],
         \A j \in (jobs \ jobs') \cup (jobs' \ jobs) : j.of = t,
         HonestHolds(t)'
  PROVE  HonestInv'
<1>1. ASSUME NEW u \in Transport \ {t} PROVE HonestHolds(u)'
  <2>1. \A j : j.of = u => (j \in jobs' <=> j \in jobs)
    OBVIOUS
  <2>2. Waiting(u)' = Waiting(u)
    BY <2>1 DEF Waiting
  <2>3. HonestHolds(u) /\ js'[u] = js[u]
    BY DEF HonestInv
  <2> QED BY <2>2, <2>3 DEF HonestHolds
<1> QED BY <1>1 DEF HonestInv

\* A transport with a single job waiting.
LEMMA OneJob ==
  ASSUME NEW t, NEW kind, NEW buffer, jobs' = {Job(t, kind, buffer)}
  PROVE  Waiting(t)' = {kind} /\ \A j \in jobs' : j.of = t
<1> DEFINE f == Job(t, kind, buffer)
<1>1. f.of = t /\ f.kind = kind /\ jobs' = {f}
  BY DEF Job
<1> HIDE DEF f
<1> QED BY <1>1 DEF Waiting

\* C code and the events of the browser.
LEMMA HonestEvent ==
  ASSUME IInv, HonestInv, NEW t \in Transport,
         \/ Connect(t) \/ Cleanup(t) \/ Settles(t) \/ Arrives(t) \/ SessionEnds(t)
         \/ CancelSettles(t)
         \/ \E w \in writes : w.of = t /\ WriteSettles(w)
  PROVE  HonestInv'
<1>1. Idle /\ jobs = {} /\ js[t] \in Script /\ js \in [Transport -> Script]
  BY DEF Connect, Cleanup, Settles, Arrives, SessionEnds, CancelSettles, WriteSettles,
     Idle, IInv, TypeOK
<1>2. /\ js[t].state = 2 => /\ js[t].session = "open" /\ js[t].timer
                            /\ js[t].place = "reading" /\ js[t].reading # None
      /\ js[t].state = 1 => js[t].session = "connecting"
  BY <1>1, HonestWhenIdle DEF HonestInv
<1> SUFFICES /\ \A u \in Transport \ {t} : js'[u] = js[u]
             /\ \A j \in jobs' : j.of = t
             /\ HonestHolds(t)'
  BY <1>1, HonestElsewhere
<1>3. CASE Connect(t)
  <2> DEFINE begun == [js[t] EXCEPT !.state = 1, !.handle = TRUE]
  <2>1. PICK o \in Tries(begun) : js' = [js EXCEPT ![t] = o] /\ jobs' = JobsAfter(t, o)
    BY <1>3 DEF Connect
  <2>2. begun \in Script /\ begun.state = 1
    BY <1>1 DEF Script
  <2> HIDE DEF begun
  <2>3. \/ o.state = 0
        \/ o.state = 1 /\ o.session = "connecting"
        \/ o.state = 1 /\ jobs' = {Job(t, "finally", None)}
    <3>1. o \in Tries(begun)
      BY <2>1
    <3>2. \/ o.state = 0
          \/ o.state = begun.state /\ o.session = "connecting"
          \/ o.state = begun.state /\ o.place = "throwing"
      BY <2>2, <3>1, TriesState
    <3>3. o.place = "throwing" => jobs' = {Job(t, "finally", None)}
      BY <2>1 DEF JobsAfter
    <3> QED BY <2>2, <3>2, <3>3
  <2>4. \A j \in jobs' : j.of = t /\ j.kind = "finally"
    BY <2>1 DEF JobsAfter, Job
  <2>5. "ready" \notin Waiting(t)'
    BY <2>4 DEF Waiting
  <2>6. jobs' = {Job(t, "finally", None)} => "finally" \in Waiting(t)'
    BY OneJob
  <2>7. js'[t] = o /\ \A u \in Transport \ {t} : js'[u] = js[u]
    BY <1>1, <2>1
  <2> QED BY <2>3, <2>4, <2>5, <2>6, <2>7 DEF HonestHolds
<1>4. CASE Cleanup(t)
  <2> DEFINE o == [Closed(js[t]) EXCEPT !.handle = FALSE]
  <2>1. js' = [js EXCEPT ![t] = o] /\ jobs' = Rejected(t, js[t])
    BY <1>4 DEF Cleanup
  <2>2. o.state = Closed(js[t]).state /\ o.session = Closed(js[t]).session
    BY <1>1, ClosedReturns DEF Script
  <2>3. js'[t] = o /\ \A u \in Transport \ {t} : js'[u] = js[u]
    BY <1>1, <2>1
  <2> HIDE DEF o
  <2>4. \A j \in jobs' : j.of = t /\ j.kind = "readFailed"
    BY <2>1 DEF Rejected, Job
  <2>5. "ready" \notin Waiting(t)'
    BY <2>4 DEF Waiting
  <2>6. js[t].place = "reading" => js[t].closable
    BY DEF IInv, PlacesHold, PlaceHolds
  <2>7. js'[t].state = 0 \/ (js'[t].state = 1 /\ js'[t].session = "connecting")
    <3>1. js[t].state \in {0, 1, 2}
      BY <1>1 DEF Script
    <3> QED BY <1>1, <1>2, <2>2, <2>3, <2>6, <3>1, ClosedState
  <2> QED BY <2>3, <2>4, <2>5, <2>7 DEF HonestHolds
<1>5. CASE Settles(t)
  <2>1. PICK good \in BOOLEAN :
          /\ js' = [js EXCEPT ![t].session = IF good THEN "open" ELSE "closed"]
          /\ jobs' = {Job(t, IF good THEN "ready" ELSE "failed", None)}
    BY <1>5 DEF Settles
  <2>2. js[t].session = "connecting" /\ js[t].state # 2
    BY <1>2, <1>5 DEF Settles
  <2>3. /\ js'[t].state = js[t].state
        /\ js'[t].session = IF good THEN "open" ELSE "closed"
        /\ \A u \in Transport \ {t} : js'[u] = js[u]
    BY <1>1, <2>1 DEF Script
  <2>4. Waiting(t)' = {IF good THEN "ready" ELSE "failed"} /\ \A j \in jobs' : j.of = t
    BY <2>1, OneJob
  <2> QED BY <2>2, <2>3, <2>4 DEF HonestHolds
<1>6. ASSUME js' = js, NEW kind, NEW buffer, jobs' = {Job(t, kind, buffer)},
             kind \notin {"ready", "readFailed"}
      PROVE  HonestHolds(t)' /\ \A j \in jobs' : j.of = t
  <2>1. Waiting(t)' = {kind} /\ \A j \in jobs' : j.of = t
    BY <1>6, OneJob
  <2> QED BY <1>2, <1>6, <2>1 DEF HonestHolds
<1>7. CASE Arrives(t)
  <2>1. js' = js /\ jobs' = {Job(t, "value", js[t].reading)}
    BY <1>7 DEF Arrives
  <2> QED BY <1>6, <2>1
<1>8. CASE SessionEnds(t)
  <2>1. /\ js' = [js EXCEPT ![t].session = "closed"]
        /\ jobs' = {Job(t, "closed", None)} \cup Rejected(t, js[t])
        /\ js[t].session # "connecting"
    BY <1>8 DEF SessionEnds
  <2>2. /\ js'[t].state = js[t].state /\ js'[t].timer = js[t].timer
        /\ \A u \in Transport \ {t} : js'[u] = js[u]
    BY <1>1, <2>1 DEF Script
  <2>3. \A j \in jobs' : j.of = t /\ j.kind \in {"closed", "readFailed"}
    BY <2>1 DEF Rejected, Job
  <2>4. "closed" \in Waiting(t)' /\ "ready" \notin Waiting(t)'
    BY <2>1, <2>3 DEF Waiting, Job
  <2> QED BY <1>2, <2>1, <2>2, <2>3, <2>4 DEF HonestHolds
<1>9. CASE CancelSettles(t)
  <2>1. /\ js' = [js EXCEPT ![t].place = "ending", ![t].state = 0]
        /\ jobs' = {Job(t, "finally", None)}
    BY <1>9 DEF CancelSettles
  <2>2. js'[t].state = 0 /\ \A u \in Transport \ {t} : js'[u] = js[u]
    BY <1>1, <2>1 DEF Script
  <2>3. Waiting(t)' = {"finally"} /\ \A j \in jobs' : j.of = t
    BY <2>1, OneJob
  <2> QED BY <2>2, <2>3 DEF HonestHolds
<1>10. ASSUME NEW w \in writes, w.of = t, WriteSettles(w)
       PROVE  js' = js /\ HonestHolds(t)' /\ \A j \in jobs' : j.of = t
  <2>1. PICK kind \in {"sent", "sendFailed"} : js' = js /\ jobs' = {Job(t, kind, w.buffer)}
    BY <1>10 DEF WriteSettles
  <2> QED BY <1>6, <2>1
<1>11. Arrives(t) => js' = js
  BY DEF Arrives
<1> QED BY <1>3, <1>4, <1>5, <1>7, <1>8, <1>9, <1>10, <1>11

\* The jobs.
LEMMA HonestJob ==
  ASSUME IInv, HonestInv, NEW j \in jobs, RunJob(j)
  PROVE  HonestInv'
<1> DEFINE t == j.of
<1>1. /\ t \in Transport /\ js[t] \in Script /\ js \in [Transport -> Script]
      /\ JobHolds(j) /\ HonestHolds(t)
      /\ \A k \in jobs \ {j} : k.kind \notin Event
      /\ j.kind \in Event => jobs \ {j} = {}
      /\ js[t].place = "reading" => js[t].closable
  BY JobsBeside DEF IInv, TypeOK, HonestInv, PlacesHold, PlaceHolds
<1>2. j.kind \in Waiting(t)
  BY DEF Waiting
<1>3. j.kind \in Event => Waiting(t) = {j.kind}
  BY <1>1 DEF Waiting
<1>4. ASSUME NEW added, Done(j, added), \A k \in added : k.of = t
      PROVE  /\ \A k \in (jobs \ jobs') \cup (jobs' \ jobs) : k.of = t
             /\ \A kind \in Waiting(t) : kind # j.kind => kind \in Waiting(t)'
             /\ \A kind \in Waiting(t)' : (kind \in Waiting(t) /\ kind \notin Event)
                                            \/ \E k \in added : kind = k.kind
             /\ \A k \in added : k.kind \in Waiting(t)'
  <2>1. jobs' = (jobs \ {j}) \cup added
    BY <1>4 DEF Done
  <2>2. \A kind \in Waiting(t) : kind # j.kind => kind \in Waiting(t)'
    BY <2>1 DEF Waiting
  <2>3. \A kind \in Waiting(t)' : (kind \in Waiting(t) /\ kind \notin Event)
                                    \/ \E k \in added : kind = k.kind
    BY <1>1, <2>1 DEF Waiting
  <2>4. \A k \in added : k.kind \in Waiting(t)'
    BY <1>4, <2>1 DEF Waiting
  <2> QED BY <1>4, <2>1, <2>2, <2>3, <2>4
<1>5. CASE RunReady(j)
  <2> DEFINE open == [js[t] EXCEPT !.state = 2, !.closable = TRUE, !.timer = TRUE, !.urls = 0]
             reads == [open EXCEPT !.place = "reading", !.reading = Acquired]
             throws == [open EXCEPT !.place = "throwing"]
  <2>1. \/ js' = [js EXCEPT ![t] = reads] /\ Done(j, {})
        \/ js' = [js EXCEPT ![t] = throws] /\ Done(j, {Job(t, "finally", None)})
    BY <1>5 DEF RunReady
  <2>2. js[t].session = "open" /\ j.kind = "ready"
    BY <1>1, <1>2, <1>5 DEF RunReady, HonestHolds
  <2>3. Acquired # None
    BY AcquiredReturns DEF IInv, Buffer, None
  <2>4. /\ open \in Script /\ open.state = 2 /\ open.timer /\ open.session = "open"
    BY <1>1, <2>2 DEF Script
  <2> HIDE DEF open
  <2>5. /\ reads.state = 2 /\ reads.timer /\ reads.session = "open" /\ reads.place = "reading"
        /\ reads.reading = Acquired
        /\ throws.timer /\ throws.session = "open"
    BY <2>4 DEF Script
  <2> HIDE DEF reads, throws
  <2>6. CASE js' = [js EXCEPT ![t] = reads] /\ Done(j, {})
    <3>1. /\ \A k \in (jobs \ jobs') \cup (jobs' \ jobs) : k.of = t
          /\ \A kind \in Waiting(t)' : kind \in Waiting(t) /\ kind \notin Event
      BY <1>4, <2>6
    <3>2. Waiting(t)' = {}
      BY <1>3, <2>2, <3>1 DEF Event
    <3>3. js'[t] = reads /\ \A u \in Transport \ {t} : js'[u] = js[u]
      BY <1>1, <2>6
    <3>4. HonestHolds(t)'
      BY <2>3, <2>5, <3>2, <3>3 DEF HonestHolds
    <3> QED BY <1>1, <3>1, <3>3, <3>4, HonestElsewhere
  <2>7. CASE js' = [js EXCEPT ![t] = throws] /\ Done(j, {Job(t, "finally", None)})
    <3>1. /\ \A k \in (jobs \ jobs') \cup (jobs' \ jobs) : k.of = t
          /\ "finally" \in Waiting(t)'
          /\ \A kind \in Waiting(t)' : kind \notin Event \/ kind = "finally"
          /\ \A kind \in Waiting(t)' : kind \in Waiting(t) \/ kind = "finally"
      <4> DEFINE f == Job(t, "finally", None)
      <4>1. f.of = t /\ f.kind = "finally" /\ Done(j, {f})
        BY <2>7 DEF Job
      <4> HIDE DEF f
      <4> QED BY <1>4, <4>1
    <3>2. Waiting(t)' = {"finally"}
      BY <1>3, <2>2, <3>1 DEF Event
    <3>3. js'[t] = throws /\ \A u \in Transport \ {t} : js'[u] = js[u]
      BY <1>1, <2>7
    <3>4. HonestHolds(t)'
      BY <2>5, <3>2, <3>3 DEF HonestHolds
    <3> QED BY <1>1, <3>1, <3>3, <3>4, HonestElsewhere
  <2> QED BY <2>1, <2>6, <2>7
<1>6. CASE RunFailed(j)
  <2>1. PICK o \in Tries(js[t]) : js' = [js EXCEPT ![t] = o] /\ Done(j, JobsAfter(t, o))
    BY <1>6 DEF RunFailed
  <2>2. j.kind = "failed" /\ js[t].place = "connecting"
    BY <1>1, <1>6 DEF RunFailed, JobHolds
  <2>3. js[t].state # 2
    BY <1>1, <1>3, <2>2 DEF HonestHolds, Event
  <2>4. /\ \A k \in (jobs \ jobs') \cup (jobs' \ jobs) : k.of = t
        /\ \A kind \in Waiting(t)' : kind \notin Event \/ kind = "finally"
        /\ o.place = "throwing" => "finally" \in Waiting(t)'
    <3>1. \A k \in JobsAfter(t, o) : k.of = t /\ k.kind = "finally"
      BY DEF JobsAfter, Job
    <3>2. o.place = "throwing" => \E k \in JobsAfter(t, o) : k.kind = "finally"
      BY DEF JobsAfter, Job
    <3> QED BY <1>4, <2>1, <3>1, <3>2
  <2>5. js'[t] = o /\ \A u \in Transport \ {t} : js'[u] = js[u]
    BY <1>1, <2>1
  <2>6. "ready" \notin Waiting(t)'
    BY <2>4 DEF Event
  <2>7. \/ o.state = 0
        \/ o.state = js[t].state /\ o.session = "connecting"
        \/ o.state = js[t].state /\ "finally" \in Waiting(t)'
    <3>1. \/ o.state = 0
          \/ o.state = js[t].state /\ o.session = "connecting"
          \/ o.state = js[t].state /\ o.place = "throwing"
      BY <1>1, <2>1, TriesState
    <3> QED BY <2>4, <3>1
  <2>8. HonestHolds(t)'
    BY <2>3, <2>5, <2>6, <2>7 DEF HonestHolds
  <2> QED BY <1>1, <2>4, <2>5, <2>8, HonestElsewhere
<1>7. CASE RunValue(j) \/ RunSent(j)
  <2>1. j.kind \in {"value", "sent"} /\ Done(j, {})
    BY <1>7 DEF RunValue, RunSent
  <2>2. js' = js
    <3>1. CASE RunValue(j)
      <4>1. js' = [js EXCEPT ![t].reading = js[t].reading]
        BY <1>1, <3>1 DEF RunValue, JobHolds
      <4> QED BY <1>1, <4>1 DEF Script
    <3>2. CASE RunSent(j)
      BY <3>2 DEF RunSent
    <3> QED BY <1>7, <3>1, <3>2
  <2>3. /\ \A k \in (jobs \ jobs') \cup (jobs' \ jobs) : k.of = t
        /\ \A kind \in Waiting(t)' : kind \in Waiting(t) /\ kind \notin Event
    BY <1>4, <2>1
  <2>4. Waiting(t) = {j.kind} /\ Waiting(t)' = {}
    BY <1>3, <2>1, <2>3 DEF Event
  <2>5. HonestHolds(t)'
    BY <1>1, <2>1, <2>2, <2>4 DEF HonestHolds
  <2> QED BY <1>1, <2>2, <2>3, <2>5, HonestElsewhere
<1>8. CASE RunReadFailed(j)
  <2>1. /\ js' = [js EXCEPT ![t].place = "cancelling", ![t].reading = None]
        /\ j.kind = "readFailed" /\ Done(j, {})
    BY <1>8 DEF RunReadFailed
  <2>2. /\ js'[t].state = js[t].state /\ js'[t].session = js[t].session
        /\ js'[t].timer = js[t].timer
        /\ \A u \in Transport \ {t} : js'[u] = js[u]
    BY <1>1, <2>1 DEF Script
  <2>3. /\ \A k \in (jobs \ jobs') \cup (jobs' \ jobs) : k.of = t
        /\ \A kind \in Waiting(t) : kind # "readFailed" => kind \in Waiting(t)'
        /\ \A kind \in Waiting(t)' : kind \in Waiting(t)
    BY <1>4, <2>1
  <2>4. HonestHolds(t)'
    BY <1>1, <1>2, <2>1, <2>2, <2>3 DEF HonestHolds
  <2> QED BY <1>1, <2>2, <2>3, <2>4, HonestElsewhere
<1>9. ASSUME NEW o \in Script, js' = [js EXCEPT ![t] = o], o.state = 0,
             NEW added, Done(j, added),
             \A k \in added : k.of = t /\ k.kind = "readFailed"
      PROVE  HonestInv'
  <2>1. js'[t] = o /\ \A u \in Transport \ {t} : js'[u] = js[u]
    BY <1>1, <1>9
  <2>2. /\ \A k \in (jobs \ jobs') \cup (jobs' \ jobs) : k.of = t
        /\ \A kind \in Waiting(t)' : kind \notin Event \/ kind = "readFailed"
    BY <1>4, <1>9
  <2>3. "ready" \notin Waiting(t)'
    BY <2>2 DEF Event
  <2>4. HonestHolds(t)'
    BY <1>9, <2>1, <2>3 DEF HonestHolds
  <2> QED BY <1>1, <2>1, <2>2, <2>4, HonestElsewhere
<1>10. CASE RunFinally(j)
  <2> DEFINE o == [Closed(js[t]) EXCEPT !.state = 0, !.urls = 0, !.place = "done"]
  <2>1. js' = [js EXCEPT ![t] = o] /\ Done(j, {})
    BY <1>10 DEF RunFinally
  <2>2. o \in Script /\ o.state = 0
    <3>1. Closed(js[t]) \in Script
      BY <1>1, ClosedReturns
    <3> QED BY <3>1 DEF Script, None
  <2> DEFINE none == {}
  <2>3. Done(j, none) /\ \A k \in none : k.of = t /\ k.kind = "readFailed"
    BY <2>1
  <2> HIDE DEF o, none
  <2> QED BY <1>9, <2>1, <2>2, <2>3
<1>11. \A k \in Rejected(t, js[t]) : k.of = t /\ k.kind = "readFailed"
  BY DEF Rejected, Job
<1>12. CASE RunClosed(j)
  <2> DEFINE o == Closed([js[t] EXCEPT !.state = 0])
  <2>1. js' = [js EXCEPT ![t] = o] /\ Done(j, Rejected(t, js[t]))
    BY <1>12 DEF RunClosed
  <2>2. [js[t] EXCEPT !.state = 0] \in Script /\ [js[t] EXCEPT !.state = 0].state = 0
    BY <1>1 DEF Script
  <2>3. o \in Script /\ o.state = 0
    BY <2>2, ClosedReturns, ClosedState
  <2> QED BY <1>9, <1>11, <2>1, <2>3
<1>13. CASE RunSendFailed(j)
  <2> DEFINE o == Closed(js[t])
  <2>1. /\ js' = [js EXCEPT ![t] = o] /\ Done(j, Rejected(t, js[t]))
        /\ j.kind = "sendFailed"
    BY <1>13 DEF RunSendFailed
  <2>2. o \in Script /\ (o.state = 0 \/ (~ js[t].closable /\ o = js[t]))
    BY <1>1, ClosedReturns, ClosedState
  <2>3. CASE o.state = 0
    BY <1>9, <1>11, <2>1, <2>2, <2>3
  <2>4. CASE ~ js[t].closable /\ o = js[t]
    <3>1. Waiting(t) = {"sendFailed"}
      BY <1>3, <2>1 DEF Event
    <3>2. js[t].state # 2 /\ (js[t].state = 1 => js[t].session = "connecting")
      BY <1>1, <2>4, <3>1 DEF HonestHolds
    <3>3. /\ \A k \in (jobs \ jobs') \cup (jobs' \ jobs) : k.of = t
          /\ \A kind \in Waiting(t)' : kind \notin Event \/ kind = "readFailed"
      BY <1>4, <1>11, <2>1
    <3>4. "ready" \notin Waiting(t)'
      BY <3>3 DEF Event
    <3>5. js' = js
      BY <1>1, <2>1, <2>4
    <3>6. HonestHolds(t)'
      BY <3>2, <3>4, <3>5 DEF HonestHolds
    <3> QED BY <1>1, <3>3, <3>5, <3>6, HonestElsewhere
  <2> QED BY <2>2, <2>3, <2>4
<1> QED BY <1>5, <1>6, <1>7, <1>8, <1>10, <1>12, <1>13 DEF RunJob

\* Whenever C code runs, what snet_transport_impl_state returns is so: a
\* transport that is connected has an open session, its keep-alive timer and a
\* read under way; one that is connecting will hear of its session.
THEOREM TransportStateHonest == Spec => []StateHonest
<1>1. Init => HonestInv
  BY DEF Init, HonestInv, HonestHolds, Waiting
<1>2. IInv /\ HonestInv /\ [Next]_vars => HonestInv'
  <2> SUFFICES ASSUME IInv, HonestInv, [Next]_vars PROVE HonestInv'
    OBVIOUS
  <2>1. ASSUME js' = js, jobs' = jobs PROVE HonestInv'
    BY <2>1 DEF HonestInv, HonestHolds, Waiting
  <2>2. ASSUME NEW w \in writes, WriteSettles(w) PROVE HonestInv'
    <3>1. w.of \in Transport
      BY DEF IInv, TypeOK, Write
    <3> QED BY <2>2, <3>1, HonestEvent
  <2>3. ASSUME NEW t \in Transport, Recv(t) \/ Send(t) PROVE js' = js /\ jobs' = jobs
    BY <2>3 DEF Recv, Send
  <2> QED BY <2>1, <2>2, <2>3, HonestEvent, HonestJob DEF Next, Jobs, vars
<1>3. HonestInv => StateHonest
  BY HonestWhenIdle DEF HonestInv, StateHonest
<1> QED BY <1>1, <1>2, <1>3, InitHolds, IInvStep, PTL DEF Spec

-----------------------------------------------------------------------------
\* The queue of datagrams.

\* What is left of the queue are the datagrams processed and not handed over,
\* in the order they were processed.
QueueHolds(k) ==
  /\ k.next <= Len(k.queue)
  /\ k.processed = k.handed + (Len(k.queue) - k.next)
  /\ \A i \in k.next + 1 .. Len(k.queue) : k.queue[i] = k.handed + (i - k.next)
  /\ k.last # None => k.last = k.handed

QueueInv == \A t \in Transport : QueueHolds(c[t])

\* A queue that holds so far is in order.
LEMMA QueueInOrder ==
  ASSUME NEW k \in Context, QueueHolds(k)
  PROVE  SubSeq(k.queue, k.next + 1, Len(k.queue))
           = [i \in 1 .. k.processed - k.handed |-> k.handed + i]
<1> DEFINE q == k.queue
           L == Len(q)
           n == k.next
           h == k.handed
           rest == SubSeq(q, n + 1, L)
           inOrder == [i \in 1 .. L - n |-> h + i]
<1>1. /\ q \in Seq(Nat) /\ L \in Nat /\ n \in Nat /\ h \in Nat
      /\ n <= L /\ k.processed - h = L - n
      /\ \A i \in n + 1 .. L : q[i] = h + (i - n)
  BY DEF Context, QueueHolds
<1>2. ASSUME NEW i \in n + 1 .. L PROVE q[i] \in Nat
  <2>1. h + (i - n) \in Nat
    BY <1>1
  <2> QED BY <1>1, <2>1
<1> HIDE DEF q, L, n, h
<1>3. /\ rest \in Seq(Nat) /\ Len(rest) = IF n + 1 <= L THEN L - (n + 1) + 1 ELSE 0
      /\ \A i \in 1 .. L - (n + 1) + 1 : rest[i] = q[(n + 1) + i - 1]
  <2>1. n + 1 \in Int /\ L \in Int
    BY <1>1
  <2> QED BY <1>2, <2>1, SubSeqProperties
<1> HIDE DEF rest
<1>4. Len(rest) = L - n
  BY <1>1, <1>3
<1>5. ASSUME NEW i \in 1 .. L - n PROVE rest[i] = h + i
  <2>1. /\ i \in 1 .. L - (n + 1) + 1 /\ (n + 1) + i - 1 = n + i
        /\ n + i \in n + 1 .. L /\ (n + i) - n = i
    BY <1>1
  <2>2. rest[i] = q[n + i]
    BY <1>3, <2>1
  <2>3. q[n + i] = h + ((n + i) - n)
    BY <1>1, <2>1
  <2> QED BY <2>1, <2>2, <2>3
<1>6. inOrder \in Seq(Nat) /\ Len(inOrder) = L - n /\ \A i \in 1 .. L - n : inOrder[i] = h + i
  <2>1. L - n \in Nat /\ \A i \in 1 .. L - n : h + i \in Nat
    BY <1>1
  <2> QED BY <2>1
<1> HIDE DEF inOrder
<1>7. rest = inOrder
  BY <1>3, <1>4, <1>5, <1>6, SeqEqual
<1> QED BY <1>1, <1>7 DEF rest, inOrder, q, L, n, h

\* Recv hands over the first of what is left.
LEMMA RecvQueue ==
  ASSUME NEW k \in Context, QueueHolds(k)
  PROVE  /\ QueueHolds(EmptyQueue(k)) \/ k.next < Len(k.queue)
         /\ k.next < Len(k.queue) =>
              QueueHolds([k EXCEPT !.last = k.queue[k.next + 1],
                                   !.queue[k.next + 1] = None,
                                   !.next = k.next + 1, !.handed = k.handed + 1])
<1> DEFINE q == k.queue
           L == Len(q)
           n == k.next
           h == k.handed
<1>1. /\ q \in Seq(Nat) /\ L \in Nat /\ n \in Nat /\ h \in Nat /\ n <= L
      /\ k.processed = h + (L - n)
      /\ \A i \in n + 1 .. L : q[i] = h + (i - n)
  BY DEF Context, QueueHolds
<1>2. CASE ~ (k.next < Len(k.queue))
  <2> DEFINE e == EmptyQueue(k)
  <2>1. /\ e.queue = <<>> /\ e.next = 0 /\ e.last = None
        /\ e.processed = k.processed /\ e.handed = k.handed
    BY DEF EmptyQueue, Context
  <2> HIDE DEF e
  <2>2. k.processed = k.handed /\ k.handed \in Nat
    BY <1>1, <1>2
  <2>3. QueueHolds(e)
    BY <2>1, <2>2 DEF QueueHolds
  <2> QED BY <1>2, <2>3 DEF e
<1>3. CASE k.next < Len(k.queue)
  <2> DEFINE rest == [q EXCEPT ![n + 1] = None]
             r == [k EXCEPT !.last = k.queue[k.next + 1], !.queue[k.next + 1] = None,
                            !.next = k.next + 1, !.handed = k.handed + 1]
  <2>1. /\ r.queue = rest /\ r.next = n + 1 /\ r.last = q[n + 1]
        /\ r.processed = k.processed /\ r.handed = h + 1
    BY DEF Context
  <2>2. n < L
    BY <1>3
  <2> HIDE DEF q, L, n, h, r
  <2>3. n + 1 \in 1 .. L /\ n + 1 \in n + 1 .. L /\ (n + 1) - n = 1
    BY <1>1, <2>2
  <2>4. /\ Len(rest) = L
        /\ \A i \in 1 .. L : rest[i] = IF i = n + 1 THEN None ELSE q[i]
    BY <1>1, <2>3, ExceptSeq DEF None, L
  <2> HIDE DEF rest
  <2>5. r.last = r.handed
    <3>1. q[n + 1] = h + ((n + 1) - n)
      BY <1>1, <2>3
    <3> QED BY <2>1, <2>3, <3>1
  <2>6. /\ r.next <= Len(r.queue)
        /\ r.processed = r.handed + (Len(r.queue) - r.next)
    <3>1. n + 1 <= L /\ h + (L - n) = (h + 1) + (L - (n + 1))
      BY <1>1, <2>2
    <3> QED BY <1>1, <2>1, <2>4, <3>1
  <2>7. ASSUME NEW i \in r.next + 1 .. Len(r.queue)
        PROVE  r.queue[i] = r.handed + (i - r.next)
    <3>1. i \in (n + 1) + 1 .. L
      BY <2>1, <2>4
    <3>2. /\ i \in n + 1 .. L /\ i \in 1 .. L /\ i # n + 1
          /\ h + (i - n) = (h + 1) + (i - (n + 1))
      BY <1>1, <3>1
    <3>3. rest[i] = q[i] /\ q[i] = h + (i - n)
      BY <1>1, <2>4, <3>2
    <3> QED BY <2>1, <3>2, <3>3
  <2> QED BY <1>3, <2>5, <2>6, <2>7 DEF QueueHolds, r
<1> QED BY <1>2, <1>3

\* A datagram that is processed is the last of the queue.
LEMMA ProcessQueue ==
  ASSUME NEW k \in Context, QueueHolds(k)
  PROVE  QueueHolds([k EXCEPT !.processed = @ + 1,
                              !.queue = Append(@, k.processed + 1)])
<1> DEFINE L == Len(k.queue)
           n == k.next
           h == k.handed
           q == Append(k.queue, k.processed + 1)
           r == [k EXCEPT !.processed = @ + 1, !.queue = Append(@, k.processed + 1)]
<1>1. /\ k.queue \in Seq(Nat) /\ L \in Nat /\ n \in Nat /\ h \in Nat /\ n <= L
      /\ k.processed \in Nat /\ k.processed = h + (L - n)
      /\ \A i \in n + 1 .. L : k.queue[i] = h + (i - n)
      /\ k.last # None => k.last = h
  BY DEF Context, QueueHolds
<1>2. /\ r.queue = q /\ r.next = n /\ r.last = k.last
      /\ r.processed = k.processed + 1 /\ r.handed = h
  BY DEF Context
<1>3. /\ Len(q) = L + 1 /\ q[L + 1] = k.processed + 1
      /\ \A i \in 1 .. L : q[i] = k.queue[i]
  <2>1. k.processed + 1 \in Nat
    BY <1>1
  <2> QED BY <1>1, <2>1, AppendProperties
<1> HIDE DEF L, n, h, q, r
<1>4. ASSUME NEW i \in r.next + 1 .. Len(r.queue)
      PROVE  r.queue[i] = r.handed + (i - r.next)
  <2>1. i \in n + 1 .. L + 1
    BY <1>2, <1>3
  <2>2. CASE i = L + 1
    <3>1. h + (i - n) = h + (L - n) + 1
      BY <1>1, <2>2
    <3> QED BY <1>1, <1>2, <1>3, <2>2, <3>1
  <2>3. CASE i # L + 1
    <3>1. i \in n + 1 .. L /\ i \in 1 .. L
      BY <1>1, <2>1, <2>3
    <3> QED BY <1>1, <1>2, <1>3, <3>1
  <2> QED BY <2>2, <2>3
<1>5. /\ r.next <= Len(r.queue)
      /\ r.processed = r.handed + (Len(r.queue) - r.next)
      /\ r.last # None => r.last = r.handed
  <2>1. n <= L + 1 /\ (h + (L - n)) + 1 = h + ((L + 1) - n)
    BY <1>1
  <2> QED BY <1>1, <1>2, <1>3, <2>1
<1> QED BY <1>4, <1>5 DEF QueueHolds, r

\* The queues in every step.
LEMMA QueueStep ==
  ASSUME TypeOK, QueueInv, [Next]_vars
  PROVE  QueueInv'
<1>1. \A t \in Transport : c[t] \in Context /\ QueueHolds(c[t])
  BY DEF TypeOK, QueueInv
<1>2. ASSUME NEW t \in Transport, NEW k, c' = [c EXCEPT ![t] = k], QueueHolds(k)
      PROVE  QueueInv'
  <2>1. \A u \in Transport : c'[u] = IF u = t THEN k ELSE c[u]
    BY <1>2 DEF TypeOK
  <2> QED BY <1>1, <1>2, <2>1 DEF QueueInv
<1>3. ASSUME c' = c PROVE QueueInv'
  BY <1>3 DEF QueueInv
<1>4. ASSUME NEW t \in Transport, Connect(t) PROVE QueueInv'
  <2> DEFINE k == [c[t] EXCEPT !.memory = "live"]
  <2>1. c' = [c EXCEPT ![t] = k]
    BY <1>4 DEF Connect
  <2>2. /\ k.queue = c[t].queue /\ k.next = c[t].next /\ k.last = c[t].last
        /\ k.processed = c[t].processed /\ k.handed = c[t].handed
    BY <1>1 DEF Context
  <2> HIDE DEF k
  <2>3. QueueHolds(k)
    BY <1>1, <2>2 DEF QueueHolds
  <2> QED BY <1>2, <2>1, <2>3
<1>5. ASSUME NEW t \in Transport, Cleanup(t) PROVE QueueInv'
  <2> DEFINE k == [Unused EXCEPT !.memory = "freed"]
  <2>1. c' = [c EXCEPT ![t] = k]
    BY <1>5 DEF Cleanup
  <2>2. QueueHolds(k)
    BY DEF Unused, QueueHolds
  <2> QED BY <1>2, <2>1, <2>2
<1>6. ASSUME NEW t \in Transport, Recv(t) PROVE QueueInv'
  <2> DEFINE k == IF c[t].next < Len(c[t].queue)
                  THEN [c[t] EXCEPT !.last = c[t].queue[c[t].next + 1],
                                    !.queue[c[t].next + 1] = None,
                                    !.next = c[t].next + 1, !.handed = c[t].handed + 1]
                  ELSE EmptyQueue(c[t])
  <2>1. c' = [c EXCEPT ![t] = k]
    BY <1>6 DEF Recv
  <2>2. QueueHolds(k)
    BY <1>1, RecvQueue
  <2> QED BY <1>2, <2>1, <2>2
<1>7. ASSUME NEW j \in jobs, RunValue(j) PROVE QueueInv'
  <2> DEFINE t == j.of
             k == [c[t] EXCEPT !.processed = @ + 1, !.queue = Append(@, c[t].processed + 1)]
  <2>1. t \in Transport
    BY DEF TypeOK, JobType
  <2>2. c' = c \/ c' = [c EXCEPT ![t] = k]
    BY <1>1, <1>7, <2>1 DEF RunValue, Context
  <2>3. QueueHolds(k)
    BY <1>1, <2>1, ProcessQueue
  <2> HIDE DEF t, k
  <2> QED BY <1>2, <1>3, <2>1, <2>2, <2>3
<1>8. ASSUME NEW j \in jobs, RunJob(j), ~ RunValue(j) PROVE c' = c
  BY <1>8 DEF RunJob, RunReady, RunFailed, RunReadFailed, RunFinally, RunClosed,
     RunSent, RunSendFailed
<1>9. ASSUME NEW t \in Transport,
             \/ Send(t) \/ Settles(t) \/ Arrives(t) \/ SessionEnds(t) \/ CancelSettles(t)
      PROVE  c' = c
  BY <1>9 DEF Send, Settles, Arrives, SessionEnds, CancelSettles
<1>10. ASSUME NEW w \in writes, WriteSettles(w) PROVE c' = c
  BY <1>10 DEF WriteSettles
<1> QED BY <1>3, <1>4, <1>5, <1>6, <1>7, <1>8, <1>9, <1>10 DEF Next, Jobs, vars

\* snet_transport_recv hands messages over in the order they were processed,
\* each once and none skipped, whenever its calls and the arrivals happen, and
\* the last one stays as it was until the next call.
THEOREM TransportRecvInOrder == Spec => []RecvInOrder
<1>1. Init => QueueInv
  BY DEF Init, QueueInv, QueueHolds, Unused
<1>2. IInv /\ QueueInv /\ [Next]_vars => QueueInv'
  BY QueueStep DEF IInv
<1>3. IInv /\ QueueInv => RecvInOrder
  <2> SUFFICES ASSUME IInv, QueueInv PROVE RecvInOrder
    OBVIOUS
  <2>1. ASSUME NEW t \in Transport
        PROVE  /\ c[t].last # None => c[t].last = c[t].handed
               /\ SubSeq(c[t].queue, c[t].next + 1, Len(c[t].queue))
                    = [i \in 1 .. c[t].processed - c[t].handed |-> c[t].handed + i]
    <3>1. c[t] \in Context /\ QueueHolds(c[t])
      BY DEF IInv, TypeOK, QueueInv
    <3> QED BY <3>1, QueueInOrder DEF QueueHolds
  <2> QED BY <2>1 DEF RecvInOrder
<1> QED BY <1>1, <1>2, <1>3, InitHolds, IInvStep, PTL DEF Spec
=============================================================================
