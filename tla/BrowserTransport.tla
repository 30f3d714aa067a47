--------------------------- MODULE BrowserTransport ---------------------------
(***************************************************************************)
(* The transport of the browser build: the C half of slopnet_transport.c   *)
(* over slopnet_transport.js.  A transport is C memory (the context) and a *)
(* JavaScript object that outlives it, whose asynchronous function         *)
(* connects and then reads datagrams into that memory.                     *)
(*                                                                         *)
(* JavaScript runs one thing at a time: C code, a timer or an event of the *)
(* network starts only when no continuation of a promise ("job") is left   *)
(* to run.  Jobs that are ready together are run in any order.  The        *)
(* network, the browser's WebTransport and the application are external.   *)
(***************************************************************************)
EXTENDS Integers, Sequences, FiniteSets, FiniteSetsExt

CONSTANTS Transport,     \* transports the application may open, each once
          Urls,          \* addresses of the server that are tried in turn
          MaxDatagrams,  \* bound on datagrams received by the transports in use
          MaxSends       \* bound on writes of a transport under way

ASSUME BrowserAssumption ==
  /\ {Urls, MaxDatagrams} \subseteq Nat /\ MaxSends \in Nat \ {0}
  /\ IsFiniteSet(Transport)

VARIABLES c,        \* c[t]: the C half
          js,       \* js[t]: the object of slopnet_transport.js
          jobs,     \* continuations ready to run
          pool,     \* bufferPool
          writes,   \* datagrams being sent, and the buffers they lie in
          touched,  \* transports whose memory was used after it was freed
          early     \* transports disconnected while they were connecting

vars == <<c, js, jobs, pool, writes, touched, early>>

None == 0

\* Buffers have numbers; one that nobody refers to is collected.
InUse == {w.buffer : w \in writes}
           \cup ({js[t].reading : t \in Transport} \ {None})
Pooled == {pool[i] : i \in DOMAIN pool}

NewBuffer == CHOOSE b \in 1 .. Cardinality(InUse) + 1 : b \notin InUse

\* acquireReadBuffer, acquireSendBuffer: the buffer, and the pool without it.
Acquired == IF pool = <<>> THEN NewBuffer ELSE pool[Len(pool)]

\* Mutant of PoolWithout: the buffer stays in the pool.
PoolKept == pool

PoolWithout == IF pool = <<>> THEN <<>> ELSE SubSeq(pool, 1, Len(pool) - 1)

Job(t, kind, buffer) == [of |-> t, kind |-> kind, buffer |-> buffer]

Idle == jobs = {}

Unused == [memory |-> "unused", queue |-> <<>>, next |-> 0, last |-> None,
           processed |-> 0, handed |-> 0]

Init ==
  /\ c = [t \in Transport |-> Unused]
  /\ js = [t \in Transport |->
            [state |-> 0, handle |-> FALSE, place |-> "none", urls |-> Urls,
             session |-> "none", closable |-> FALSE,
             timer |-> FALSE, reading |-> None]]
  /\ jobs = {} /\ pool = <<>> /\ writes = {}
  /\ touched = {} /\ early = {}

-----------------------------------------------------------------------------
\* Steps of the asynchronous function, on the record of its transport.

\* The next address is tried, or none is left.  A configuration or an
\* address the browser does not accept throws.
Tries(o) ==
  IF o.urls = 0 THEN {[o EXCEPT !.place = "ending", !.state = 0]}
  ELSE {[o EXCEPT !.place = "connecting", !.urls = @ - 1, !.session = "connecting"],
        [o EXCEPT !.place = "throwing"]}

JobsAfter(t, o) ==
  IF o.place \in {"ending", "throwing"} THEN {Job(t, "finally", None)} ELSE {}

\* Mutant of Closed: the session is left open.
ClosedLocally(o) == IF o.closable THEN [o EXCEPT !.timer = FALSE, !.state = 0] ELSE o

\* Mutant of Closed: the state stays what it was.
ClosedQuietly(o) ==
  IF ~ o.closable THEN o
  ELSE [o EXCEPT !.timer = FALSE,
                 !.session = IF o.state = 2 /\ @ = "open" THEN "closing" ELSE @]

\* transport.close(), which does nothing before the session is open.
Closed(o) ==
  IF ~ o.closable THEN o
  ELSE [o EXCEPT !.timer = FALSE,
                 !.session = IF o.state = 2 /\ @ = "open" THEN "closing" ELSE @,
                 !.state = 0]

\* Mutant of Rejected: the abort goes unheard.
RejectedNot(t, o) == {}

\* The abort rejects the promise that the pending read is raced with.
Rejected(t, o) ==
  IF o.closable /\ o.place = "reading"
  THEN {Job(t, "readFailed", None)} ELSE {}

-----------------------------------------------------------------------------
\* C code, called by the session.

Connect(t) ==
  /\ Idle /\ c[t].memory = "unused"
  /\ c' = [c EXCEPT ![t].memory = "live"]
  /\ \E o \in Tries([js[t] EXCEPT !.state = 1, !.handle = TRUE]) :
       js' = [js EXCEPT ![t] = o] /\ jobs' = JobsAfter(t, o)
  /\ UNCHANGED <<pool, writes, touched, early>>

\* snet_transport_cleanup: disconnect, then free everything.
Cleanup(t) ==
  /\ Idle /\ c[t].memory = "live"
  /\ c' = [c EXCEPT ![t] = [Unused EXCEPT !.memory = "freed"]]
  /\ js' = [js EXCEPT ![t] = [Closed(@) EXCEPT !.handle = FALSE]]
  /\ jobs' = Rejected(t, js[t])
  /\ early' = IF js[t].place = "connecting" THEN early \cup {t} ELSE early
  /\ UNCHANGED <<pool, writes, touched>>

\* Mutant of EmptyQueue: the place in the queue is kept when it is cleared.
EmptyQueueKeepingNext(k) == [k EXCEPT !.last = None, !.queue = <<>>]

\* The end of the queue was reached: it is filled from the front again.
EmptyQueue(k) == [k EXCEPT !.last = None, !.queue = <<>>, !.next = 0]

Recv(t) ==
  LET k == c[t]
  IN  /\ Idle /\ k.memory = "live"
      /\ c' = [c EXCEPT ![t] =
           IF k.next < Len(k.queue)
           THEN [k EXCEPT !.last = k.queue[k.next + 1], !.queue[k.next + 1] = None,
                          !.next = k.next + 1, !.handed = k.handed + 1]
           ELSE EmptyQueue(k)]
      /\ UNCHANGED <<js, jobs, pool, writes, touched, early>>

\* A datagram is copied and its write begun, if the transport is connected.
Send(t) ==
  /\ Idle /\ c[t].memory = "live" /\ js[t].handle /\ js[t].state = 2
  /\ Cardinality({w \in writes : w.of = t}) < MaxSends
  /\ writes' = writes \cup {[of |-> t, buffer |-> Acquired]}
  /\ pool' = PoolWithout
  /\ UNCHANGED <<c, js, jobs, touched, early>>

-----------------------------------------------------------------------------
\* Events of the browser.

\* The attempt to connect succeeds or fails.
Settles(t) ==
  /\ Idle /\ js[t].session = "connecting"
  /\ \E good \in BOOLEAN :
       /\ js' = [js EXCEPT ![t].session = IF good THEN "open" ELSE "closed"]
       /\ jobs' = {Job(t, IF good THEN "ready" ELSE "failed", None)}
  /\ UNCHANGED <<c, pool, writes, touched, early>>

\* A datagram arrives at the pending read, whose buffer it takes with it; one
\* that was received before the session was closed may still do so.
Arrives(t) ==
  /\ Idle /\ js[t].session \in {"open", "closing"} /\ js[t].reading # None
  /\ MapThenSumSet(LAMBDA u : c[u].processed, Transport) < MaxDatagrams
  /\ jobs' = {Job(t, "value", js[t].reading)}
  /\ UNCHANGED <<c, js, pool, writes, touched, early>>

\* The session ends, at the peer's wish, by an error, or as it was closed:
\* the pending read ends with it.
SessionEnds(t) ==
  /\ Idle /\ js[t].session \in {"open", "closing"}
  /\ js' = [js EXCEPT ![t].session = "closed"]
  /\ jobs' = {Job(t, "closed", None)} \cup Rejected(t, js[t])
  /\ UNCHANGED <<c, pool, writes, touched, early>>

\* A write succeeds, or fails.
WriteSettles(w) ==
  /\ Idle
  /\ \E kind \in {"sent", "sendFailed"} :
       /\ kind = "sent" => js[w.of].session = "open"
       /\ jobs' = {Job(w.of, kind, w.buffer)}
  /\ UNCHANGED <<c, js, pool, writes, touched, early>>

\* reader.cancel() settles.
CancelSettles(t) ==
  /\ Idle /\ js[t].place = "cancelling"
  /\ js' = [js EXCEPT ![t].place = "ending", ![t].state = 0]
  /\ jobs' = {Job(t, "finally", None)}
  /\ UNCHANGED <<c, pool, writes, touched, early>>

-----------------------------------------------------------------------------
\* Jobs.

Done(j, added) == jobs' = (jobs \ {j}) \cup added

\* The connection stands: the loop begins to read.  A browser without byte
\* readers for datagrams throws.
RunReady(j) ==
  LET t == j.of
      open == [js[t] EXCEPT !.state = 2, !.closable = TRUE, !.timer = TRUE, !.urls = 0]
  IN  /\ j.kind = "ready"
      /\ \/ /\ js' = [js EXCEPT ![t] = [open EXCEPT !.place = "reading",
                                                     !.reading = Acquired]]
            /\ pool' = PoolWithout
            /\ Done(j, {})
         \/ /\ js' = [js EXCEPT ![t] = [open EXCEPT !.place = "throwing"]]
            /\ Done(j, {Job(t, "finally", None)})
            /\ UNCHANGED pool
      /\ UNCHANGED <<c, writes, touched, early>>

RunFailed(j) ==
  /\ j.kind = "failed"
  /\ \E o \in Tries(js[j.of]) :
       js' = [js EXCEPT ![j.of] = o] /\ Done(j, JobsAfter(j.of, o))
  /\ UNCHANGED <<c, pool, writes, touched, early>>

\* A datagram is copied to recvBuf and processed, and its buffer goes back
\* to the pool, from which the next read takes it.
RunValue(j) ==
  LET t == j.of
  IN  /\ j.kind = "value"
      /\ IF c[t].memory = "live"
         THEN /\ c' = [c EXCEPT ![t].processed = @ + 1,
                                ![t].queue = Append(@, c[t].processed + 1)]
              /\ UNCHANGED touched
         ELSE touched' = touched \cup {t} /\ UNCHANGED c
      /\ js' = [js EXCEPT ![t].reading = j.buffer]
      /\ Done(j, {})
      /\ UNCHANGED <<pool, writes, early>>

\* The race is lost to the abort, or the read is over: the loop ends.
RunReadFailed(j) ==
  /\ j.kind = "readFailed"
  /\ js' = [js EXCEPT ![j.of].place = "cancelling", ![j.of].reading = None]
  /\ Done(j, {})
  /\ UNCHANGED <<c, pool, writes, touched, early>>

\* start() is over: finally, the transport is closed.
RunFinally(j) ==
  /\ j.kind = "finally"
  /\ js' = [js EXCEPT ![j.of] = [Closed(@) EXCEPT !.state = 0, !.urls = 0, !.place = "done"]]
  /\ Done(j, {})
  /\ UNCHANGED <<c, pool, writes, touched, early>>

RunClosed(j) ==
  /\ j.kind = "closed"
  /\ js' = [js EXCEPT ![j.of] = Closed([@ EXCEPT !.state = 0])]
  /\ Done(j, Rejected(j.of, js[j.of]))
  /\ UNCHANGED <<c, pool, writes, touched, early>>

RunSent(j) ==
  /\ j.kind = "sent"
  /\ pool' = Append(pool, j.buffer)
  /\ writes' = writes \ {[of |-> j.of, buffer |-> j.buffer]}
  /\ Done(j, {})
  /\ UNCHANGED <<c, js, touched, early>>

\* A write that failed closes the transport; its buffer is not kept.
RunSendFailed(j) ==
  /\ j.kind = "sendFailed"
  /\ writes' = writes \ {[of |-> j.of, buffer |-> j.buffer]}
  /\ js' = [js EXCEPT ![j.of] = Closed(@)]
  /\ Done(j, Rejected(j.of, js[j.of]))
  /\ UNCHANGED <<c, pool, touched, early>>

RunJob(j) == \/ RunReady(j) \/ RunFailed(j) \/ RunValue(j) \/ RunReadFailed(j)
             \/ RunFinally(j) \/ RunClosed(j) \/ RunSent(j) \/ RunSendFailed(j)

Jobs == \E j \in jobs : RunJob(j)

Next ==
  \/ Jobs
  \/ \E t \in Transport : \/ Connect(t) \/ Cleanup(t) \/ Recv(t) \/ Send(t)
                          \/ Settles(t) \/ Arrives(t) \/ SessionEnds(t)
                          \/ CancelSettles(t)
  \/ \E w \in writes : WriteSettles(w)

\* Jobs are run; a session that was closed ends, and a cancelled reader
\* settles, in some turn of the browser's event loop.  Nothing obliges the
\* application, the peer or the network.
Fairness ==
  /\ WF_vars(Jobs)
  /\ \A t \in Transport :
       /\ SF_vars(js[t].session = "closing" /\ SessionEnds(t))
       /\ SF_vars(CancelSettles(t))

Spec == Init /\ [][Next]_vars /\ Fairness

-----------------------------------------------------------------------------

\* No datagram is written to a transport's memory after it was freed,
\* except where the transport was disconnected while it was connecting:
\* close() does nothing then, and the connection is made all the same
\* (slopnet_transport.js connect, disconnect, start).
NoUseAfterFree == touched \subseteq early

\* Whenever C code runs, a transport that says it is connected has an open
\* session, its keep-alive timer and a read under way, and one that says it
\* is connecting will still hear of it (snet_transport_impl_state).
StateHonest ==
  Idle => \A t \in Transport :
    /\ js[t].state = 2 => /\ js[t].session = "open" /\ js[t].timer
                          /\ js[t].place = "reading" /\ js[t].reading # None
    /\ js[t].state = 1 => js[t].session = "connecting"

\* Messages are handed over in the order they were processed, each once and
\* none skipped, through a queue that is emptied only when its end was
\* reached; the last one stays valid until the next call
\* (snet_transport_recv).
RecvInOrder ==
  \A t \in Transport : c[t].memory = "live" =>
    /\ c[t].last # None => c[t].last = c[t].handed
    /\ SubSeq(c[t].queue, c[t].next + 1, Len(c[t].queue))
         = [i \in 1 .. c[t].processed - c[t].handed |-> c[t].handed + i]

\* A buffer that a write or a read is using is not in the pool, from which
\* it would be taken a second time, and no two of them share one
\* (acquireSendBuffer, acquireReadBuffer, releaseBuffer).
BufferUnshared ==
  /\ \A i, k \in DOMAIN pool : i # k => pool[i] # pool[k]
  /\ Pooled \cap InUse = {}
  /\ \A v, w \in writes : v # w => v.buffer # w.buffer
  /\ \A w \in writes, t \in Transport : w.buffer # js[t].reading
  /\ \A t, u \in Transport :
       t # u /\ js[t].reading # None => js[t].reading # js[u].reading

\* What a cleaned up transport leaves in JavaScript goes away: the session
\* is closed, the timer stopped and the reading function over
\* (transport.close).
WindsDown ==
  \A t \in Transport :
    c[t].memory = "freed" /\ t \notin early ~>
      /\ js[t].session \in {"none", "closed"}
      /\ ~ js[t].timer /\ js[t].place = "done"
=============================================================================
