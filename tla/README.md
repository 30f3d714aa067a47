# A verification project for slopnet

slopnet is a small C library for the client side of an online game: logging in
to a lobby server, creating, listing and joining games there, and exchanging
reliable and unreliable messages with the game's host. This directory holds TLA+
models of it, TLC configurations that check them, and proofs checked by TLAPS.
All source paths are relative to the repository's root (`src/slopnet.c` is the
library's main file).

## 1. Inventory

| component | source | state it keeps | operations | where it is modelled |
|---|---|---|---|---|
| client session | `src/slopnet.c`, `include/slopnet.h` | `auth_state`, `lobby_state`, `cookie_buf`, `transport`, `current_event` | the `snet_*` API | `Client` |
| task runtime | `src/slopnet.c:34-180` | per task: coroutine, `cancelled`, `result`, arena | begin, end, process, reap, post | `Client`; its arena and env: `Arena` |
| fetch | `src/slopnet_fetch.c` | one request | begin, process, response, end | environment of `Client` |
| itch.io login page | `src/slopnet_oauth.c`, `.js` | `state`, `data` | begin, update, data, end | `NativeLogin`, `BrowserLogin`; environment of `Client` |
| web server | `src/wby.h` | table of connections, request buffers | start, update, stop | `NativeLogin` (what the login uses) |
| native transport | `src/slopnet_transport.c:1-86` | a `CF_Client`, `last_packet` | init, update, state, recv, send, cleanup | `conn` and `inbox` of `Client` |
| browser transport | `src/slopnet_transport.c:87-242`, `.js` | queue of messages; a handle, its state, the send function | the same, and `start`, `close` | `BrowserTransport`; `conn` and `inbox` of `Client` |
| web transport reliability | `src/slopnet_webtransport.c` | window of unacknowledged messages, 64 slots of early ones, two 7 bit headers | send, process, process_incoming, update | `WebTransport` |
| reliable endpoint | `src/reliable/reliable.c:503-1320` | packet number, sent, received and reassembly buffers, acks | send_packet, receive_packet, get/clear acks | `WebTransport` (regular packets), `Reassembly` (fragments) |
| sequence buffer | `src/reliable/reliable.c:125-375` | a ring indexed by a wrapping number | insert, advance, remove, exists, ack bits | `SequenceBuffer`, `SequenceWindow` |
| packet header codec | `src/reliable/reliable.c:684-1070` | none | write, read, of a packet and of a fragment | `PacketHeader`, `AckHeader` |
| fragmentation | `src/reliable/reliable.c:802-860`, `1193-1293` | 64 packets in reassembly, a block of memory each | divide, store, complete, evict | `Reassembly` |
| arena allocator | `src/barena.h` | chunks, a pool's free list | memalign, snapshot, restore, reset | `Arena` (what its reuse of memory does to events: `SampleApp`) |
| sample application | `sample/main.c` | list of games, frame | frame loop, event loop, buttons | `SampleApp` |
| statistics, tests of reliable, build files | | | | not modelled: see section 8 |

How they interact. The application calls the session on one thread. Every call
that takes time is a coroutine (a *task*), at most one of each of the four kinds;
calling it again cancels the running one by resuming it until it is dead.
`snet_update` resumes each task once, and `snet_next_event` gives the application
the results, in a fixed order of tasks, then the messages of the transport, then
its disconnection. The join task owns a transport until it is connected and then
hands it to the session. In the browser the transport runs
`slopnet_webtransport.c`, which sends each message as a packet of the reliable
endpoint; the endpoint calls it back for each packet received, and it asks the
endpoint which of its packets were acknowledged.

Where it is hard, and what correctness means there:

* **Session.** Calls overlap and cancel one another; `lobby_state` is a single
  variable assigned by two tasks; the transport changes owner and is released in
  five places; what an event points to lives in the arena of the task that posted
  it. Correct: no state that only a task leaves outlives the task; no released
  transport is pointed to, none leaks; answers are current when read; messages
  are handed over before a disconnection; every request is answered.
* **Reliability.** Datagrams are lost, late, reordered, and sent again with the
  packet number they had first. Numbers wrap (16 bits for packets, 7 for
  messages), rings are smaller than the numbers, acks cover 32 packets.
  Correct: reliable messages come out in order, none missing, none twice;
  the sender gives up a message only when it was processed.
* **Sequence buffer and header.** Wrapping arithmetic at every boundary, fields that
  are left out or shortened when their value allows it, and, for a fragmented packet, a
  header that is not kept but written anew. Correct: the buffer answers as an unbounded
  window would, and the peer reads what was written.
* **Arena.** Chunks move between the arenas and a shared pool; a snapshot points into
  a chunk that may have been given back; the env is written beyond what was asked
  for. Correct: what is in use never overlaps, and every chunk is in one place.
* **Browser transport.** C memory that is freed while an asynchronous function still
  reads into it; a session that may end in every state, from either side; buffers that
  belong to the pool, a read or a write. Correct: nothing is written to freed
  memory, the reported state is true, datagrams are handed over in order, and
  what was cleaned up winds down.
* **Login page.** A web server on a table of connections that is compacted while requests
  arrive in pieces; in the browser one listener for the pages of all logins. Correct: an
  answer comes from one request of this login, every whole request is answered or its
  connection closed, and none is left open.

`PROJECT.json` lists each hazard at its line with the properties that cover it,
or why none does yet.

## 2. The modules

**`SequenceBuffer`** is the ring of `reliable.c` as operators on a record
`[sequence, entry]`: `GreaterThan`, `LessThan`, `TestInsert`, `Advance`, `Insert`,
`Remove`, `Exists` and `AckSet`, named after the functions. The modulus `SeqMod`
(65536) is a constant so that small instances wrap. `AckSet` is `ack` and `ack_bits`
together, as the set of packet numbers they name.

**`SequenceWindow`** drives one buffer with the packets of a long connection:
`Enter` (insert), `Skip` (advance, what a first fragment does to the received
window) and `Forget` (remove). It keeps `top`, the unbounded number the code does
not have, and refines **`IdealWindow`**, a set of unbounded numbers with no slots
and no wrap, whose `call` variable makes the answers comparable. `Ahead` and
`Behind` bound how far from the newest number a packet may be: the distance at
which 16-bit comparison can still tell before from after (`WindowAssumption`).

**`PacketHeader`** is the codec: a datagram is the sequence of its bytes, whose number of
values `ByteMod` (256) and of bits `ByteBits` (8) are constants; the first byte and the four
bytes of ack bits are the sets of their bits, since the code shifts and masks them only. `PacketHeader` writes and `ReadPacketHeader` reads
the header of a packet, with the ack as a distance where that fits a byte and the full
bytes of ack bits left out; `FragmentsOf`, `ReadFragment`, `RewrittenHeader`, `StoredBytes` and
`Reassembled` take a packet apart and put it together byte by byte. **`AckHeader`** extends
`SequenceWindow` with it: the packets that the endpoint could send in each state of
its received window, so that the acks in a header are the ones the code computes there.

**`WebTransport`** composes two peers, each `slopnet_webtransport.c` over an endpoint
of `reliable.c`, over a network `net` of datagrams that are received in any
order, late, or never; a copy exists exactly where the code sends one. `SendReliable`
and `SendUnreliable` are the two halves of `snet_wt_send`, `Update` is
`snet_wt_update` with its retransmissions, `Receive` is `snet_wt_process_incoming`
with everything it calls: `ReceivePacket` (stale packets, processing, entering
the number, acks), `Process` (`DeliverInOrder` with the loop over queued messages,
`Queue`) and `StillOutgoing` (matching acks to messages). A reliable message's
payload is its place in the sender's stream; the code sees only `header`, its value
modulo `RelMod`. Five variables are history: `submitted`, `unreliable`,
`delivered`, `seen` and `disturbed`. A message is one datagram here (fragments are in
`Reassembly`), and sends from inside the delivery callback are left out:
`slopnet_transport.c` does not make them.

**`Reassembly`** is the receiving half of the endpoint with fragments: the received and
the reassembly buffer (two `SequenceBuffer`s), `data`, what each reassembly entry
holds, and `memory`, the blocks that are allocated and what was written to them.
A datagram is `Regular(s)`, or a fragment that opens an entry (`FirstFragment`), adds to
it (`LaterFragment`), completes it (`LastFragment`, with the recursive call that receives
the whole packet and the entry given back) or is `Ignored`. `Evicted` and `Displaced` are the
slots that `_advance_with_cleanup` and `_insert_with_cleanup` clean up. Any
fragment of any packet within reach of the newest may come at any step, so
loss, repetition and every order are covered. `top` and `whole` are history.

**`Arena`** is `barena.h` with what `slopnet.c` does with it. `chunk`, `held` and `free` are the
chunks, each task's list of them and the pool; sizes are in words. `Memalign`, `Malloc`,
`Restored` and `Reset` are the functions; `Begin`, `Allocate`, `AllocateAligned`, `Snapshot`,
`Restore`, `End` and `Cleanup` their uses. `live` is history: what the callers hold. The env
of a task is allocated with `EnvAsked` words (`sizeof(arg_size)`) and written with `EnvWords`, of
which `EnvKept` are read while the task runs. `EnvAssumption` is what the source makes true of these sizes: the
argument and the env, written whole, fit into one page (an argument is a few pointers and lengths, a page of the system 4096 bytes or more),
the env is no smaller than what is asked for it, and what is read of it later lies within `EnvAsked` rounded up to the alignment
(16 bytes with gcc and clang; MSVC's `double` is aligned to 8, which keeps `self` only, and `snet` is then safe because it is read once, before
the task allocates: that build is not in the model). `slopnet.c` does not call `barena_snapshot` and `barena_restore`: what is shown of them is
for callers to come. The system's page allocator never fails.

**`BrowserTransport`** is the transport of the browser build. `c[t]` is the C half, `js[t]` the
object of `slopnet_transport.js`, whose `place` is where its asynchronous function waits; `jobs`
are the promise continuations that are ready. C code, timers and events of the network
start only when no job is left (`Idle`), as in a browser; jobs that are ready together run
in any order, which covers the order the standard gives them. The browser's own promises
(`Settles`, `Arrives`, `SessionEnds`, `WriteSettles`) are external and settle either way.
`touched` and `early` are history.

**`NativeLogin`** is `slopnet_oauth.c` over the web server of `wby.h`. `wby_update` is divided into
`Select`, `Accept`, `AcceptEnds`, `Serve` (one connection), `Compact` (closes one dead connection and moves up
those behind it) and `UpdateEnds`, between which the browser may act. Requests come in two halves, so that one may be incomplete when it
is read; `memory` is the first half that a request buffer holds. A request is of one of seven kinds (`Kind`): the callback
with success 1 or 0, with data but no success (`partial`), without data (`blank`: `wby_find_query_var` clears the first byte of `data_buf` before it looks,
and `data_size` stays; data of 1024 bytes or more, which it refuses too, does not fit the request buffer), with no parameter at all (`bare`: `strlen` of a null pointer,
which ends the program), another address, and one that is refused, being larger than the buffer or rejected by `wby_connection_setup_request`.
`login.data` is what last wrote to `data_buf`; data of no bytes at all, which `snet_oauth_data` takes for none, is not told from other data. `wby_on_incoming`
keeps the buffer pointer of the slot it reuses, and compaction leaves copies of slots behind:
two connections may get one buffer (`shared`). Where the server could not be started,
`select` is called on an invalid socket, which is undefined: the build may trap.
**`BrowserLogin`** is `slopnet_oauth.js`: pages, one listener, and logins that follow one another.
**`MCLogin`** puts the two side by side, as two builds of which a run has one.

**`Client`** is the session. `coro` and `result` are the four tasks; `turn` is where
`snet_update` is, so the network may act between two tasks as it does in the native
build; `joining` is the local variable of the join task that owns a transport;
`conn` and `inbox` are each transport's state and unread messages. One action
per API call: it cancels the running task of its kind, starts it and runs it to
its first yield, or to its end if the request fails at once. `Resume(t)` and
`Waiting(t)` are what `snet_task_process` does to task t; `Reap`, `DeliverMessage`,
`ReportDisconnect` and `NoMoreEvents` are the four exits of `snet_next_event`.
The itch.io login copies its argument from a null pointer, which is undefined:
a build may trap (`status = "trapped"`) or not. `TokensUsable` says whether login
tokens are non-empty and fit `cookie_buf`.

**`SampleApp`** extends `Client` with `sample/main.c`: `step` is the place in the frame,
and a button can be pressed only in the states in which the interface draws it.
`games` and `token` record whose arena the list of games and the join request's
token are in, and become `"reused"` if that task begins again while they are in use.
It implements **`GameSession`**, what an application may rely on hearing: an answer to
every join, messages only inside a session, one disconnection at its end.

**`MCWebTransport`**, **`MCReassembly`**, **`MCClient`**, **`MCSampleApp`**, **`MCArena`** give the constants their values.
Eight modules hold theorems. **`SampleAppProofs`** is about `Client` and, in its second half, `SampleApp`;
**`AckHeaderProofs`** about `SequenceWindow`, `PacketHeader` and `AckHeader`; **`LoginProofs`** about `MCLogin` with both builds;
**`ReassemblyProofs`**, **`WebTransportProofs`**, **`BrowserTransportProofs`** and **`ArenaProofs`** about the module they are named after.
**`SequenceBufferProofs`** has the lemmas about wrapping numbers and the ring that three of them use.

## 3. The runs

| run | states | what it checks and shows |
|---|---|---|
| `sequence_window` | ~10 k | `NoLeftover`, `AcksExactly`, and `RefinesIdeal`: the ring over numbers that wrap is the unbounded window; `HeaderReadBack`, `FragmentsReadBack`: the peer reads the header and the packet that were sent, whole or in fragments |
| `stream` | ~61 k | `StreamIntact`, `NothingDropped` for five reliable messages one way, the answers carrying acks |
| `duplex` | ~840 k | `GivenUpOnlyIfSeen`, `NoAckMissed` with reliable messages both ways |
| `reassembly` | ~47 k | `BlocksOwned`, `WholePackets`, `NeverCompletedInVain`, `AckedOnlyIfWhole`, `KeptWhileYoung`: fragments and regular packets, with eviction |
| `client` | ~1.3 M | `NoStuckState`, `NoDanglingTransport`, `AuthorizedWithToken`, `LoginAnswerIsCurrent`, `NoMessageLost` under calls in any order |
| `sample_app` | ~15 k | `OneLobbyCall`, `NoTransportLeak`, `NoReusedMemory`, `SessionOrder` (refinement of `GameSession`), `Answered` (liveness) |
| `arena` | ~158 k | `LiveDisjoint`, `ChunkOwnedOnce`, `EnvIntact`: two tasks on one pool |
| `browser_transport` | ~194 k | `NoUseAfterFree`, `StateHonest`, `RecvInOrder`, `BufferUnshared`, and `WindsDown` (liveness): two transports opened and cleaned up while promises settle |
| `login` | ~1.6 M | `SocketsOwned`, `AnswerHasOneSource`, and `RequestsAnswered` (liveness): the login page of either build, with requests of every kind |
| `redundant` | | violates `RedundantIsHarmless` |
| `late_ack` | | violates `ProcessedIsAcked` |
| `exit_game` | | violates `JoinedHasTransport` |

The three violations are disagreements between the code and what it says:

* `redundant`: a copy of a message that was delivered already is stored, by
  the branch commented "Not yet stored, could be a redundant retransmission"
  (`src/slopnet_webtransport.c:120`). The slot belongs to the message `num_slots` further
  on, which is dropped on arrival although it is acknowledged, and the old
  payload is delivered in its place. The properties that hold are therefore
  stated as long as no such copy was taken in (`disturbed`); `GivenUpOnlyIfSeen` and
  `NoAckMissed` need no such proviso.
* `late_ack`: the comment "Should ack" (`src/slopnet_webtransport.c:129`) holds only for
  packets among the 32 newest numbers.
* `exit_game`: `snet_exit_game` leaves `lobby_state` at `SNET_JOINED_GAME`, which the sample
  shows as "In game" (`sample/main.c:181-182`).

Where the code does not keep what it would be natural to expect of it, and nothing in the
repository says that it does, the property is stated with an exception, named and
visible in its formula:

* `early`: a browser transport that is disconnected while it is connecting. `close` does
  nothing then, so the connection is made all the same, stays open, and its datagrams go
  to the freed context. `NoUseAfterFree` and `WindsDown` hold of all the others.
* `shared`: two connections of the login's web server with one request buffer
  (`src/wby.h:1995` copies the last slot, buffer pointer and all). Their requests may be mixed up
  or refused.
* `"refused"`, in `RequestsAnswered`: a request that is too large for the buffer of 1024 bytes, or that
  `wby_connection_setup_request` rejects, is not answered. Its connection is closed, which is
  what the property says of it; a callback so refused leaves the login pending.
* A callback with data but no `success` replaces the data and leaves the outcome, and one without
  data clears the data's first byte and leaves the rest, its size and the outcome
  (`src/slopnet_oauth.c:50-72`, `src/wby.h:750`): served after a good one in the same update, they spoil its
  data (the kinds `"partial"` and `"blank"`).
* `cancelled`: a cancelled browser login leaves its page open and the listener registered;
  the page's answer is then taken for the next login's.

`EnvIntact` holds although the env is allocated too small: every field that is written
beyond its end and could be overwritten is read before the task allocates,
and the alignment of `barena_malloc` keeps the others apart.

### Bounds and why they are enough

* `AckHeader.cfg`: numbers modulo 16, 4 slots, numbers up to 26. The numbers
  turn over once and go on past the ring, so every slot is reused before and after
  the wrap, and ranges that cross it are cleared. Packets come up to 3 ahead
  and 8 behind, so both stale and live numbers are offered. Bytes have 4 values and one
  ack bit each, so that each of the four is left out or written; the packets sent have the
  numbers 0, 3 and 15, whose distance to the ack is on both sides of a byte; payloads of 4
  and 5 bytes in fragments of 2 make a full and a partial last fragment of 2 or 3.
* `Stream.cfg`: a window of 2 and 4 slots, headers modulo 4, 5 messages: the header
  wraps, each slot can be reused, and the window fills. Two ticks of
  `snet_wt_update` with `ResendDelay` 1 give every message up to two copies. Acks cover 2
  packets and the buffers hold 4, so acks fall off the header and packets go
  stale. `disturbed` is set in part of the states only (run `redundant` needs one), and
  the mutants break both properties in states in which it is not.
* `Duplex.cfg`: 3 and 2 reliable messages and an unreliable one, one tick each.
* `Reassembly.cfg`: numbers modulo 16 up to 20, 4 received and 2 reassembly entries, packets
  of one, two and three fragments (full and partial last ones): entries are
  reused, evicted and refused, and the numbers wrap with packets half received.
* `Arena.cfg`: pages of 12 words with a header of 3, alignment 2. Sizes 9 and 10: the first
  fits a fresh chunk only without the alignment gap, the second needs a chunk of two pages,
  so that chunks of both sizes go through the pool. Two tasks, three chunks and three
  allocations each, the fewest with which a snapshot has a chunk above it while the other
  task takes from the pool.
* `BrowserTransport.cfg`: two transports, one of which is connected after the other was
  cleaned up or while it still winds down; two addresses (one fails, the next is tried), two
  datagrams in all, one write under way for each.
* `Login.cfg`: three connections on a table of two, so that a slot is reused after it was
  closed or moved; two requests of two halves each and of every kind, on one connection or on two; three
  logins in the browser, so that a page may be two logins old.
* `Client.cfg`: two transports, the least for one in use while another connects, and
  one unread message in each. Everything else in the session is finite.
* `SampleApp.cfg`: the same; `TokensUsable` is FALSE there, so that bodies that are empty or
  too large are covered too.

Deadlock is not checked in the runs that are bounded by counters, or in which the
session may be closed or trap.

### Fairness

*`SampleApp`.* Frames go on (`WF` of `FrameAdvances`): `cf_app_update` and
the loop of `main` have no wait in them. A task that is resumed again and again
does not yield for good (`SF` of `Resume(t)` inside `snet_update`): a fetch or a login
page that is asked again and again answers or fails, which is what an HTTP
time-out gives; a player who never answers the page is outside of the
assumption, and `Answered` says nothing of it. A connection that is being made is made or fails
(`SF` of the network): cute_net times out, and so does the browser. Strong
fairness is needed since these are enabled only in the part of a frame in which
the task or the network has its turn. Nothing assumes that the user presses anything.

*`BrowserTransport`.* Promise continuations that are ready are run (`WF` of `Jobs`), a session that
was closed ends and a cancelled reader settles (`SF`, since each waits for a moment without
jobs): the event loop and the WebTransport standard give that. The application, the peer and
an attempt to connect are under no obligation.

*`NativeLogin`, `BrowserLogin`.* The login task is resumed in every frame and calls
`snet_oauth_update` each time (`WF` of `WbyUpdate`, `WF` of `Update`). The browser need not do
anything: `RequestsAnswered` speaks of requests that were sent whole (`Waiting`). It says that time and again none waits; as a behaviour of the
model has `MaxRequests` requests and `MaxLogins` logins in all, none of them then waits for good.

## 4. What is proved

The first half of `SampleAppProofs` proves of the session for every set of transports, every bound on unread messages
and either value of `TokensUsable`, from `ClientAssumption` only:

* `ClientTypeOK`, by `TypeStep`;
* `ClientNoStuckState`: inductive together with `TypeOK` (`StuckStep`);
* `ClientNoDanglingTransport`: inductive, since a transport is allocated only where
  `conn` is `"free"`, so it is neither the session's nor the join task's (`TransportStep`);
* `ClientAuthorizedWithToken` and `ClientLoginAnswerIsCurrent`: the second speaks of a step that
  comes after the one that made it true, so it needs the strengthening
  `PostedLoginIsCurrent`: an answer that was posted and not yet read agrees with
  `auth_state`, because only the login task assigns it and beginning that
  task again drops the answer. `LoginInv` is inductive with `TypeOK` (`LoginStep`);
* `ClientNoMessageLost`: the join task releases and empties transports while a game is
  on, but never the session's, which is `NoDanglingTransport` (`MessageStep`).

Each induction goes through all the actions of `Next`, one step for each.

The second half proves for the same constants, of the client together with the application that calls it,
`AppTypeCorrect`, `AppOneLobbyCall`, `AppNoTransportLeak`, `AppNoReusedMemory` and the refinement `AppSessionOrder`.
The session alone keeps neither `OneLobbyCall` nor `NoTransportLeak`: its calls may overlap, and a game may be joined in a game. What
makes them true of the sample is in `AppInv`:

* `LobbyHolds`: of the create task, the join task and the transport at most one is there, and `lobby_state` names it;
  a creation or a join that is answered but not read has not been overtaken (the answer's event is read before the
  next button can be pressed).
* `StepHolds`: the place in the frame. The user interface is drawn when `snet_next_event` has returned all answers,
  and the game that was created is joined while nothing else is under way.
* `TokenInv`: the join request's token lives only while the join task runs, so its arena is not reused.

Each action of the application is one or two of the client's, so the step lemmas of the first half are used again
(`AppStepIsClientStep`). `AppSessionOrder` maps every step under `AppInv` to a step of `GameSession` or a stutter.

`SequenceBufferProofs` has no specification. It proves the arithmetic of wrapping (`SerialOrder`: for numbers less than
half a cycle apart, `GreaterThan` on wrapped numbers is `>` on the numbers themselves; `ClearedExactly`: the slots cleared by
`RemoveEntries` are those of the numbers passed over, whether the range wraps or not) and, on it, `Represents(b, n, t, H)`: the ring `b` of
`n` slots stands for the set `H` of unbounded numbers in the window that ends at `t`. `InsertWindow`, `AdvanceWindow`, `RemoveWindow`,
`ExistsInWindow` and `TestInsertInWindow` say what the operations of the ring do to `H` and what its answers say of it, for every modulus, every
size that divides it and is below half of it (`RingSizes`) and every number within reach of the newest.

`AckHeaderProofs` proves first, for every such ring `WindowTypeCorrect`, `WindowNoLeftover`, `WindowAcksExactly` and `WindowRefinesIdeal`, from
`SeqModAssumption` and `WindowAssumption`. The invariant is `RingInv`: the types, and that the ring represents `Held`, the numbers that
the refinement maps it to. That makes every answer of the ring the answer of `IdealWindow`, step by step, and leaves no slot
for a number of an earlier turn.

`ReassemblyProofs` proves all six properties of the run `reassembly` for every size of packets, fragments and buffers, from `SeqModAssumption` and
`ReassemblyAssumption`. `ReassemblyInv` has three parts beside the types: the received ring represents `whole`; the
reassembly ring represents `Partial`, the packets of which some fragments came, in a window with the same end (this is what neither `WholePackets` nor
`NeverCompletedInVain` say and both need: the two buffers move on together although the code advances them in different places); and
`Owned`: each partial packet has a slot and a block of its own, the block holds exactly the fragments that
are marked, these are not all, the length is known once the last fragment came, and no block is allocated beside these.
`EvictedFacts` shows that the slots cleaned up by moving on are those of the packets that leave the window,
`DisplacedIs` that taking an entry never evicts a packet that is still in it, `FreshFacts` that counting the marks, as the code does, is as good as
comparing them. A step is then described by the partial packets after it (`StepIs`), and `KeptWhileYoung` follows from the
same description.

`WebTransportProofs` proves about the two peers, for every window, ring, number of messages and acks, from `SeqModAssumption`, `WebTransportAssumption`
and `PeerAssumption` (a connection has two ends):

* `TransportTypeCorrect`, with the window never exceeded, and `TransportNoAckMissed`, which is inductive with the types.
* `TransportStreamIntact` and `TransportNothingDropped`, from `StreamInv`: every reliable packet on the way carries its payload's place
  modulo `RelMod` (`NumberedInv`); a receiver that was not disturbed has delivered `0 .. n - 1`, waits for `n`, and each
  slot is empty or holds the one message of the next `Slots` that belongs there (`Ordered`). The step that matters is the loop over queued
  messages (`DeliverInOrder`): it delivers `Drained` of them, and that many slots in a row hold the messages that follow, at most one each. The proviso `disturbed` is that of the run `redundant`.
* `GivenUpOnlyIfSeen`, from `AckInv`: an ack on its way to an outstanding message was caused by that very message, and so is the
  receiver's record of its number. This cannot be true for every behaviour of the model: its network delays a datagram without bound, so that after
  65536 packets an old ack could name a new packet. The theorem is therefore stated twice.
  `TransportGivesUpFairly` assumes of the behaviour `[][SendsFree]_vars`: no packet is sent under a number of whose last packet something is left, on the way, kept to be sent again,
  or on the receiver's record. `TransportGivenUpOnlyIfSeen` assumes only a constant: the connection sends fewer packets than there are
  numbers (`NumbersSuffice`, which the two checked instances satisfy); `UsedInv` then gives `SendsFree`.

`AckHeaderProofs` goes on with the codec, from `SeqModAssumption` and `HeaderAssumption` only:

* `HeaderRoundTrip`: for every modulus, every sequence and ack, every four bytes of ack bits and every
  packet behind them, `ReadPacketHeader` accepts what `PacketHeader` wrote and finds the
  same sequence, ack and ack bits, and the place where the packet begins. `AckFromDistance` is its arithmetic
  (the ack is found again from its distance modulo `SeqMod`), `Head0Cells` the bytes before the
  ack bits, `DatagramCells` the place of each byte of ack bits behind those that are there.
* `FragmentRoundTrip`: a packet of any length that is divided into at most `MaxFragments` fragments is accepted
  fragment by fragment, each with its place, the number of fragments and its bytes; what the last
  one puts together is the header and the bytes that would have been sent in one datagram. The header is written anew there from what the
  first fragment said, so this rests on `HeaderRoundTrip` and on the bytes of all fragments being those of the packet in order.

With the ring's invariant these give the two properties of the run, `EndpointHeaderReadBack` and
`EndpointFragmentsReadBack`, from `WindowAssumption` and `AckHeaderAssumption` besides: the acks and the numbers are what the endpoint
has in each of its states. `PeerReadsHeld` joins the halves of the module: the peer reads a bit as set exactly if the packet of the unbounded
number it stands for was entered, so ring, wrap, mask and codec together say the truth. It is not a property of the run, since
it speaks of every sequence a packet may have.

`ArenaProofs` proves the three properties of the run `arena` for every set of tasks and any sizes of pages, headers, alignments, envs
and allocations, from `ArenaAssumption` and `EnvAssumption`. None of the three is inductive. `ArenaInv` is, with the types and

* `Placed`: a chunk is in one arena's list or in the pool, once, and is allocated exactly if it is in one of them;
* `Orderly`, of each task: what it uses lies in a chunk it holds, below that chunk's bump pointer, and apart from what else lies there; the bump pointer of the
  env's chunk is just behind the words asked for the env or past those that are read of it (`Clear`). The next allocation in that
  chunk begins at an aligned place not below the bump pointer, which is past what is read in either case;
* `Restorable`, of each snapshot: its chunk is still held, and what was in use then lies in that chunk below the snapshot, or in a chunk
  behind it in the list. So restoring gives back only chunks in which nothing of that is left, and lowers the bump pointer onto nothing that is in use;
  and since the env is older than any snapshot of its task, `Clear` holds of the place a snapshot remembers, too.

`ArenaStands` is the induction; each operation is first described by what it does to one task's arena and to the pool
(`Memalign`, `Restored`, `Reset`), and the other tasks' parts are kept by `Placed`.

`LoginProofs` proves the two safety properties of the run `login` for any number of connections, slots, requests and logins, from
`LoginAssumption`. For the native build the invariant is `NativeInv`:

* `TableInv`: the slots in use name the connections that are open, each once; with `PhaseInv` (where in `wby_update` a slot may be dead: at
  one served already) that is `LoginSocketsOwned`.
* `NetInv`: what a connection has sent is its own, and one that is not open is queued, new or over.
* `BufferInv`: connections whose slots have one buffer are in `shared`, and a first half in a buffer is of the connection that counts it as used, or both that one and its sender are in `shared`.
* `RequestInv`: what there is of the request of a connection that never shared its buffer, in the buffer and behind it (`There`), is nothing,
  its first half, or both halves of the one request that is not answered (`Waits`).

The property alone says nothing of halves still on their way, which is why the last two are needed. The step that matters is
`ServeStep`: what is read together is of one request unless the buffer is shared (`ServedAnswer`), and the buffer it is put into disturbs no
other connection that is not marked. `CompactStep` keeps all of it for the slots moved up.
`BrowserInv` is the browser build's: until a login is cancelled only the current login's page is open. Both hold in each build, since the other's variables
do not change; together they give `LoginAnswerHasOneSource`, with the exceptions named in section 3: a shared buffer, a callback of the kinds
`partial` or `blank` after the good one, a cancelled login.

`BrowserTransportProofs` proves for every finite set of transports, any number of addresses, datagrams and
writes under way, from `BrowserAssumption` only (the set is finite so that a buffer not in use exists):

* `TransportNoUseAfterFree` and `TransportBufferUnshared`, from one invariant `IInv`, which each
  action and each job of `Next` keeps. Neither is inductive alone. Its parts are `JobsHold`, what a ready job says of its transport (a
  `"value"` job is alone, its transport is reading, and into the job's buffer; `"finally"` comes only from a
  loop that has left; a write that is reported is still among `writes`), and
  `PlacesHold`, what the place of the reading function says (a read is under way only in
  `"reading"`, where `close()` works). The heart of it is the last part of `PlaceHolds`: a transport
  freed as it read has the job that ends the read among those ready. A `"value"` job
  is alone, so it meets no such transport (`RunValueStep`), and when the browser has its turn
  again no job is left, so neither is the read (`IdleReads`). For the buffers the step that
  matters is that `Acquired` is in neither the pool nor use (`AcquiredReturns`).

* `TransportStateHonest`, from `HonestInv`, which stands on `IInv`: a transport that says it is connected and whose session or read is
  over has the job among those ready that will make it say otherwise, and one that says it is connecting after the attempt is over likewise; when the
  application may look, no job is left. `TransportRecvInOrder`, from `QueueInv`: what is left of the queue is what was processed and not
  handed over, in order.

Every invariant and every safety action property of the passing runs is stated by a theorem. Only model-checked are the liveness
properties `Answered`, `WindsDown` and `RequestsAnswered`, which are out of the prover's reach. The proofs are about the modules as the runs
check them: no definition is replaced by a configuration.

## 5. What the mutants are

Each property has, in the module it is about, a changed form of one definition
(marked `Mutant of`) that a plausible mistake in the code would give: a slot that is
not emptied, a hole in the array that is skipped, a transport that stays owned
by the task that handed it over, an event order turned round. With the mutant in
place of the definition the run must find the property violated.

## 6. Plan

The models that were planned are there, except for two:

1. `DeferredSend`: a send made inside the delivery callback (`src/slopnet_webtransport.c:160`). slopnet
   makes none, so it waits for a caller.
2. Progress of the stream over a fair network. The code does not give it: a retransmission
   keeps its packet number and is refused when it is stale (`src/reliable/reliable.c:1120`).

A proof that would be worth having: that the behaviours of two endpoints over a network that loses old datagrams in time satisfy `SendsFree`,
which `TransportGivesUpFairly` assumes; the model has no time to say that in.

## 7. Running it

    tlc -config Stream.cfg MCWebTransport.tla      # and so on for every cfg
    tlc -config AckHeader.cfg AckHeader.tla
    tlc -config BrowserTransport.cfg BrowserTransport.tla
    tlapm SampleAppProofs.tla                      # and so on for every *Proofs module

## 8. Not modelled

* The contents of requests and answers (JSON, URLs, headers): no property here
  depends on them but for a token being there, which `cookie` has.
* `reliable_endpoint_update`'s statistics and the tests at the end of `reliable.c`
  (`src/reliable/reliable.c:1330-2575`): nothing in slopnet reads the former.
* Of `wby.h`: WebSockets, request bodies, `100-continue` and the text of requests and responses,
  which the login page does not use.
* Of `wby_on_incoming`: an accepted socket that `fcntl` cannot configure (`src/wby.h:1703-1706`), which is closed
  while its slot is counted. Of `slopnet_transport.js`: that its writer cannot be had once the session
  is ready (lines 122-124), and further C calls in the turn of the browser in which C called `connect` or `cleanup`.
* `cute_net`, `cute_https`, emscripten's fetch and the browser's WebTransport: third-party
  code, seen as the environment; the two backends of `src/slopnet_fetch.c` are wrappers of
  them, and `Client` has what they answer.
* Sends from inside the delivery callback; messages of several fragments in `WebTransport`
  (their fragments are in `Reassembly`).
* Failure of the system's page allocator.
* The build scripts.
