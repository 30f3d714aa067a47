----------------------------- MODULE NativeLogin -----------------------------
(***************************************************************************)
(* The itch.io login of the native build: slopnet_oauth.c with the small   *)
(* web server of wby.h, which waits on a local port for the browser to     *)
(* come back with the answer.  One login is modelled, from the task's      *)
(* snet_oauth_begin to its snet_oauth_end; every login has a server of its *)
(* own.  wby_update is divided into its steps: select, accepting, serving  *)
(* one connection after the other, closing the dead ones one by one.       *)
(*                                                                         *)
(* The browser is external: it opens connections, sends requests without a *)
(* body, the next one when the last is answered, in one segment or two,    *)
(* and closes.  It asks for no WebSocket and expects no 100-continue.      *)
(***************************************************************************)
EXTENDS Integers, Sequences, FiniteSetsExt

CONSTANTS MaxOpened,   \* bound on the connections the browser opens
          MaxCon,      \* 4: connection_max
          MaxRequests  \* bound on the requests, of all connections

VARIABLES login,    \* snet_oauth_t: state, and what last wrote to data_buf
          slot,     \* srv->con, the slots above con_count included
          count,    \* srv->con_count
          memory,   \* the first half of each request buffer
          phase,    \* how far the server is
          index,    \* the first slot not yet served
          readable, \* the connections that select reported
          net,      \* net[c]: the connection as the browser has it
          shared    \* connections whose request buffer another one used

vars == <<login, slot, count, memory, phase, index, readable, net, shared>>

\* The connections, numbered as they are opened and accepted; 0 is none.
Con == 1 .. MaxOpened

\* What a request is: the callback, with success 1, success 0 or no success,
\* without data, or without any parameter; another address; or one that is
\* refused, being too large or not as it should be.
Kind == {"granted", "denied", "partial", "blank", "bare", "other", "refused"}

\* Half h of a request of a connection.
Half(c, n, kind, h) == [con |-> c, number |-> n, kind |-> kind, half |-> h]

Blank == [con |-> 0, number |-> 0, kind |-> "none", half |-> 0]

NoAnswer == [state |-> "pending", data |-> Blank, verdict |-> Blank]

EmptySlot(b) == [socket |-> 0, buffer |-> b, used |-> 0,
                 alive |-> FALSE, fresh |-> FALSE]

NoConnection == [status |-> "none", open |-> FALSE, stream |-> <<>>,
                 asked |-> 0, asking |-> "none", halfSent |-> "none", answered |-> 0]

Init ==
  /\ login = NoAnswer
  /\ slot = [i \in 1 .. MaxCon |-> EmptySlot(i)]
  /\ count = 0
  /\ memory = [b \in 1 .. MaxCon |-> Blank]
  /\ phase = "off" /\ index = 0 /\ readable = {}
  /\ net = [c \in Con |-> NoConnection]
  /\ shared = {}

-----------------------------------------------------------------------------
\* The browser.

Listening == phase \notin {"off", "failed", "trapped", "stopped"}

Reachable(c) == Listening /\ (net[c].status = "queued" \/ net[c].open)

Connect(c) ==
  /\ Listening
  /\ \A d \in Con : (net[d].status = "none") = (d >= c)
  /\ net' = [net EXCEPT ![c].status = "queued"]
  /\ UNCHANGED <<login, slot, count, memory, phase, index, readable, shared>>

\* The requests so far, of all connections.
Requests == MapThenSumSet(LAMBDA c : net[c].asked, Con)

CanAsk(c) == /\ Reachable(c) /\ net[c].status # "left" /\ net[c].halfSent = "none"
             /\ net[c].asked = net[c].answered
             /\ Requests < MaxRequests

\* The first half of a request; the rest may follow at once.
Ask(c) ==
  /\ CanAsk(c)
  /\ \E kind \in Kind :
       net' = [net EXCEPT ![c].stream = Append(@, Half(c, net[c].asked + 1, kind, 1)),
                          ![c].asked = @ + 1, ![c].asking = kind, ![c].halfSent = kind]
  /\ UNCHANGED <<login, slot, count, memory, phase, index, readable, shared>>

AskRest(c) ==
  /\ Reachable(c) /\ net[c].status # "left" /\ net[c].halfSent # "none"
  /\ net' = [net EXCEPT ![c].stream = Append(@, Half(c, net[c].asked, net[c].halfSent, 2)),
                        ![c].halfSent = "none"]
  /\ UNCHANGED <<login, slot, count, memory, phase, index, readable, shared>>

Leave(c) ==
  /\ Reachable(c) /\ net[c].status = "accepted"
  /\ net' = [net EXCEPT ![c].status = "left"]
  /\ UNCHANGED <<login, slot, count, memory, phase, index, readable, shared>>

-----------------------------------------------------------------------------
\* The login task.

\* snet_oauth_begin: the server listens, or could not be started.
Begin ==
  /\ phase = "off"
  /\ \/ phase' = "idle" /\ UNCHANGED login
     \/ phase' = "failed" /\ login' = [login EXCEPT !.state = "failed"]
  /\ UNCHANGED <<slot, count, memory, index, readable, net, shared>>

\* Mutant of StillOpen: the last slot is forgotten.
StillOpen1 == {slot[i].socket : i \in 1 .. count - 1}

\* The connections that wby_stop closes.
StillOpen == {slot[i].socket : i \in 1 .. count}

\* snet_oauth_end and the task's end: the server socket and the connections
\* are closed, what is still queued is refused with it, and the memory of the
\* server goes with the task's.
Stop ==
  /\ phase' = "stopped"
  /\ net' = [c \in Con |-> [NoConnection EXCEPT !.open = net[c].open /\ c \notin StillOpen]]
  /\ slot' = [i \in 1 .. MaxCon |-> EmptySlot(i)]
  /\ count' = 0
  /\ memory' = [b \in 1 .. MaxCon |-> Blank]
  /\ UNCHANGED <<login, index, readable, shared>>

\* The task is cancelled between two updates.
Cancel == phase = "idle" /\ Stop

\* Where the server did not start, wby_update puts an invalid socket into the
\* sets of select, undefined behaviour that may end the program here; or the
\* task reads the failure.
UpdateFailed ==
  /\ phase = "failed"
  /\ \/ Stop
     \/ phase' = "trapped"
        /\ UNCHANGED <<login, slot, count, memory, index, readable, net, shared>>

-----------------------------------------------------------------------------
\* wby_update.

Queued == {c \in Con : net[c].status = "queued"}

HasNews(c) == net[c].stream # <<>> \/ net[c].status = "left"

Select ==
  /\ phase = "idle"
  /\ readable' = {slot[i].socket : i \in {k \in 1 .. count : HasNews(slot[k].socket)}}
  /\ phase' = IF Queued # {} /\ count < MaxCon THEN "accept" ELSE "serve"
  /\ index' = 1
  /\ UNCHANGED <<login, slot, count, memory, net, shared>>

SharersOf(b) == {slot[i].socket : i \in {k \in 1 .. count : slot[k].buffer = b}}

\* wby_on_incoming: the next slot is reset, all but the buffer it points to.
Accept ==
  /\ phase = "accept" /\ count < MaxCon
  /\ Queued # {}
  /\ LET c == Min(Queued)
         b == slot[count + 1].buffer
     IN  /\ slot' = [slot EXCEPT ![count + 1] =
                         [EmptySlot(b) EXCEPT !.socket = c, !.alive = TRUE, !.fresh = TRUE]]
           /\ net' = [net EXCEPT ![c].status = "accepted", ![c].open = TRUE]
           /\ shared' = IF SharersOf(b) = {} THEN shared
                        ELSE shared \cup SharersOf(b) \cup {c}
  /\ count' = count + 1
  /\ UNCHANGED <<login, memory, phase, index, readable>>

AcceptEnds ==
  /\ phase = "accept" /\ (Queued = {} \/ count = MaxCon)
  /\ phase' = "serve"
  /\ UNCHANGED <<login, slot, count, memory, index, readable, net, shared>>

\* What the buffer holds of the connection's request; two halves fill it.
Received(k) ==
  LET stream == net[k.socket].stream
  IN  IF k.used = 0 THEN stream ELSE <<memory[k.buffer]>> \o stream

\* Mutant of AfterAnswer: the buffer still counts as used.
AfterAnswerUsed(k) == [k EXCEPT !.used = 2]

\* wby_connection_reset for the connection's next request.
AfterAnswer(k) == [k EXCEPT !.used = 0]

\* Mutant of Verdict: the data of the first callback stays.
VerdictKeeping(first, second) ==
  [state |-> IF second.kind = "granted" THEN "success" ELSE "failed",
   data |-> IF login.data = Blank THEN first ELSE login.data, verdict |-> second]

\* A callback whose data is in the first half and whose success is in the
\* second.
Verdict(first, second) ==
  [state |-> IF second.kind = "granted" THEN "success" ELSE "failed",
   data |-> first, verdict |-> second]

\* snet_oauth_httpd: the data is replaced before success is looked for.  A
\* callback without data clears the first byte of what is there, whose size
\* stays.
Dispatched(first, second) ==
  CASE first.kind = "other" -> login
    [] first.kind = "blank" -> IF login.data = Blank THEN login ELSE [login EXCEPT !.data = first]
    [] first.kind \notin {"other", "blank"} /\ second.kind \in {"granted", "denied"} ->
         Verdict(first, second)
    [] OTHER -> [login EXCEPT !.data = first]

\* The request is served: the callback with a redirect, another one with 404.
\* The connection stays, unless the request asked for its end and was the
\* browser's last.
Serves(i, k, halves) ==
  /\ login' = Dispatched(halves[1], halves[2])
  /\ \E stays \in BOOLEAN :
       /\ slot' = [slot EXCEPT ![i] = [AfterAnswer(k) EXCEPT !.alive = stays]]
       /\ net' = [net EXCEPT ![k.socket].stream = <<>>, ![k.socket].answered = @ + 1,
                             ![k.socket].asking = "none",
                             ![k.socket].status = IF stays THEN @ ELSE "left"]

Keeps(i, k) ==
  /\ slot' = [slot EXCEPT ![i] = k]
  /\ net' = [net EXCEPT ![k.socket].stream = <<>>]
  /\ UNCHANGED login

Matches(halves) == halves[2] = [halves[1] EXCEPT !.half = 2]

\* The connections still to be served: reported by select, or new.
ToServe == {i \in index .. count : slot[i].socket \in readable \/ slot[i].fresh}

\* A request that is understood.
Whole(read) == Len(read) = 2 /\ read[2].half = 2 /\ read[1].kind # "refused"

\* A request that is given up: too large, which may show before its end, or
\* not as it should be.  Halves of two requests, mixed up in one buffer, may
\* be taken for one or be given up.
GivenUp(read) == \/ Len(read) > 2
                 \/ Len(read) = 2 /\ ~ Matches(read)
                 \/ Len(read) # 0 /\ read[1].kind = "refused"

\* wby_update_connection on the next of them.  It reads until it has a whole
\* request, and gives up a connection that has failed or whose request is
\* given up.  The callback without any parameter ends the program: what is
\* searched for the data is then a null pointer.
Serve ==
  /\ phase = "serve" /\ ToServe # {}
  /\ LET i    == Min(ToServe)
         k    == [slot[i] EXCEPT !.fresh = FALSE]
         read == Received(k)
         left == net[k.socket].status = "left"
     IN  \/ /\ \/ (left \/ GivenUp(read)) /\ Keeps(i, [k EXCEPT !.alive = FALSE])
               \/ ~ left /\ Len(read) < 2 /\ Keeps(i, [k EXCEPT !.used = Len(read)])
               \/ ~ left /\ Whole(read) /\ read[1].kind # "bare" /\ Serves(i, k, read)
            /\ memory' = [memory EXCEPT ![k.buffer] = Head(read \o <<@>>)]
            /\ index' = i + 1 /\ UNCHANGED phase
         \/ /\ ~ left /\ Whole(read) /\ read[1].kind = "bare"
            /\ phase' = "trapped" /\ UNCHANGED <<login, slot, memory, index, net>>
  /\ UNCHANGED <<count, readable, shared>>

Stale == {i \in 1 .. count : ~ slot[i].alive}

\* A dead connection is closed and the ones behind it move up; the slot that
\* becomes free still holds what the last one held.
Compact ==
  /\ phase = "serve" /\ ToServe = {} /\ Stale # {}
  /\ LET i == Min(Stale)
     IN  /\ slot' = [k \in 1 .. MaxCon |-> IF k \in i .. count - 1 THEN slot[k + 1] ELSE slot[k]]
         /\ net' = [net EXCEPT ![slot[i].socket].open = FALSE]
  /\ count' = count - 1
  /\ UNCHANGED <<login, memory, phase, index, readable, shared>>

UpdateEnds ==
  /\ phase = "serve" /\ ToServe = {} /\ Stale = {}
  /\ phase' = "updated" /\ readable' = {} /\ index' = 0
  /\ UNCHANGED <<login, slot, count, memory, net, shared>>

\* snet_oauth_update returns, and the task ends the login that is answered.
Return ==
  /\ phase = "updated"
  /\ IF login.state = "pending"
     THEN /\ phase' = "idle"
          /\ UNCHANGED <<login, slot, count, memory, index, readable, net, shared>>
     ELSE Stop

WbyUpdate == Select \/ Accept \/ AcceptEnds \/ Serve \/ Compact \/ UpdateEnds \/ Return

Next == \/ Begin \/ Cancel \/ UpdateFailed \/ WbyUpdate
        \/ \E c \in Con : Connect(c) \/ Ask(c) \/ AskRest(c) \/ Leave(c)

\* The task goes on calling snet_oauth_update.
Fairness == WF_vars(WbyUpdate)

-----------------------------------------------------------------------------

\* Between two updates the table holds every connection the server has open,
\* each once and alive, and no other; none is left open when the login ends
\* (wby_on_incoming, wby_update, wby_stop).
SocketsOwned ==
  /\ phase = "idle" =>
       /\ \A i \in 1 .. count : slot[i].alive
       /\ \A i, k \in 1 .. count : i # k => slot[i].socket # slot[k].socket
       /\ {slot[i].socket : i \in 1 .. count} = {c \in Con : net[c].open}
  /\ phase = "stopped" => \A c \in Con : ~ net[c].open

\* A login is answered by one callback, from which both the outcome and the
\* data are taken, also when others are served in the same update, unless
\* connections shared a buffer or one served after it has data but no success
\* or has no data: those write to the data and leave the outcome
\* (snet_oauth_httpd).
AnswerOfOneCallback ==
  login.state # "pending" /\ login.data # Blank =>
    \/ /\ Matches(<<login.data, login.verdict>>)
       /\ login.data.kind = (IF login.state = "success" THEN "granted" ELSE "denied")
    \/ login.data.kind \in {"partial", "blank"}
    \/ login.data.con \in shared \/ login.verdict.con \in shared

\* The browser has sent a request to its end, on an accepted connection with a
\* buffer of its own, and waits: for the answer, or, if the request is one the
\* server refuses, for the end of the connection.
Waiting(c) ==
  /\ net[c].status = "accepted" /\ c \notin shared
  /\ net[c].asked # net[c].answered /\ net[c].halfSent = "none"
  /\ net[c].asking = "refused" => net[c].open
  /\ phase \notin {"stopped", "trapped"}

\* No request that was sent whole waits.
NoneWaits == \A c \in Con : ~ Waiting(c)
=============================================================================
