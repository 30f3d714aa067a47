-------------------------------- MODULE Client --------------------------------
(***************************************************************************)
(* The client session of slopnet.c, used by an application that may call   *)
(* the API in any order.  Each of the four calls that take time is a       *)
(* coroutine ("task"): calling it cancels the one that was running, starts *)
(* it anew and runs it up to its first yield; snet_update then resumes it  *)
(* once per call until it posts a result, and snet_next_event hands that   *)
(* result to the application.  Everything runs on one thread: between two  *)
(* calls only the network acts.                                            *)
(***************************************************************************)
EXTENDS Integers, FiniteSets

CONSTANTS
  TransportId,   \* transports that can be open at a time; bounds the leaks
  NoTransport,   \* NULL
  MaxInbox,      \* bound on the messages a transport holds undelivered
  TokensUsable   \* FALSE if a login token may be empty, or too large for
                 \* cookie_buf (SNET_MAX_COOKIE_SIZE)

ASSUME ClientAssumption ==
  /\ NoTransport \notin TransportId
  /\ MaxInbox \in Nat
  /\ TokensUsable \in BOOLEAN

Task       == {"auth", "create", "join", "list"}
AuthState  == {"unauthorized", "authorizing", "authorized"}
LobbyState == {"in_lobby", "creating_game", "joining_game", "joined_game"}
OpStatus   == {"ok", "failed"}   \* SNET_ERR_IO and SNET_ERR_REJECTED alike
ConnState  == {"free", "connecting", "connected", "disconnected"}

VARIABLES
  status,       \* "running", "closed" by snet_cleanup, or "trapped"
  turn,         \* where snet_update is, or "app" outside of it
  auth_state,
  lobby_state,
  cookie,       \* what cookie_buf holds: "empty", a "token" or a "reason"
  login,        \* the entry of auth_task: "cookie" or "itchio"
  coro,         \* by task: "none", "suspended" at a yield, or "dead"
  result,       \* by task: the status of the event posted and not reaped
  transport,    \* snet->transport
  joining,      \* the transport the join task is connecting
  conn,         \* by transport: "free" if not allocated, else its state
  inbox,        \* by transport: messages received and not delivered
  event         \* what snet_next_event returned, if it was the last to run

tasks   == <<login, coro, result>>
network == <<transport, joining, conn, inbox>>
vars    == <<status, turn, auth_state, lobby_state, cookie, event, tasks, network>>

Event(type, outcome) == [type |-> type, status |-> outcome]
NoEvent == Event("none", "none")

Init ==
  /\ status = "running" /\ turn = "app"
  /\ auth_state = "unauthorized" /\ lobby_state = "in_lobby"
  /\ cookie = "empty" /\ login = "cookie"
  /\ coro = [t \in Task |-> "none"]
  /\ result = [t \in Task |-> "none"]
  /\ transport = NoTransport /\ joining = NoTransport
  /\ conn = [i \in TransportId |-> "free"]
  /\ inbox = [i \in TransportId |-> 0]
  /\ event = NoEvent

AppTurn == status = "running" /\ turn = "app"

\* A call other than snet_next_event.
AppCalls == AppTurn /\ event' = NoEvent

-----------------------------------------------------------------------------
(* Tasks.  A task that is called while it runs is cancelled first: it is   *)
(* resumed until it is dead, and its result is dropped (snet_task_end).    *)
(* What a cancelled task assigns is assigned again by the call, but for    *)
(* the transport a cancelled join releases.                                *)

\* The call reached its first yield.
Suspends(t) ==
  /\ coro' = [coro EXCEPT ![t] = "suspended"]
  /\ result' = [result EXCEPT ![t] = "none"]

\* The task posted its event and returned.
Ends(t, outcome) ==
  /\ coro' = [coro EXCEPT ![t] = "dead"]
  /\ result' = [result EXCEPT ![t] = outcome]

\* The network after the join task has let go of its transport.
Released == IF joining = NoTransport THEN conn
            ELSE [conn EXCEPT ![joining] = "free"]

Emptied(i) == [inbox EXCEPT ![i] = 0]

-----------------------------------------------------------------------------
(* Logging in.                                                             *)

\* Mutant of CookieLoginEnds: a failed fetch forgets to step back.
CookieLoginEndsStuck ==
  \/ Ends("auth", "ok") /\ auth_state' = "authorized" /\ cookie' = "token"
  \/ Ends("auth", "failed") /\ UNCHANGED <<auth_state, cookie>>

\* Mutant of CookieLoginEnds: any answer authorizes, whatever its status code.
CookieLoginEndsHasty ==
  \/ Ends("auth", "ok") /\ auth_state' = "authorized" /\ cookie' = "token"
  \/ /\ Ends("auth", "failed") /\ auth_state' = "authorized"
     /\ UNCHANGED cookie

\* The answer to /auth/cookie: accepted with a token, accepted with a body
\* that is empty or too large for cookie_buf, not accepted, or no answer.
CookieLoginEnds ==
  \/ Ends("auth", "ok") /\ auth_state' = "authorized" /\ cookie' = "token"
  \/ /\ ~ TokensUsable
     /\ auth_state' = "authorized"
     /\ \/ Ends("auth", "ok") /\ cookie' = "empty"
        \/ Ends("auth", "failed") /\ UNCHANGED cookie
  \/ /\ Ends("auth", "failed")
     /\ auth_state' = "unauthorized" /\ UNCHANGED cookie

\* Mutant of ItchioLoginEnds: any answer of the page authorizes.
ItchioLoginEndsHasty ==
  /\ auth_state' = "authorized"
  /\ \/ Ends("auth", "ok") /\ cookie' = "token"
     \/ Ends("auth", "failed") /\ cookie' = "reason"

\* The page's answer: success or failure.  What it sends along goes to
\* cookie_buf, a token or a reason, unless it is empty or does not fit.
ItchioLoginEnds ==
  \/ Ends("auth", "ok") /\ auth_state' = "authorized" /\ cookie' = "token"
  \/ /\ ~ TokensUsable
     /\ Ends("auth", "ok") /\ auth_state' = "authorized" /\ UNCHANGED cookie
  \/ /\ Ends("auth", "failed") /\ auth_state' = "unauthorized"
     /\ cookie' \in {cookie, "reason"}

LoginStarts == /\ Suspends("auth")
               /\ auth_state' = "authorizing"
               /\ UNCHANGED cookie

LoginWithCookie ==
  /\ AppCalls
  /\ LoginStarts \/ CookieLoginEnds
  /\ login' = "cookie"
  /\ UNCHANGED <<status, turn, lobby_state, network>>

\* The task copies its argument from NULL (SNET_TASK_ARG): the copy is dead
\* code, so a build traps on it or drops it.
LoginWithItchio ==
  /\ AppCalls
  /\ \/ /\ LoginStarts \/ ItchioLoginEnds
        /\ login' = "itchio" /\ UNCHANGED status
     \/ /\ status' = "trapped"
        /\ UNCHANGED <<auth_state, cookie, tasks>>
  /\ UNCHANGED <<turn, lobby_state, network>>

-----------------------------------------------------------------------------
(* Creating and listing games.                                             *)

CreateEnds == /\ \E outcome \in OpStatus : Ends("create", outcome)
              /\ lobby_state' = "in_lobby"

CreateGame ==
  /\ AppCalls
  /\ \/ Suspends("create") /\ lobby_state' = "creating_game"
     \/ CreateEnds
  /\ UNCHANGED <<status, turn, auth_state, cookie, login, network>>

ListEnds == \E outcome \in OpStatus : Ends("list", outcome)

ListGames ==
  /\ AppCalls
  /\ Suspends("list") \/ ListEnds
  /\ UNCHANGED <<status, turn, auth_state, lobby_state, cookie, login, network>>

-----------------------------------------------------------------------------
(* Joining a game: a fetch that answers with where to connect, then a      *)
(* transport that connects.                                                *)

\* The fetch was refused or failed.
JoinFetchFails ==
  /\ Ends("join", "failed")
  /\ lobby_state' = "in_lobby"
  /\ conn' = Released /\ joining' = NoTransport
  /\ UNCHANGED <<transport, inbox>>

\* A transport is opened; it is connecting, or has failed already.
JoinOpens ==
  \E i \in TransportId :
    /\ Released[i] = "free"
    /\ \/ /\ Suspends("join")
          /\ lobby_state' = "joining_game"
          /\ conn' = [Released EXCEPT ![i] = "connecting"]
          /\ inbox' = Emptied(i)
          /\ joining' = i
       \/ /\ Ends("join", "failed")
          /\ lobby_state' = "in_lobby"
          /\ conn' = Released /\ joining' = NoTransport
          /\ UNCHANGED inbox
    /\ UNCHANGED transport

JoinGame ==
  /\ AppCalls
  /\ \/ /\ Suspends("join")
        /\ lobby_state' = "joining_game"
        /\ conn' = Released /\ joining' = NoTransport
        /\ UNCHANGED <<transport, inbox>>
     \/ JoinFetchFails
     \/ JoinOpens
  /\ UNCHANGED <<status, turn, auth_state, cookie, login>>

\* The fetch answers in a later update: lobby_state is left to whichever
\* task assigned it last.
JoinFetchEnds ==
  /\ joining = NoTransport
  /\ \/ JoinFetchFails
     \/ \E i \in TransportId :
          /\ conn[i] = "free"
          /\ \/ /\ conn' = [conn EXCEPT ![i] = "connecting"]
                /\ inbox' = Emptied(i)
                /\ joining' = i
                /\ UNCHANGED <<coro, result, lobby_state>>
             \/ /\ Ends("join", "failed")
                /\ lobby_state' = "in_lobby"
                /\ UNCHANGED <<conn, inbox, joining>>
          /\ UNCHANGED transport

\* Mutant of JoinConnects: the join task goes on owning the transport.
JoinConnectsKeeping ==
  /\ joining # NoTransport /\ conn[joining] = "connected"
  /\ Ends("join", "ok")
  /\ lobby_state' = "joined_game"
  /\ transport' = joining
  /\ UNCHANGED <<conn, inbox, joining>>

\* The transport is handed over; one that was there before is not released.
JoinConnects ==
  /\ joining # NoTransport /\ conn[joining] = "connected"
  /\ Ends("join", "ok")
  /\ lobby_state' = "joined_game"
  /\ transport' = joining /\ joining' = NoTransport
  /\ UNCHANGED <<conn, inbox>>

\* Mutant of JoinDisconnects: the transport is not released.
JoinDisconnectsLeaking ==
  /\ joining # NoTransport /\ conn[joining] = "disconnected"
  /\ Ends("join", "failed")
  /\ lobby_state' = "in_lobby"
  /\ joining' = NoTransport
  /\ UNCHANGED <<transport, conn, inbox>>

JoinDisconnects ==
  /\ joining # NoTransport /\ conn[joining] = "disconnected"
  /\ Ends("join", "failed")
  /\ lobby_state' = "in_lobby"
  /\ conn' = Released /\ joining' = NoTransport
  /\ UNCHANGED <<transport, inbox>>

ExitGame ==
  /\ AppCalls
  /\ transport # NoTransport
  /\ conn' = [conn EXCEPT ![transport] = "free"]
  /\ transport' = NoTransport
  /\ UNCHANGED <<status, turn, auth_state, lobby_state, cookie, tasks,
                 joining, inbox>>

-----------------------------------------------------------------------------
(* snet_update: the tasks in their order, each resumed once.               *)

\* Mutant of After: snet_update forgets the join task.
AfterSkippingJoin(t) == CASE t = "auth" -> "create" [] t = "create" -> "list"
                          [] t = "join" -> "list"   [] t = "list" -> "app"

After(t) == CASE t = "auth" -> "create" [] t = "create" -> "join"
              [] t = "join" -> "list"   [] t = "list" -> "app"

Update ==
  /\ AppCalls
  /\ turn' = "auth"
  /\ UNCHANGED <<status, auth_state, lobby_state, cookie, tasks, network>>

AuthEnds == /\ \/ login = "cookie" /\ CookieLoginEnds
               \/ login = "itchio" /\ ItchioLoginEnds
            /\ UNCHANGED <<lobby_state, network>>

JoinAdvances == /\ JoinFetchEnds \/ JoinConnects \/ JoinDisconnects
                /\ UNCHANGED <<auth_state, cookie>>

\* What resuming task t does when it does not just yield again.
Advances(t) ==
  \/ t = "auth"   /\ AuthEnds
  \/ t = "create" /\ CreateEnds /\ UNCHANGED <<auth_state, cookie, network>>
  \/ t = "join"   /\ JoinAdvances
  \/ t = "list"   /\ ListEnds
                  /\ UNCHANGED <<auth_state, lobby_state, cookie, network>>

InUpdate(t) == status = "running" /\ turn = t /\ event' = NoEvent

Resume(t) ==
  /\ InUpdate(t) /\ coro[t] = "suspended"
  /\ Advances(t)
  /\ turn' = After(t)
  /\ UNCHANGED <<status, login>>

\* The task yields again: its fetch or its page is pending, its transport
\* still connecting.  A task that is not suspended is passed over.
Waiting(t) ==
  /\ InUpdate(t)
  /\ t = "join" /\ coro[t] = "suspended" /\ joining # NoTransport
       => conn[joining] = "connecting"
  /\ turn' = After(t)
  /\ UNCHANGED <<status, auth_state, lobby_state, cookie, tasks, network>>

-----------------------------------------------------------------------------
(* snet_next_event: the results in their order, then the transport.        *)

Reapable(t) == coro[t] = "dead" /\ result[t] # "none"

\* The order in which results are looked for.
Before(t) == CASE t = "auth" -> {} [] t = "create" -> {"auth"}
               [] t = "join" -> {"auth", "create"}
               [] t = "list" -> {"auth", "create", "join"}

Reap(t) ==
  /\ AppTurn
  /\ Reapable(t) /\ \A u \in Before(t) : ~ Reapable(u)
  /\ event' = Event(t, result[t])
  /\ result' = [result EXCEPT ![t] = "none"]
  /\ UNCHANGED <<status, turn, auth_state, lobby_state, cookie, login, coro, network>>

\* Mutant of NothingToReap: the transport is polled before the tasks.
TransportFirst == AppTurn

NothingToReap == AppTurn /\ \A t \in Task : ~ Reapable(t)

\* Mutant of DeliverMessage: a message is announced when there is none.
DeliverMessageUnchecked ==
  /\ NothingToReap
  /\ transport # NoTransport
  /\ event' = Event("message", "none")
  /\ inbox' = [inbox EXCEPT ![transport] = @ - 1]
  /\ UNCHANGED <<status, turn, auth_state, lobby_state, cookie, tasks,
                 transport, joining, conn>>

DeliverMessage ==
  /\ NothingToReap
  /\ transport # NoTransport /\ inbox[transport] > 0
  /\ event' = Event("message", "none")
  /\ inbox' = [inbox EXCEPT ![transport] = @ - 1]
  /\ UNCHANGED <<status, turn, auth_state, lobby_state, cookie, tasks,
                 transport, joining, conn>>

\* Mutant of ReportDisconnect: the state is looked at before the messages.
ReportDisconnectFirst ==
  /\ NothingToReap
  /\ transport # NoTransport /\ conn[transport] = "disconnected"
  /\ event' = Event("disconnected", "none")
  /\ conn' = [conn EXCEPT ![transport] = "free"]
  /\ transport' = NoTransport
  /\ lobby_state' = "in_lobby"
  /\ UNCHANGED <<status, turn, auth_state, cookie, tasks, joining, inbox>>

ReportDisconnect ==
  /\ NothingToReap
  /\ transport # NoTransport /\ inbox[transport] = 0
  /\ conn[transport] = "disconnected"
  /\ event' = Event("disconnected", "none")
  /\ conn' = [conn EXCEPT ![transport] = "free"]
  /\ transport' = NoTransport
  /\ lobby_state' = "in_lobby"
  /\ UNCHANGED <<status, turn, auth_state, cookie, tasks, joining, inbox>>

NoMoreEvents ==
  /\ NothingToReap
  /\ transport # NoTransport =>
       inbox[transport] = 0 /\ conn[transport] # "disconnected"
  /\ event' = NoEvent
  /\ UNCHANGED <<status, turn, auth_state, lobby_state, cookie, tasks, network>>

NextEvent == \/ \E t \in Task : Reap(t)
             \/ DeliverMessage \/ ReportDisconnect \/ NoMoreEvents

-----------------------------------------------------------------------------
(* snet_cleanup: every task is cancelled and the transport released.       *)

Cleanup ==
  /\ AppCalls
  /\ status' = "closed"
  /\ coro' = [t \in Task |-> "none"] /\ result' = [t \in Task |-> "none"]
  /\ conn' = [i \in TransportId |->
                IF i \in {transport, joining} THEN "free" ELSE conn[i]]
  /\ transport' = NoTransport /\ joining' = NoTransport
  /\ UNCHANGED <<turn, auth_state, lobby_state, cookie, login, inbox>>

-----------------------------------------------------------------------------
(* The network, external to slopnet.c.                                     *)

Unchanged == UNCHANGED <<status, turn, auth_state, lobby_state, cookie, tasks,
                         transport, joining>>

Connects(i) == /\ conn[i] = "connecting"
               /\ conn' = [conn EXCEPT ![i] = "connected"]
               /\ Unchanged /\ UNCHANGED inbox

Disconnects(i) == /\ conn[i] \in {"connecting", "connected"}
                  /\ conn' = [conn EXCEPT ![i] = "disconnected"]
                  /\ Unchanged /\ UNCHANGED inbox

Arrives(i) == /\ conn[i] = "connected" /\ inbox[i] < MaxInbox
              /\ inbox' = [inbox EXCEPT ![i] = @ + 1]
              /\ Unchanged /\ UNCHANGED conn

Network == /\ status = "running" /\ event' = NoEvent
           /\ \E i \in TransportId : Connects(i) \/ Disconnects(i) \/ Arrives(i)

-----------------------------------------------------------------------------

\* The calls of an application that makes them in any order.
Call == \/ LoginWithCookie \/ LoginWithItchio \/ CreateGame \/ ListGames
        \/ JoinGame \/ ExitGame \/ Cleanup

UpdateStep == \E t \in Task : Resume(t) \/ Waiting(t)

Next == Call \/ Update \/ UpdateStep \/ NextEvent \/ Network

Spec == Init /\ [][Next]_vars

-----------------------------------------------------------------------------
(* Properties.                                                             *)

TypeOK ==
  /\ status \in {"running", "closed", "trapped"}
  /\ turn \in Task \cup {"app"}
  /\ auth_state \in AuthState /\ lobby_state \in LobbyState
  /\ cookie \in {"empty", "token", "reason"}
  /\ login \in {"cookie", "itchio"}
  /\ coro \in [Task -> {"none", "suspended", "dead"}]
  /\ result \in [Task -> OpStatus \cup {"none"}]
  /\ transport \in TransportId \cup {NoTransport}
  /\ joining \in TransportId \cup {NoTransport}
  /\ conn \in [TransportId -> ConnState]
  /\ inbox \in [TransportId -> 0 .. MaxInbox]
  /\ event \in [type: Task \cup {"message", "disconnected", "none"},
                status: OpStatus \cup {"none"}]

\* No state that only a running task leaves outlives the task: a user
\* interface that waits for auth_state or lobby_state to move on never waits
\* for nothing, however calls cancel and overtake one another (the exits of
\* snet_task_login_*, snet_task_create_game and snet_task_join_game).
NoStuckState ==
  status = "running" =>
    /\ auth_state = "authorizing" <=> coro["auth"] = "suspended"
    /\ lobby_state = "creating_game" => coro["create"] = "suspended"
    /\ lobby_state = "joining_game" => coro["join"] = "suspended"

\* A transport that the session or the join task still points to has not
\* been released, and the two never point to the same one, which one of
\* them would release under the other (the cleanups of lines 242, 292, 642,
\* 659 and 691 of slopnet.c).
NoDanglingTransport ==
  /\ transport # NoTransport => conn[transport] # "free"
  /\ joining # NoTransport => /\ conn[joining] # "free"
                              /\ coro["join"] = "suspended"
                              /\ joining # transport

\* While the server's tokens are usable, every request of an authorized
\* session carries a token: neither a rejected login's reason nor an empty
\* string is sent as one (snet_auth_header).
AuthorizedWithToken ==
  TokensUsable /\ auth_state = "authorized" => cookie = "token"

\* The answer to a login agrees with auth_state as it is when the answer is
\* read, whatever the application called between the two.
LoginAnswerIsCurrent ==
  [][ event'.type = "auth" /\ TokensUsable
        => (event'.status = "ok" <=> auth_state' = "authorized") ]_vars

\* A message that arrived in a game is handed over or still held, whichever
\* calls and tasks overlap: the transport is given back with messages unread
\* only where the application itself leaves (snet_next_event against the
\* releases of lines 242, 642, 659 and 691 of slopnet.c).
NoMessageLost ==
  [][ transport # NoTransport =>
        \/ /\ inbox'[transport] >= inbox[transport]
           /\ conn'[transport] = "free" => inbox[transport] = 0
        \/ event'.type = "message"
        \/ ExitGame \/ Cleanup ]_vars

\* lobby_state says SNET_JOINED_GAME, shown as "In game" by the sample, only
\* while there is a game to be in.  snet_exit_game breaks it.
JoinedHasTransport == lobby_state = "joined_game" => transport # NoTransport
=============================================================================
