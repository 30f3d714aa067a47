---------------------------- MODULE SampleAppProofs ----------------------------
(***************************************************************************)
(* Proofs about the client session and about the sample application, for   *)
(* any number of transports, any bound on their messages and any login     *)
(* tokens.  The invariants that MCClient checks hold of every behaviour of *)
(* the session, whatever order the application makes its calls in; and the *)
(* calls that the user interface makes keep lobby_state, the tasks and the *)
(* transport in step.  The second part rests on the step lemmas of the     *)
(* first, since a frame of the application is made of steps of the session.*)
(***************************************************************************)
EXTENDS SampleApp, TLAPS

USE DEF Task, AuthState, LobbyState, OpStatus, ConnState

-----------------------------------------------------------------------------
(* The client session.                                                     *)

\* Every step keeps each variable in its type.
LEMMA TypeStep == ASSUME TypeOK, [Next]_vars PROVE TypeOK'
<1> USE ClientAssumption
<1> SUFFICES ASSUME Next PROVE TypeOK'
  BY DEF TypeOK, vars, tasks, network
<1>1. CASE LoginWithCookie
  BY <1>1 DEF TypeOK, LoginWithCookie, LoginStarts, CookieLoginEnds, Suspends,
    Ends, AppCalls, AppTurn, NoEvent, Event, network
<1>2. CASE LoginWithItchio
  BY <1>2 DEF TypeOK, LoginWithItchio, LoginStarts, ItchioLoginEnds, Suspends,
    Ends, AppCalls, AppTurn, NoEvent, Event, network, tasks
<1>3. CASE CreateGame
  BY <1>3 DEF TypeOK, CreateGame, CreateEnds, Suspends, Ends, AppCalls, AppTurn,
    NoEvent, Event, network
<1>4. CASE ListGames
  BY <1>4 DEF TypeOK, ListGames, ListEnds, Suspends, Ends, AppCalls, AppTurn,
    NoEvent, Event, network
<1>5. CASE JoinGame
  BY <1>5 DEF TypeOK, JoinGame, JoinFetchFails, JoinOpens, Released, Emptied,
    Suspends, Ends, AppCalls, AppTurn, NoEvent, Event
<1>6. CASE ExitGame
  BY <1>6 DEF TypeOK, ExitGame, AppCalls, AppTurn, NoEvent, Event, tasks
<1>7. CASE Cleanup
  BY <1>7 DEF TypeOK, Cleanup, AppCalls, AppTurn, NoEvent, Event
<1>8. CASE Update
  BY <1>8 DEF TypeOK, Update, AppCalls, AppTurn, NoEvent, Event, tasks, network
<1>9. ASSUME NEW t \in Task, Resume(t) PROVE TypeOK'
  BY <1>9 DEF TypeOK, Resume, InUpdate, Advances, AuthEnds, CookieLoginEnds,
    ItchioLoginEnds, CreateEnds, JoinAdvances, JoinFetchEnds, JoinFetchFails,
    JoinConnects, JoinDisconnects, Released, Emptied, ListEnds, Ends, After,
    NoEvent, Event, network
<1>10. ASSUME NEW t \in Task, Waiting(t) PROVE TypeOK'
  BY <1>10 DEF TypeOK, Waiting, InUpdate, After, NoEvent, Event, tasks, network
<1>11. ASSUME NEW t \in Task, Reap(t) PROVE TypeOK'
  BY <1>11 DEF TypeOK, Reap, AppTurn, Event, network
<1>12. CASE DeliverMessage
  BY <1>12 DEF TypeOK, DeliverMessage, NothingToReap, AppTurn, Event, tasks
<1>13. CASE ReportDisconnect
  BY <1>13 DEF TypeOK, ReportDisconnect, NothingToReap, AppTurn, Event, tasks
<1>14. CASE NoMoreEvents
  BY <1>14 DEF TypeOK, NoMoreEvents, NothingToReap, AppTurn, NoEvent, Event,
    tasks, network
<1>15. CASE Network
  BY <1>15 DEF TypeOK, Network, Connects, Disconnects, Arrives, Unchanged,
    NoEvent, Event, tasks
<1> QED
  BY <1>1, <1>2, <1>3, <1>4, <1>5, <1>6, <1>7, <1>8, <1>9, <1>10, <1>11, <1>12,
    <1>13, <1>14, <1>15 DEF Next, Call, UpdateStep, NextEvent

THEOREM ClientTypeOK == Spec => []TypeOK
<1>1. Init => TypeOK
  BY ClientAssumption DEF Init, TypeOK, NoEvent, Event
<1> QED
  BY <1>1, TypeStep, PTL DEF Spec

-----------------------------------------------------------------------------
(* States that only a running task leaves.                                 *)

LEMMA StuckStep ==
  ASSUME TypeOK, NoStuckState, [Next]_vars PROVE NoStuckState'
<1> USE DEF NoStuckState
<1> SUFFICES ASSUME Next PROVE NoStuckState'
  BY DEF vars, tasks, network
<1>1. CASE LoginWithCookie
  BY <1>1 DEF TypeOK, LoginWithCookie, LoginStarts, CookieLoginEnds, Suspends,
    Ends, AppCalls, AppTurn
<1>2. CASE LoginWithItchio
  BY <1>2 DEF TypeOK, LoginWithItchio, LoginStarts, ItchioLoginEnds, Suspends,
    Ends, AppCalls, AppTurn
<1>3. CASE CreateGame
  BY <1>3 DEF TypeOK, CreateGame, CreateEnds, Suspends, Ends
<1>4. CASE ListGames
  BY <1>4 DEF TypeOK, ListGames, ListEnds, Suspends, Ends
<1>5. CASE JoinGame
  BY <1>5 DEF TypeOK, JoinGame, JoinFetchFails, JoinOpens, Suspends, Ends
<1>6. CASE ExitGame
  BY <1>6 DEF ExitGame, tasks
<1>7. CASE Cleanup
  BY <1>7 DEF Cleanup
<1>8. CASE Update
  BY <1>8 DEF Update, tasks
<1>9. ASSUME NEW t \in Task, Resume(t) PROVE NoStuckState'
  BY <1>9 DEF TypeOK, Resume, Advances, AuthEnds, CookieLoginEnds,
    ItchioLoginEnds, CreateEnds, JoinAdvances, JoinFetchEnds, JoinFetchFails,
    JoinConnects, JoinDisconnects, ListEnds, Ends, InUpdate
<1>10. ASSUME NEW t \in Task, Waiting(t) PROVE NoStuckState'
  BY <1>10 DEF Waiting, tasks
<1>11. ASSUME NEW t \in Task, Reap(t) PROVE NoStuckState'
  BY <1>11 DEF Reap
<1>12. CASE DeliverMessage
  BY <1>12 DEF DeliverMessage, tasks
<1>13. CASE ReportDisconnect
  BY <1>13 DEF ReportDisconnect, tasks
<1>14. CASE NoMoreEvents
  BY <1>14 DEF NoMoreEvents, tasks
<1>15. CASE Network
  BY <1>15 DEF Network, Connects, Disconnects, Arrives, Unchanged, tasks
<1> QED
  BY <1>1, <1>2, <1>3, <1>4, <1>5, <1>6, <1>7, <1>8, <1>9, <1>10, <1>11, <1>12,
    <1>13, <1>14, <1>15 DEF Next, Call, UpdateStep, NextEvent

\* No call is left waiting on a task that is gone, for any application.
THEOREM ClientNoStuckState == Spec => []NoStuckState
<1>1. Init => NoStuckState
  BY DEF Init, NoStuckState, Task
<1> QED
  BY <1>1, ClientTypeOK, StuckStep, PTL DEF Spec

-----------------------------------------------------------------------------
(* Transports in use.  Only JoinOpens and JoinFetchEnds allocate one, and  *)
(* they take one that is free, so neither of the two in use.               *)

LEMMA TransportStep ==
  ASSUME TypeOK, NoDanglingTransport, [Next]_vars PROVE NoDanglingTransport'
<1> USE ClientAssumption DEF NoDanglingTransport
<1> SUFFICES ASSUME Next PROVE NoDanglingTransport'
  BY DEF vars, tasks, network
<1>1. CASE LoginWithCookie
  BY <1>1 DEF TypeOK, LoginWithCookie, LoginStarts, CookieLoginEnds, Suspends,
    Ends, network
<1>2. CASE LoginWithItchio
  BY <1>2 DEF TypeOK, LoginWithItchio, LoginStarts, ItchioLoginEnds, Suspends,
    Ends, network, tasks
<1>3. CASE CreateGame
  BY <1>3 DEF TypeOK, CreateGame, CreateEnds, Suspends, Ends, network
<1>4. CASE ListGames
  BY <1>4 DEF TypeOK, ListGames, ListEnds, Suspends, Ends, network
<1>5. CASE JoinGame
  BY <1>5 DEF TypeOK, JoinGame, JoinFetchFails, JoinOpens, Released, Suspends, Ends
<1>6. CASE ExitGame
  BY <1>6 DEF TypeOK, ExitGame, tasks
<1>7. CASE Cleanup
  BY <1>7 DEF Cleanup
<1>8. CASE Update
  BY <1>8 DEF Update, tasks, network
<1>9. ASSUME NEW t \in Task, Resume(t) PROVE NoDanglingTransport'
  <2>1. CASE t = "auth"
    BY <1>9, <2>1 DEF TypeOK, Resume, Advances, AuthEnds, CookieLoginEnds,
      ItchioLoginEnds, Ends, network
  <2>2. CASE t = "create" \/ t = "list"
    BY <1>9, <2>2 DEF TypeOK, Resume, Advances, CreateEnds, ListEnds, Ends, network
  <2>3. CASE t = "join"
    BY <1>9, <2>3 DEF TypeOK, Resume, Advances, JoinAdvances, JoinFetchEnds,
      JoinFetchFails, JoinConnects, JoinDisconnects, Released, Ends
  <2> QED
    BY <2>1, <2>2, <2>3
<1>10. ASSUME NEW t \in Task, Waiting(t) PROVE NoDanglingTransport'
  BY <1>10 DEF Waiting, tasks, network
<1>11. ASSUME NEW t \in Task, Reap(t) PROVE NoDanglingTransport'
  BY <1>11 DEF Reap, network
<1>12. CASE DeliverMessage
  BY <1>12 DEF DeliverMessage, tasks
<1>13. CASE ReportDisconnect
  BY <1>13 DEF TypeOK, ReportDisconnect, tasks
<1>14. CASE NoMoreEvents
  BY <1>14 DEF NoMoreEvents, tasks, network
<1>15. CASE Network
  BY <1>15 DEF TypeOK, Network, Connects, Disconnects, Arrives, Unchanged, tasks
<1> QED
  BY <1>1, <1>2, <1>3, <1>4, <1>5, <1>6, <1>7, <1>8, <1>9, <1>10, <1>11, <1>12,
    <1>13, <1>14, <1>15 DEF Next, Call, UpdateStep, NextEvent

\* The session never points to a transport that has been released.
THEOREM ClientNoDanglingTransport == Spec => []NoDanglingTransport
<1>1. Init => NoDanglingTransport
  BY DEF Init, NoDanglingTransport
<1> QED
  BY <1>1, ClientTypeOK, TransportStep, PTL DEF Spec

-----------------------------------------------------------------------------
(* Logging in.  A posted answer is current until it is read: only the auth *)
(* task assigns auth_state, and beginning it again drops the answer.       *)

PostedLoginIsCurrent ==
  TokensUsable /\ Reapable("auth")
    => (result["auth"] = "ok" <=> auth_state = "authorized")

LoginInv == AuthorizedWithToken /\ PostedLoginIsCurrent

LEMMA LoginStep == ASSUME TypeOK, LoginInv, [Next]_vars PROVE LoginInv'
<1> USE ClientAssumption DEF LoginInv, AuthorizedWithToken, PostedLoginIsCurrent,
                             Reapable
<1> SUFFICES ASSUME Next PROVE LoginInv'
  BY DEF vars, tasks, network
<1>1. CASE LoginWithCookie
  BY <1>1 DEF TypeOK, LoginWithCookie, LoginStarts, CookieLoginEnds, Suspends, Ends
<1>2. CASE LoginWithItchio
  BY <1>2 DEF TypeOK, LoginWithItchio, LoginStarts, ItchioLoginEnds, Suspends,
    Ends, tasks
<1>3. CASE CreateGame
  BY <1>3 DEF TypeOK, CreateGame, CreateEnds, Suspends, Ends
<1>4. CASE ListGames
  BY <1>4 DEF TypeOK, ListGames, ListEnds, Suspends, Ends
<1>5. CASE JoinGame
  BY <1>5 DEF TypeOK, JoinGame, JoinFetchFails, JoinOpens, Suspends, Ends
<1>6. CASE ExitGame
  BY <1>6 DEF ExitGame, tasks
<1>7. CASE Cleanup
  BY <1>7 DEF Cleanup
<1>8. CASE Update
  BY <1>8 DEF Update, tasks
<1>9. ASSUME NEW t \in Task, Resume(t) PROVE LoginInv'
  BY <1>9 DEF TypeOK, Resume, Advances, AuthEnds, CookieLoginEnds,
    ItchioLoginEnds, CreateEnds, JoinAdvances, JoinFetchEnds, JoinFetchFails,
    JoinConnects, JoinDisconnects, ListEnds, Ends
<1>10. ASSUME NEW t \in Task, Waiting(t) PROVE LoginInv'
  BY <1>10 DEF Waiting, tasks
<1>11. ASSUME NEW t \in Task, Reap(t) PROVE LoginInv'
  BY <1>11 DEF TypeOK, Reap
<1>12. CASE DeliverMessage
  BY <1>12 DEF DeliverMessage, tasks
<1>13. CASE ReportDisconnect
  BY <1>13 DEF ReportDisconnect, tasks
<1>14. CASE NoMoreEvents
  BY <1>14 DEF NoMoreEvents, tasks
<1>15. CASE Network
  BY <1>15 DEF Network, Connects, Disconnects, Arrives, Unchanged, tasks
<1> QED
  BY <1>1, <1>2, <1>3, <1>4, <1>5, <1>6, <1>7, <1>8, <1>9, <1>10, <1>11, <1>12,
    <1>13, <1>14, <1>15 DEF Next, Call, UpdateStep, NextEvent

LEMMA LoginInvariant == Spec => []LoginInv
<1>1. Init => LoginInv
  BY DEF Init, LoginInv, AuthorizedWithToken, PostedLoginIsCurrent, Reapable
<1> QED
  BY <1>1, ClientTypeOK, LoginStep, PTL DEF Spec

\* An authorized session has a token, if the server's tokens are usable.
THEOREM ClientAuthorizedWithToken == Spec => []AuthorizedWithToken
<1>1. LoginInv => AuthorizedWithToken
  BY DEF LoginInv
<1> QED
  BY <1>1, LoginInvariant, PTL

\* Only reaping the auth task returns an event of it.
LEMMA EventStep ==
  ASSUME TypeOK, Next, event'.type = "auth" PROVE Reap("auth")
<1> USE DEF NoEvent, Event
<1>1. ASSUME NEW t \in Task, Reap(t) PROVE event'.type = t
  BY <1>1 DEF Reap
<1>2. CASE Call \/ Update \/ UpdateStep \/ Network
  BY <1>2 DEF Call, LoginWithCookie, LoginWithItchio, CreateGame, ListGames,
    JoinGame, ExitGame, Cleanup, Update, UpdateStep, Resume, Waiting, InUpdate,
    AppCalls, Network
<1>3. CASE DeliverMessage \/ NoMoreEvents
  BY <1>3 DEF DeliverMessage, NoMoreEvents
<1>4. CASE ReportDisconnect
  BY <1>4 DEF ReportDisconnect
<1> QED
  BY <1>1, <1>2, <1>3, <1>4 DEF Next, NextEvent

\* The answer to a login agrees with auth_state when it is read.
THEOREM ClientLoginAnswerIsCurrent == Spec => LoginAnswerIsCurrent
<1>1. ASSUME TypeOK, LoginInv, [Next]_vars
      PROVE  [event'.type = "auth" /\ TokensUsable
                => (event'.status = "ok" <=> auth_state' = "authorized")]_vars
  BY <1>1, EventStep DEF Reap, LoginInv, PostedLoginIsCurrent, Event
<1> QED
  BY <1>1, ClientTypeOK, LoginInvariant, PTL DEF Spec, LoginAnswerIsCurrent

-----------------------------------------------------------------------------
(* Messages.  What a step does to the transport of the session: the join   *)
(* task releases and empties other ones, which NoDanglingTransport says.   *)

\* What a step that is not the application's leaving keeps.
Kept(i) == /\ inbox'[i] >= inbox[i]
           /\ conn'[i] = "free" => inbox[i] = 0

LEMMA MessageStep ==
  ASSUME TypeOK, NoDanglingTransport, Next, transport # NoTransport
  PROVE  Kept(transport) \/ DeliverMessage \/ ExitGame \/ Cleanup
<1> USE ClientAssumption DEF Kept, NoDanglingTransport
<1> DEFINE Still == inbox' = inbox /\ conn' = conn
<1>1. ASSUME Still PROVE Kept(transport)
  BY <1>1 DEF TypeOK
<1>2. CASE LoginWithCookie \/ LoginWithItchio \/ CreateGame \/ ListGames \/ Update
  BY <1>1, <1>2 DEF LoginWithCookie, LoginWithItchio, CreateGame, ListGames,
    Update, network
<1>3. CASE JoinGame
  BY <1>3 DEF TypeOK, JoinGame, JoinFetchFails, JoinOpens, Released, Emptied
<1>4. ASSUME NEW t \in Task, Resume(t) PROVE Kept(transport)
  <2>1. CASE t # "join"
    BY <1>1, <1>4, <2>1 DEF Resume, Advances, AuthEnds, network
  <2>2. CASE t = "join"
    BY <1>4, <2>2 DEF TypeOK, Resume, Advances, JoinAdvances, JoinFetchEnds,
      JoinFetchFails, JoinConnects, JoinDisconnects, Released, Emptied
  <2> QED
    BY <2>1, <2>2
<1>5. ASSUME NEW t \in Task, Waiting(t) \/ Reap(t) PROVE Kept(transport)
  BY <1>1, <1>5 DEF Waiting, Reap, network
<1>6. CASE ReportDisconnect
  BY <1>6 DEF TypeOK, ReportDisconnect
<1>7. CASE NoMoreEvents
  BY <1>1, <1>7 DEF NoMoreEvents, network
<1>8. CASE Network
  BY <1>8 DEF TypeOK, Network, Connects, Disconnects, Arrives, Unchanged
<1> QED
  BY <1>2, <1>3, <1>4, <1>5, <1>6, <1>7, <1>8 DEF Next, Call, UpdateStep, NextEvent

\* Messages are lost only where the application leaves the game itself.
THEOREM ClientNoMessageLost == Spec => NoMessageLost
<1> DEFINE Lossless == transport # NoTransport =>
             \/ /\ inbox'[transport] >= inbox[transport]
                /\ conn'[transport] = "free" => inbox[transport] = 0
             \/ event'.type = "message"
             \/ ExitGame \/ Cleanup
<1>1. ASSUME TypeOK, NoDanglingTransport, [Next]_vars PROVE [Lossless]_vars
  <2>1. DeliverMessage => event'.type = "message"
    BY DEF DeliverMessage, Event
  <2> QED
    BY <1>1, <2>1, MessageStep DEF Kept
<1> QED
  BY <1>1, ClientTypeOK, ClientNoDanglingTransport, PTL DEF Spec, NoMessageLost

-----------------------------------------------------------------------------
(* The sample application.                                                 *)

Idle == event' = NoEvent /\ UNCHANGED <<status, turn, auth_state, lobby_state,
                                        cookie, tasks, network>>

\* What lobby_state says is so: of the create task, of the join task and of
\* the transport at most one is there, and lobby_state names it.  An answer
\* that was not read yet has not been overtaken.
LobbyHolds ==
  /\ coro["create"] = "suspended" <=> lobby_state = "creating_game"
  /\ coro["join"] = "suspended" <=> lobby_state = "joining_game"
  /\ transport # NoTransport <=> lobby_state = "joined_game"
  /\ Reapable("create") => lobby_state = "in_lobby"
  /\ Reapable("join") => (result["join"] = "ok" <=> transport # NoTransport)
  /\ ~ (Pending("create") /\ Pending("join"))

\* What the place in the frame says: the session is not being updated while
\* the application calls it, every answer was read before the user interface
\* is drawn, and a game that was created is joined from the lobby.
StepHolds ==
  /\ step \in {"start", "created", "ui"} => turn = "app"
  /\ step = "ui" => \A t \in Task : ~ Reapable(t)
  /\ step = "created" => /\ lobby_state = "in_lobby"
                         /\ ~ Pending("create") /\ ~ Pending("join")

LobbyInv == status = "running" => LobbyHolds /\ StepHolds

\* A request holds a token only while it is under way.
TokenInv == games # "reused" /\ token # "reused" /\ (token # "none" => Fetching)

AppInv == AppTypeOK /\ NoDanglingTransport /\ LobbyInv /\ NoTransportLeak /\ TokenInv

-----------------------------------------------------------------------------
\* A step of the application is a step of the client session, or leaves all
\* of it but the last event as it was.
LEMMA AppStepIsClientStep ==
  ASSUME AppNext PROVE [Next]_vars \/ Idle
<1>1. CASE Start
  BY <1>1 DEF Start, Next, Call
<1>2. CASE UpdateFrame
  BY <1>2 DEF UpdateFrame, Next
<1>3. CASE TaskStep
  BY <1>3 DEF TaskStep, Next
<1>4. CASE Drain
  BY <1>4 DEF Drain, Next
<1>5. CASE JoinCreated
  BY <1>5 DEF JoinCreated, Next, Call
<1>6. CASE Draw
  BY <1>6 DEF Draw, PressLogin, PressCreate, PressFind, PressJoin, AppCalls, Next,
    Call, Idle
<1>7. CASE Quit
  BY <1>7 DEF Quit, Next, Call
<1>8. CASE AppNetwork
  BY <1>8 DEF AppNetwork, Next
<1> QED
  BY <1>1, <1>2, <1>3, <1>4, <1>5, <1>6, <1>7, <1>8 DEF AppNext

\* Every step of the application keeps each variable in its type.
LEMMA AppTypeStep ==
  ASSUME AppTypeOK, [AppNext]_appVars PROVE AppTypeOK'
<1> USE DEF AppTypeOK
<1>1. TypeOK'
  <2>1. CASE AppNext
    <3>1. CASE [Next]_vars
      BY <3>1, TypeStep
    <3>2. CASE Idle
      BY <3>2 DEF TypeOK, Idle, tasks, network, NoEvent, Event
    <3> QED
      BY <2>1, <3>1, <3>2, AppStepIsClientStep
  <2>2. CASE UNCHANGED appVars
    BY <2>2, TypeStep DEF appVars
  <2> QED
    BY <2>1, <2>2
<1>2. /\ step' \in {"start", "update", "drain", "created", "ui"}
      /\ games' \in {"none", "live", "reused"}
      /\ token' \in {"none", "create", "list", "reused"}
  BY DEF AppNext, appVars, app, Start, UpdateFrame, TaskStep, Drain, JoinCreated,
    Draw, PressLogin, PressCreate, PressFind, PressJoin, TokenAfter, Quit, AppNetwork
<1> QED
  BY <1>1, <1>2

\* Nor does one leave a transport in use released, or used twice.
LEMMA AppTransportStep ==
  ASSUME AppTypeOK, NoDanglingTransport, [AppNext]_appVars PROVE NoDanglingTransport'
<1> USE DEF AppTypeOK
<1>1. CASE AppNext
  <2>1. CASE [Next]_vars
    BY <2>1, TransportStep
  <2>2. CASE Idle
    BY <2>2 DEF NoDanglingTransport, Idle, tasks, network
  <2> QED
    BY <1>1, <2>1, <2>2, AppStepIsClientStep
<1>2. CASE UNCHANGED appVars
  BY <1>2, TransportStep DEF appVars
<1> QED
  BY <1>1, <1>2

-----------------------------------------------------------------------------
\* lobby_state, the tasks and the transport.

\* What decides LobbyHolds and StepHolds but for the place in the frame.
Untouched(S) ==
  /\ \A t \in S : coro'[t] = coro[t] /\ result'[t] = result[t]
  /\ UNCHANGED <<lobby_state, transport>>

\* Where the two tasks, lobby_state and the transport stay, so does what is
\* said of them.
LEMMA LobbyKept ==
  ASSUME LobbyHolds, Untouched({"create", "join"}) PROVE LobbyHolds'
  BY DEF LobbyHolds, Untouched, Pending, Reapable

\* Logging in touches none of what lobby_state is about.
LEMMA LoginKeepsLobby ==
  ASSUME AppTypeOK, LoginWithCookie \/ LoginWithItchio
  PROVE  Untouched(Task \ {"auth"}) /\ event' = NoEvent /\ UNCHANGED <<turn, joining, conn>>
  BY DEF AppTypeOK, TypeOK, LoginWithCookie, LoginWithItchio, LoginStarts, Untouched,
    CookieLoginEnds, ItchioLoginEnds, Suspends, Ends, network, tasks, AppCalls

\* A game is joined from the lobby: the task begins, or has failed already.
LEMMA JoinFromLobby ==
  ASSUME AppTypeOK, NoDanglingTransport, LobbyHolds, lobby_state = "in_lobby", JoinGame
  PROVE  /\ \/ coro'["join"] = "suspended" /\ lobby_state' = "joining_game"
            \/ /\ coro'["join"] = "dead" /\ lobby_state' = "in_lobby"
               /\ result'["join"] = "failed"
         /\ \A t \in Task \ {"join"} : coro'[t] = coro[t] /\ result'[t] = result[t]
         /\ joining = NoTransport /\ transport = NoTransport
         /\ UNCHANGED <<status, turn, transport>>
<1>1. joining = NoTransport /\ transport = NoTransport
  BY DEF LobbyHolds, NoDanglingTransport
<1>2. /\ coro \in [Task -> {"none", "suspended", "dead"}]
      /\ result \in [Task -> OpStatus \cup {"none"}]
  BY DEF AppTypeOK, TypeOK
<1>3. \/ Suspends("join") /\ lobby_state' = "joining_game"
      \/ Ends("join", "failed") /\ lobby_state' = "in_lobby"
  BY DEF JoinGame, JoinFetchFails, JoinOpens
<1>4. UNCHANGED <<status, turn, transport>>
  BY DEF JoinGame, JoinFetchFails, JoinOpens
<1> QED
  BY <1>1, <1>2, <1>3, <1>4 DEF Suspends, Ends

\* The join task joins from the lobby, and what it leaves is in LobbyHolds.
LEMMA JoinKeepsLobby ==
  ASSUME AppTypeOK, NoDanglingTransport, LobbyHolds, lobby_state = "in_lobby",
         ~ Pending("create"), JoinGame
  PROVE  LobbyHolds'
  BY JoinFromLobby DEF LobbyHolds, Pending, Reapable

\* A task that is resumed ends, or goes on.
LEMMA ResumeKeepsLobby ==
  ASSUME AppTypeOK, NoDanglingTransport, LobbyHolds, NEW t \in Task, Resume(t)
  PROVE  LobbyHolds'
<1>1. /\ coro \in [Task -> {"none", "suspended", "dead"}]
      /\ result \in [Task -> OpStatus \cup {"none"}] /\ coro[t] = "suspended"
  BY DEF AppTypeOK, TypeOK, Resume
<1>2. CASE t = "auth"
  <2>1. Untouched({"create", "join"})
    BY <1>1, <1>2 DEF Resume, Advances, AuthEnds, CookieLoginEnds, ItchioLoginEnds, Ends,
      Untouched, network
  <2> QED
    BY <2>1, LobbyKept
<1>3. CASE t = "create"
  <2>1. /\ coro'["create"] = "dead" /\ lobby_state' = "in_lobby"
        /\ coro'["join"] = coro["join"] /\ result'["join"] = result["join"]
        /\ transport' = transport
    BY <1>1, <1>3 DEF Resume, Advances, CreateEnds, Ends, network
  <2> QED
    BY <1>1, <1>3, <2>1 DEF LobbyHolds, Pending, Reapable
<1>4. CASE t = "list"
  <2>1. Untouched({"create", "join"})
    BY <1>1, <1>4 DEF Resume, Advances, ListEnds, Ends, Untouched, network
  <2> QED
    BY <2>1, LobbyKept
<1>5. CASE t = "join"
  <2>1. coro'["create"] = coro["create"] /\ result'["create"] = result["create"]
    BY <1>1, <1>5 DEF Resume, Advances, JoinAdvances, JoinFetchEnds, JoinFetchFails,
      JoinConnects, JoinDisconnects, Ends
  <2>2. \/ Untouched({"join"})
        \/ /\ coro'["join"] = "dead" /\ result'["join"] = "failed"
           /\ lobby_state' = "in_lobby" /\ transport' = transport
        \/ /\ coro'["join"] = "dead" /\ result'["join"] = "ok"
           /\ lobby_state' = "joined_game" /\ transport' # NoTransport
    BY <1>1, <1>5 DEF Resume, Advances, JoinAdvances, JoinFetchEnds, JoinFetchFails,
      JoinConnects, JoinDisconnects, Ends, Untouched
  <2> QED
    BY <1>1, <1>5, <2>1, <2>2 DEF LobbyHolds, Pending, Reapable, Untouched
<1> QED
  BY <1>2, <1>3, <1>4, <1>5

\* While the application runs, it ran before.
LEMMA StillRunning == AppNext => status = "running"
  BY DEF AppNext, Start, UpdateFrame, TaskStep, UpdateStep, Resume, Waiting,
    InUpdate, Drain, NextEvent, Reap, DeliverMessage, ReportDisconnect, NoMoreEvents,
    NothingToReap, JoinCreated, JoinGame, Draw, AppTurn, Update, AppCalls, Quit, Cleanup,
    AppNetwork, Network

\* Every step of the application keeps lobby_state in step with the tasks.
LEMMA LobbyStep ==
  ASSUME AppInv, [AppNext]_appVars PROVE LobbyInv'
<1> USE DEF AppInv
<1> SUFFICES ASSUME AppNext, status' = "running" PROVE LobbyHolds' /\ StepHolds'
  BY DEF LobbyInv, LobbyHolds, StepHolds, appVars, app, vars, tasks, network, Reapable,
    Pending
<1>1. LobbyHolds /\ StepHolds
  BY StillRunning DEF LobbyInv
<1>2. CASE Start
  <2>1. Untouched({"create", "join"})
    BY <1>2, LoginKeepsLobby DEF Start, vars, tasks, network, Untouched
  <2> QED
    BY <1>1, <1>2, <2>1, LobbyKept DEF Start, StepHolds
<1>3. CASE UpdateFrame
  BY <1>1, <1>3, LobbyKept DEF UpdateFrame, Update, tasks, network, Untouched, StepHolds
<1>4. CASE TaskStep
  <2>1. turn # "app" /\ step' = step
    BY <1>4 DEF TaskStep, UpdateStep, Resume, Waiting, InUpdate
  <2>2. StepHolds'
    BY <1>1, <2>1 DEF StepHolds
  <2>3. ASSUME NEW t \in Task, Waiting(t) PROVE LobbyHolds'
    BY <1>1, <2>3, LobbyKept DEF Waiting, tasks, network, Untouched
  <2> QED
    BY <1>1, <1>4, <2>2, <2>3, ResumeKeepsLobby DEF TaskStep, UpdateStep
<1>5. CASE Drain
  <2>1. turn = "app" /\ turn' = turn
    BY <1>5 DEF Drain, NextEvent, Reap, DeliverMessage, ReportDisconnect, NoMoreEvents,
      NothingToReap, AppTurn
  <2>2. ASSUME NEW t \in Task, Reap(t) PROVE LobbyHolds' /\ StepHolds'
    <3>1. /\ coro' = coro /\ \A u \in Task \ {t} : result'[u] = result[u]
          /\ result'[t] = "none" /\ Reapable(t) /\ lobby_state' = lobby_state
          /\ transport' = transport /\ event' = Event(t, result[t])
      BY <2>2 DEF AppTypeOK, TypeOK, Reap, network
    <3>2. LobbyHolds'
      BY <1>1, <3>1 DEF LobbyHolds, Pending, Reapable
    <3>3. step' \in {"drain", "created"} /\ (step' = "created" => t = "create")
      BY <1>5, <3>1 DEF Drain, NoEvent, Event
    <3>4. StepHolds'
      BY <1>1, <2>1, <3>1, <3>3 DEF StepHolds, LobbyHolds, Pending, Reapable
    <3> QED
      BY <3>2, <3>4
  <2>3. CASE DeliverMessage
    BY <1>1, <1>5, <2>1, <2>3, LobbyKept DEF Drain, DeliverMessage, NoEvent, Event, tasks,
      Untouched, StepHolds
  <2>4. CASE ReportDisconnect
    <3>1. /\ coro' = coro /\ result' = result /\ lobby_state' = "in_lobby"
          /\ transport' = NoTransport /\ transport # NoTransport
          /\ \A t \in Task : ~ Reapable(t)
      BY <2>4 DEF ReportDisconnect, NothingToReap, tasks
    <3>2. LobbyHolds'
      BY <1>1, <3>1 DEF LobbyHolds, Pending, Reapable
    <3>3. step' = "drain"
      BY <1>5, <2>4 DEF Drain, ReportDisconnect, NoEvent, Event
    <3> QED
      BY <3>2, <3>3 DEF StepHolds
  <2>5. CASE NoMoreEvents
    <3>1. /\ coro' = coro /\ result' = result /\ Untouched({"create", "join"})
          /\ \A t \in Task : ~ Reapable(t)
      BY <2>5 DEF NoMoreEvents, NothingToReap, tasks, network, Untouched
    <3>2. step' = "ui"
      BY <1>5, <2>5 DEF Drain, NoMoreEvents, NoEvent, Event
    <3> QED
      BY <1>1, <2>1, <3>1, <3>2, LobbyKept DEF StepHolds, Reapable
  <2> QED
    BY <1>5, <2>2, <2>3, <2>4, <2>5 DEF Drain, NextEvent
<1>6. CASE JoinCreated
  BY <1>1, <1>6, JoinKeepsLobby DEF JoinCreated, StepHolds
<1>7. CASE Draw
  <2>1. InLobby => ~ Pending("create")
    BY <1>1, <1>7 DEF Draw, StepHolds, LobbyHolds, InLobby, Pending
  <2>2. StepHolds' /\ \A t \in Task : ~ Reapable(t)
    BY <1>1, <1>7 DEF Draw, StepHolds
  <2>3. CASE PressLogin
    <3>1. Untouched({"create", "join"})
      BY <2>3, LoginKeepsLobby DEF PressLogin, Untouched
    <3> QED
      BY <1>1, <2>2, <3>1, LobbyKept
  <2>4. CASE PressCreate
    <3>1. /\ \/ coro'["create"] = "suspended" /\ lobby_state' = "creating_game"
             \/ coro'["create"] = "dead" /\ lobby_state' = "in_lobby"
          /\ coro'["join"] = coro["join"] /\ result'["join"] = result["join"]
          /\ transport' = transport /\ lobby_state = "in_lobby"
      BY <2>4 DEF AppTypeOK, TypeOK, PressCreate, InLobby, CreateGame, CreateEnds, Suspends,
        Ends, network
    <3>2. LobbyHolds'
      BY <1>1, <2>2, <3>1 DEF LobbyHolds, Pending, Reapable
    <3> QED
      BY <2>2, <3>2
  <2>5. CASE PressFind
    <3>1. Untouched({"create", "join"})
      BY <2>5 DEF AppTypeOK, TypeOK, PressFind, ListGames, ListEnds, Suspends, Ends, network,
        Untouched
    <3> QED
      BY <1>1, <2>2, <3>1, LobbyKept
  <2>6. CASE PressJoin
    BY <1>1, <2>1, <2>2, <2>6, JoinKeepsLobby DEF PressJoin, InLobby
  <2>7. CASE AppCalls /\ UNCHANGED <<status, turn, auth_state, lobby_state, cookie,
                                     tasks, network, games, token>>
    BY <1>1, <2>2, <2>7, LobbyKept DEF tasks, network, Untouched
  <2> QED
    BY <1>7, <2>3, <2>4, <2>5, <2>6, <2>7 DEF Draw
<1>8. CASE Quit
  BY <1>8 DEF Quit, Cleanup
<1>9. CASE AppNetwork
  <2>1. Unchanged /\ UNCHANGED app
    BY <1>9 DEF AppNetwork, Network, Connects, Disconnects, Arrives
  <2>2. StepHolds'
    BY <1>1, <2>1 DEF Unchanged, tasks, app, StepHolds, Pending, Reapable
  <2> QED
    BY <1>1, <2>1, <2>2, LobbyKept DEF Unchanged, tasks, Untouched
<1> QED
  BY <1>2, <1>3, <1>4, <1>5, <1>6, <1>7, <1>8, <1>9 DEF AppNext

-----------------------------------------------------------------------------
\* Transports.

\* What a step may do to transports in use: the one that is handed over
\* replaces none, and one that is opened is the join task's from then on.
LEMMA LeakStep ==
  ASSUME AppInv, [AppNext]_appVars PROVE NoTransportLeak'
<1> USE ClientAssumption DEF AppInv, AppTypeOK, NoTransportLeak
<1>1. CASE UNCHANGED <<conn, transport, joining>>
  BY <1>1
<1>2. CASE UNCHANGED appVars
  BY <1>1, <1>2 DEF appVars, vars, network
<1>3. CASE Start \/ UpdateFrame
  BY <1>1, <1>3, LoginKeepsLobby DEF Start, UpdateFrame, Update, vars, network, Untouched
<1>4. CASE TaskStep
  <2>1. ASSUME NEW t \in Task, Waiting(t) PROVE NoTransportLeak'
    BY <1>1, <2>1 DEF Waiting, network
  <2>2. ASSUME NEW t \in Task, Resume(t), t # "join" PROVE NoTransportLeak'
    BY <1>1, <2>2 DEF Resume, Advances, AuthEnds, network
  <2>3. CASE Resume("join")
    <3>1. transport = NoTransport
      BY <2>3, StillRunning, <1>4 DEF Resume, LobbyInv, LobbyHolds, AppNext
    <3>2. CASE JoinFetchEnds
      BY <3>1, <3>2 DEF TypeOK, JoinFetchEnds, JoinFetchFails, Released
    <3>3. CASE JoinConnects
      BY <3>1, <3>3 DEF JoinConnects
    <3>4. CASE JoinDisconnects
      BY <3>1, <3>4 DEF TypeOK, JoinDisconnects, Released
    <3> QED
      BY <2>3, <3>2, <3>3, <3>4 DEF Resume, Advances, JoinAdvances
  <2> QED
    BY <1>4, <2>1, <2>2, <2>3 DEF TaskStep, UpdateStep
<1>5. CASE Drain
  <2>1. CASE ReportDisconnect
    BY <2>1 DEF TypeOK, ReportDisconnect
  <2>2. CASE ~ ReportDisconnect
    BY <1>1, <1>5, <2>2 DEF Drain, NextEvent, Reap, DeliverMessage, NoMoreEvents, network
  <2> QED
    BY <2>1, <2>2
<1>6. ASSUME JoinGame PROVE NoTransportLeak'
  BY <1>6 DEF TypeOK, JoinGame, JoinFetchFails, JoinOpens, Released
<1>7. CASE JoinCreated
  BY <1>6, <1>7 DEF JoinCreated
<1>8. CASE Draw
  <2>1. CASE PressJoin
    BY <1>6, <2>1 DEF PressJoin
  <2>2. CASE PressLogin
    BY <1>1, <2>2, LoginKeepsLobby DEF PressLogin, Untouched
  <2>3. CASE ~ PressJoin /\ ~ PressLogin
    BY <1>1, <1>8, <2>3 DEF Draw, PressCreate, PressFind, CreateGame, ListGames, network
  <2> QED
    BY <2>1, <2>2, <2>3
<1>9. CASE Quit
  BY <1>9 DEF TypeOK, Quit, Cleanup
<1>10. CASE AppNetwork
  BY <1>10 DEF TypeOK, AppNetwork, Network, Connects, Disconnects, Arrives, Unchanged
<1> QED
  BY <1>2, <1>3, <1>4, <1>5, <1>7, <1>8, <1>9, <1>10 DEF AppNext

-----------------------------------------------------------------------------
\* Memory of the tasks.

\* No button of the lobby is shown while a request that holds a token is
\* under way, so no task that owns the token is begun under it.
LEMMA TokenStep ==
  ASSUME AppInv, [AppNext]_appVars PROVE TokenInv'
<1> USE DEF AppInv, AppTypeOK, TokenInv, Fetching
<1>1. ASSUME coro'["join"] = coro["join"], joining' = joining, games' # "reused", token' = token
      PROVE  TokenInv'
  BY <1>1
<1>2. CASE UNCHANGED appVars
  BY <1>1, <1>2 DEF appVars, app, vars, tasks, network
<1>3. CASE Start \/ UpdateFrame
  BY <1>1, <1>3, LoginKeepsLobby DEF Start, UpdateFrame, Update, vars, tasks, network, Untouched
<1>4. CASE TaskStep
  BY <1>4 DEF TaskStep
<1>5. CASE Drain
  <2>1. UNCHANGED <<coro, joining, token>>
    BY <1>5 DEF Drain, NextEvent, Reap, DeliverMessage, ReportDisconnect, NoMoreEvents, tasks,
      network
  <2>2. games' # "reused"
    BY <1>5 DEF Drain
  <2> QED
    BY <1>1, <2>1, <2>2
<1>6. CASE JoinCreated
  BY <1>6 DEF JoinCreated
<1>7. CASE Draw
  <2>1. InLobby => token = "none"
    BY <1>7, StillRunning DEF AppNext, InLobby, LobbyInv, LobbyHolds
  <2>2. CASE PressLogin
    BY <1>1, <2>2, LoginKeepsLobby DEF PressLogin, Untouched
  <2>3. CASE PressCreate \/ PressFind
    BY <2>1, <2>3 DEF PressCreate, PressFind, TokenAfter
  <2>4. CASE PressJoin
    BY <2>4 DEF PressJoin
  <2>5. CASE AppCalls /\ UNCHANGED <<status, turn, auth_state, lobby_state, cookie,
                                     tasks, network, games, token>>
    BY <1>1, <2>5 DEF tasks, network
  <2> QED
    BY <1>7, <2>2, <2>3, <2>4, <2>5 DEF Draw
<1>8. CASE Quit
  BY <1>8 DEF Quit
<1>9. CASE AppNetwork
  BY <1>1, <1>9 DEF AppNetwork, Network, Connects, Disconnects, Arrives, Unchanged, app, tasks
<1> QED
  BY <1>2, <1>3, <1>4, <1>5, <1>6, <1>7, <1>8, <1>9 DEF AppNext

-----------------------------------------------------------------------------
\* The invariant, and the theorems it gives.

\* Before the first frame no task has begun and no transport is there.
LEMMA AppInvInit == AppInit => AppInv
<1> SUFFICES ASSUME AppInit PROVE AppInv
  OBVIOUS
<1> USE ClientAssumption DEF AppInit, Init
<1>1. AppTypeOK
  BY DEF AppTypeOK, TypeOK, NoEvent, Event
<1>2. NoDanglingTransport /\ NoTransportLeak
  BY DEF NoDanglingTransport, NoTransportLeak
<1>3. LobbyInv
  BY DEF LobbyInv, LobbyHolds, StepHolds, Pending, Reapable
<1>4. TokenInv
  BY DEF TokenInv
<1> QED
  BY <1>1, <1>2, <1>3, <1>4 DEF AppInv

\* The invariant of every behaviour of the application.
LEMMA AppInvariant == AppSpec => []AppInv
<1>1. ASSUME AppInv, [AppNext]_appVars PROVE AppInv'
  BY <1>1, AppTypeStep, AppTransportStep, LobbyStep, LeakStep, TokenStep DEF AppInv
<1> QED
  BY <1>1, AppInvInit, PTL DEF AppSpec

\* Every variable of the application and of its session keeps its type.
THEOREM AppTypeCorrect == AppSpec => []AppTypeOK
<1>1. AppInv => AppTypeOK
  BY DEF AppInv
<1> QED
  BY <1>1, AppInvariant, PTL

\* The buttons that sample/main.c shows never let a create and a join task
\* run at once, and lobby_state says joined_game exactly while there is a
\* transport.
THEOREM AppOneLobbyCall == AppSpec => []OneLobbyCall
<1>1. AppInv => OneLobbyCall
  BY DEF AppInv, LobbyInv, LobbyHolds, OneLobbyCall
<1> QED
  BY <1>1, AppInvariant, PTL

\* The hand-over of a transport in snet_task_join_game never overwrites one,
\* so each that is allocated can be released.
THEOREM AppNoTransportLeak == AppSpec => []NoTransportLeak
<1>1. AppInv => NoTransportLeak
  BY DEF AppInv
<1> QED
  BY <1>1, AppInvariant, PTL

\* The arena of the create or the list task is never reset under a join
\* request that still points to its token, nor under the games on display.
THEOREM AppNoReusedMemory == AppSpec => []NoReusedMemory
<1>1. AppInv => NoReusedMemory
  BY DEF AppInv, TokenInv, NoReusedMemory
<1> QED
  BY <1>1, AppInvariant, PTL

-----------------------------------------------------------------------------
\* The refinement: what is heard of the sessions.

\* The session is where the join task and the transport are.
LEMMA SessionStays ==
  ASSUME Untouched({"join"}) PROVE Session' = Session
  BY DEF Untouched, Session, Pending, Reapable

\* Without an event nothing is heard.
LEMMA NothingHeard ==
  ASSUME event' = NoEvent PROVE Heard' = "nothing"
  BY DEF NoEvent, Event, Heard

\* A step that no session hears of.
LEMMA QuietStep ==
  ASSUME status = "running", status' = "running", Untouched({"join"}), event' = NoEvent
  PROVE  Abstract!Quiet
  BY SessionStays, NothingHeard DEF Abstract!Quiet

\* Joining a game enters a session: none was entered or open before.
LEMMA EnterStep ==
  ASSUME AppInv, status = "running", lobby_state = "in_lobby", ~ Pending("join"), JoinGame
  PROVE  Abstract!Enter
<1> USE DEF AppInv
<1>1. LobbyHolds
  BY DEF LobbyInv
<1>2. event' = NoEvent /\ status' = "running"
  BY DEF JoinGame, AppCalls
<1>3. Session = "out"
  BY <1>1 DEF LobbyHolds, Session
<1>4. Session' = "entering"
  BY <1>1, JoinFromLobby DEF Session, Pending, Reapable
<1> QED
  BY <1>2, <1>3, <1>4, NothingHeard DEF Abstract!Enter, Abstract!Moves

\* What the events of the drain loop say of the session.
LEMMA DrainStep ==
  ASSUME AppInv, Drain, status = "running" PROVE Abstract!Next
<1> USE DEF AppInv
<1>1. LobbyHolds /\ status' = "running"
  BY DEF LobbyInv, Drain, NextEvent, Reap, DeliverMessage, ReportDisconnect, NoMoreEvents
<1>2. ASSUME NEW t \in Task \ {"join"}, Reap(t) PROVE Abstract!Next
  <2>1. Untouched({"join"}) /\ event'.type = t
    BY <1>2 DEF AppTypeOK, TypeOK, Reap, Untouched, Event, network
  <2>2. event' # Event("join", "ok") /\ event' # Event("join", "failed")
    BY <2>1 DEF Event
  <2>3. Heard' = "nothing"
    BY <2>1, <2>2 DEF Heard
  <2> QED
    BY <1>1, <2>1, <2>3, SessionStays DEF Abstract!Next, Abstract!Quiet
<1>3. CASE Reap("join")
  <2>1. /\ coro' = coro /\ result'["join"] = "none" /\ Reapable("join")
        /\ transport' = transport /\ event' = Event("join", result["join"])
        /\ result["join"] \in OpStatus
    BY <1>3 DEF AppTypeOK, TypeOK, Reap, Reapable, network
  <2>2. Session = "entering"
    BY <2>1 DEF Session, Pending
  <2>3. Session' = IF result["join"] = "ok" THEN "in" ELSE "out"
    BY <1>1, <2>1 DEF LobbyHolds, Session, Pending, Reapable
  <2>4. Heard' = IF result["join"] = "ok" THEN "admitted" ELSE "refused"
    BY <2>1 DEF Heard, Event
  <2> QED
    BY <1>1, <2>1, <2>2, <2>3, <2>4 DEF Abstract!Next, Abstract!Admitted, Abstract!Refused,
      Abstract!Moves
<1>4. ASSUME NothingToReap, transport # NoTransport PROVE Session = "in"
  BY <1>1, <1>4 DEF NothingToReap, LobbyHolds, Session, Pending
<1>5. CASE DeliverMessage
  <2>1. /\ Session = "in" /\ Untouched({"join"}) /\ event' = Event("message", "none")
    BY <1>4, <1>5 DEF DeliverMessage, Untouched, tasks
  <2>2. Heard' = "message"
    BY <2>1 DEF Heard, Event
  <2> QED
    BY <1>1, <2>1, <2>2, SessionStays DEF Abstract!Next, Abstract!Message, Abstract!Moves
<1>6. CASE ReportDisconnect
  <2>1. /\ Session = "in" /\ coro' = coro /\ result' = result /\ transport' = NoTransport
        /\ event' = Event("disconnected", "none") /\ ~ Pending("join")
    BY <1>1, <1>4, <1>6 DEF ReportDisconnect, NothingToReap, LobbyHolds, Pending, tasks
  <2>2. Session' = "out"
    BY <2>1 DEF Session, Pending, Reapable
  <2>3. Heard' = "closed"
    BY <2>1 DEF Heard, Event
  <2> QED
    BY <1>1, <2>1, <2>2, <2>3 DEF Abstract!Next, Abstract!Closed, Abstract!Moves
<1>7. CASE NoMoreEvents
  BY <1>1, <1>7, QuietStep DEF NoMoreEvents, Untouched, tasks, network, Abstract!Next
<1> QED
  BY <1>2, <1>3, <1>5, <1>6, <1>7 DEF Drain, NextEvent

\* The tasks run without anything being heard: a session that is being
\* entered is entered or refused only when its answer is read.
LEMMA TaskStepIsQuiet ==
  ASSUME AppInv, TaskStep, status = "running" PROVE Abstract!Quiet
<1> USE DEF AppInv
<1>1. status' = "running" /\ event' = NoEvent
  BY DEF TaskStep, UpdateStep, Resume, Waiting, InUpdate
<1>2. ASSUME NEW t \in Task, Waiting(t) PROVE Abstract!Quiet
  BY <1>1, <1>2, QuietStep DEF Waiting, tasks, network, Untouched
<1>3. ASSUME NEW t \in Task \ {"join"}, Resume(t) PROVE Abstract!Quiet
  <2>1. coro'["join"] = coro["join"] /\ result'["join"] = result["join"]
    <3>1. \E outcome \in OpStatus : Ends(t, outcome)
      BY <1>3 DEF Resume, Advances, AuthEnds, CookieLoginEnds, ItchioLoginEnds, CreateEnds,
        ListEnds
    <3> QED
      BY <1>3, <3>1 DEF AppTypeOK, TypeOK, Ends
  <2>2. transport' = transport
    BY <1>3 DEF Resume, Advances, AuthEnds, network
  <2> QED
    BY <1>1, <2>1, <2>2, SessionStays, NothingHeard DEF Session, Pending, Reapable, Abstract!Quiet
<1>4. CASE Resume("join")
  <2>1. Session = "entering"
    BY <1>4 DEF Resume, Session, Pending
  <2>2. Session' = "entering"
    BY <1>4 DEF AppTypeOK, TypeOK, Resume, Advances, JoinAdvances, JoinFetchEnds,
      JoinFetchFails, JoinConnects, JoinDisconnects, Ends, Session, Pending, Reapable
  <2> QED
    BY <1>1, <2>1, <2>2, NothingHeard DEF Abstract!Quiet
<1> QED
  BY <1>2, <1>3, <1>4 DEF TaskStep, UpdateStep

\* Every step of the application is a step of the abstract session.
LEMMA SessionStep ==
  ASSUME AppInv, [AppNext]_appVars PROVE [Abstract!Next]_(Abstract!vars)
<1> USE DEF AppInv
<1>1. CASE UNCHANGED appVars
  BY <1>1 DEF appVars, vars, tasks, network, Session, Heard, Pending, Reapable, Abstract!vars
<1> SUFFICES ASSUME AppNext PROVE [Abstract!Next]_(Abstract!vars)
  BY <1>1
<1>2. status = "running" /\ LobbyHolds /\ StepHolds
  BY StillRunning DEF LobbyInv
<1>3. ASSUME LoginWithCookie \/ LoginWithItchio PROVE Abstract!Next
  <2>1. Untouched({"join"}) /\ event' = NoEvent
    BY <1>3, LoginKeepsLobby DEF Untouched
  <2>2. Session' = Session /\ Heard' = "nothing"
    BY <2>1, SessionStays, NothingHeard
  <2> QED
    BY <1>2, <2>2 DEF Abstract!Next, Abstract!Quiet, Abstract!Quit
<1>4. CASE Start
  BY <1>3, <1>4, SessionStays DEF Start, vars, tasks, network, Untouched, Heard, Abstract!vars
<1>5. CASE UpdateFrame
  BY <1>2, <1>5, QuietStep DEF UpdateFrame, Update, AppCalls, tasks, network, Untouched,
    Abstract!Next
<1>6. CASE TaskStep
  BY <1>2, <1>6, TaskStepIsQuiet DEF Abstract!Next
<1>7. CASE Drain
  BY <1>2, <1>7, DrainStep
<1>8. CASE JoinCreated
  BY <1>2, <1>8, EnterStep DEF JoinCreated, StepHolds, Abstract!Next
<1>9. CASE Draw
  <2>1. CASE PressLogin
    BY <1>3, <2>1 DEF PressLogin
  <2>2. CASE PressCreate \/ PressFind
    <3>1. /\ event' = NoEvent /\ status' = status /\ transport' = transport
          /\ \E t \in {"create", "list"} :
               Suspends(t) \/ \E outcome \in OpStatus : Ends(t, outcome)
      BY <2>2 DEF PressCreate, PressFind, CreateGame, CreateEnds, ListGames, ListEnds, network,
        AppCalls
    <3>2. coro'["join"] = coro["join"] /\ result'["join"] = result["join"]
      BY <3>1 DEF AppTypeOK, TypeOK, Suspends, Ends
    <3>3. Session' = Session
      BY <3>1, <3>2 DEF Session, Pending, Reapable
    <3> QED
      BY <1>2, <3>1, <3>3, NothingHeard DEF Abstract!Next, Abstract!Quiet
  <2>3. CASE PressJoin
    <3>1. ~ Pending("join") /\ lobby_state = "in_lobby"
      BY <1>2, <1>9, <2>3 DEF Draw, PressJoin, InLobby, StepHolds, LobbyHolds, Pending
    <3> QED
      BY <1>2, <2>3, <3>1, EnterStep DEF PressJoin, Abstract!Next
  <2>4. CASE AppCalls /\ UNCHANGED <<status, turn, auth_state, lobby_state, cookie,
                                     tasks, network, games, token>>
    BY <1>2, <2>4, QuietStep DEF AppCalls, tasks, network, Untouched,
    Abstract!Next
  <2> QED
    BY <1>9, <2>1, <2>2, <2>3, <2>4 DEF Draw
<1>10. CASE Quit
  <2>1. Session' = "out" /\ status' = "closed" /\ event' = NoEvent
    BY <1>10 DEF Quit, Cleanup, AppCalls, Session, Pending, Reapable
  <2> QED
    BY <1>2, <2>1, NothingHeard DEF Abstract!Next, Abstract!Quit
<1>11. CASE AppNetwork
  BY <1>2, <1>11, QuietStep DEF AppNetwork, Network, Connects, Disconnects, Arrives, Unchanged,
    tasks, Untouched, Abstract!Next
<1> QED
  BY <1>4, <1>5, <1>6, <1>7, <1>8, <1>9, <1>10, <1>11 DEF AppNext

\* What snet_next_event tells the application of its sessions is in order:
\* one answer to each join, messages only in a game, one disconnection.
THEOREM AppSessionOrder == AppSpec => SessionOrder
<1>1. AppInit => Abstract!Init
  BY DEF AppInit, Init, Abstract!Init, Session, Heard, Pending, Reapable, NoEvent, Event
<1> QED
  BY <1>1, AppInvariant, SessionStep, PTL DEF AppSpec, SessionOrder, Abstract!Spec
=============================================================================
