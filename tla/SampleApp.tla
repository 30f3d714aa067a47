------------------------------ MODULE SampleApp ------------------------------
(***************************************************************************)
(* The sample application (sample/main.c) on top of the client session:    *)
(* every frame it updates the session, handles all its events, and draws   *)
(* its user interface, in which the user may press at most one of the      *)
(* buttons that auth_state and lobby_state make it show.                   *)
(***************************************************************************)
EXTENDS Client

VARIABLES
  step,    \* where the frame is: "start", "update", "drain", "created" or "ui"
  games,   \* what the games pointer points to: "none" (num_games is 0), the
           \* "live" answer of the last listing, or memory since "reused"
  token    \* where the join token of the join task's request is: memory of
           \* the "create" or the "list" task, "reused" memory, or "none"

app     == <<step, games, token>>
appVars == <<vars, app>>

AppInit == /\ Init
           /\ step = "start" /\ games = "none" /\ token = "none"

Fetching == coro["join"] = "suspended" /\ joining = NoTransport

\* Beginning task t resets its arena, under a request that still points there.
TokenAfter(t) == IF token = t THEN "reused" ELSE token

\* If there is a cookie file, the session starts by logging in with it.
Start ==
  /\ step = "start" /\ AppTurn
  /\ LoginWithCookie \/ UNCHANGED vars
  /\ step' = "update" /\ UNCHANGED <<games, token>>

UpdateFrame ==
  /\ step = "update"
  /\ Update
  /\ step' = "drain" /\ UNCHANGED <<games, token>>

\* The tasks run inside snet_update; a join that ends lets go of its token.
TaskStep ==
  /\ UpdateStep
  /\ token' = IF Fetching' THEN token ELSE "none"
  /\ UNCHANGED <<step, games>>

\* The event loop: it ends when there is no event left.
Drain ==
  /\ step = "drain" /\ NextEvent
  /\ step' = CASE event' = NoEvent -> "ui"
               [] event' = Event("create", "ok") -> "created"
               [] OTHER -> "drain"
  /\ games' \in IF event' = Event("list", "ok") THEN {"live", "none"} ELSE {games}
  /\ UNCHANGED token

\* A game that was created is joined while its event is being handled.
JoinCreated ==
  /\ step = "created"
  /\ JoinGame
  /\ step' = "drain"
  /\ token' = IF Fetching' THEN "create" ELSE "none"
  /\ UNCHANGED games

InLobby == auth_state = "authorized" /\ lobby_state = "in_lobby"

PressLogin ==
  /\ auth_state = "unauthorized"
  /\ LoginWithItchio
  /\ UNCHANGED <<games, token>>

PressCreate ==
  /\ InLobby
  /\ CreateGame
  /\ token' = TokenAfter("create") /\ UNCHANGED games

\* Mutant of PressFind: the games listed before stay on display.
PressFindKeeping ==
  /\ InLobby
  /\ ListGames
  /\ games' = IF games = "live" THEN "reused" ELSE games
  /\ token' = TokenAfter("list")

PressFind ==
  /\ InLobby
  /\ ListGames
  /\ games' = "none"
  /\ token' = TokenAfter("list")

\* Mutant of PressJoin: listed games can be joined from anywhere.
PressJoinAnywhere ==
  /\ auth_state = "authorized"
  /\ games # "none"
  /\ JoinGame
  /\ token' = IF Fetching' THEN "list" ELSE "none"
  /\ UNCHANGED games

PressJoin ==
  /\ InLobby
  /\ games # "none"
  /\ JoinGame
  /\ token' = IF Fetching' THEN "list" ELSE "none"
  /\ UNCHANGED games

\* Drawing a frame, with one button pressed or none.
Draw ==
  /\ step = "ui" /\ AppTurn
  /\ \/ PressLogin \/ PressCreate \/ PressFind \/ PressJoin
     \/ AppCalls /\ UNCHANGED <<status, turn, auth_state, lobby_state, cookie,
                                tasks, network, games, token>>
  /\ step' = "update"

Quit ==
  /\ step = "update"
  /\ Cleanup
  /\ token' = "none" /\ UNCHANGED <<step, games>>

\* The network acts between two frames (the browser) or from inside
\* snet_update (cute_net), and never while events are handled.
AppNetwork == /\ step = "update" \/ turn # "app"
              /\ Network /\ UNCHANGED app

AppNext == \/ Start \/ UpdateFrame \/ TaskStep \/ Drain \/ JoinCreated
           \/ Draw \/ Quit \/ AppNetwork

\* A frame is always finished and the next one begun, or the program quits;
\* a request or a connection that is waited for is not waited for forever.
FrameAdvances == Start \/ UpdateFrame \/ TaskStep \/ Drain \/ JoinCreated \/ Draw

Fairness ==
  /\ WF_appVars(FrameAdvances)
  /\ \A t \in Task : SF_appVars(Resume(t) /\ TaskStep)
  /\ \A i \in TransportId :
       SF_appVars(AppNetwork /\ conn[i] = "connecting" /\ conn'[i] # "connecting")

AppSpec == AppInit /\ [][AppNext]_appVars /\ Fairness

-----------------------------------------------------------------------------
(* Properties.                                                             *)

AppTypeOK ==
  /\ TypeOK
  /\ step \in {"start", "update", "drain", "created", "ui"}
  /\ games \in {"none", "live", "reused"}
  /\ token \in {"none", "create", "list", "reused"}

Pending(t) == coro[t] = "suspended" \/ Reapable(t)

\* The user interface never lets two of the calls that assign lobby_state
\* run at once, and shows "In game" exactly while the session has a
\* transport: so the answer of an earlier call never overwrites the state
\* of a later one (lobby_state is a single variable of slopnet.c).
OneLobbyCall ==
  status = "running" =>
    /\ ~ (coro["create"] = "suspended" /\ coro["join"] = "suspended")
    /\ lobby_state = "joined_game" <=> transport # NoTransport
    /\ transport # NoTransport =>
         coro["create"] # "suspended" /\ coro["join"] # "suspended"

\* Every transport that is allocated can still be released: the hand-over at
\* line 650 of slopnet.c never overwrites one.
NoTransportLeak ==
  \A i \in TransportId : conn[i] # "free" => i \in {transport, joining}

\* Memory of a task that has begun again is not used: neither the token a
\* join request in flight was given, nor the list of games on display
\* (snet_task_end resets the arena of both).
NoReusedMemory == token # "reused" /\ games # "reused"

\* What the abstract session is in terms of the client's state.
Heard ==
  CASE event = Event("join", "ok")     -> "admitted"
    [] event = Event("join", "failed") -> "refused"
    [] event.type = "message"          -> "message"
    [] event.type = "disconnected"     -> "closed"
    [] OTHER                           -> "nothing"

Session ==
  IF Pending("join") THEN "entering"
  ELSE IF transport # NoTransport THEN "in" ELSE "out"

Abstract == INSTANCE GameSession
              WITH session <- Session, heard <- Heard, open <- status = "running"

\* What the application hears of its sessions is in order: an answer to each
\* join before anything else of that session, messages only in between, one
\* disconnection at the end (snet_next_event, the event loop of main.c).
SessionOrder == Abstract!Spec

\* A login, a game being created and a game being joined are always heard
\* of again.
Answered ==
  \A t \in {"auth", "create", "join"} :
    Pending(t) ~> (~ Pending(t) \/ status # "running")
=============================================================================
