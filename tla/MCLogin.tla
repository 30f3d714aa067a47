------------------------------- MODULE MCLogin -------------------------------
(***************************************************************************)
(* The itch.io login of either build, which is chosen when the program is  *)
(* compiled.                                                               *)
(***************************************************************************)
EXTENDS Integers

CONSTANTS MaxOpened, MaxCon, MaxRequests, MaxLogins

ASSUME LoginAssumption == /\ {MaxOpened, MaxRequests, MaxLogins} \subseteq Nat
                          /\ MaxCon \in Nat \ {0}

VARIABLES build,
          login, slot, count, memory, phase, index, readable, net, shared,
          state, data, listening, current, running, pages, cancelled

Native == INSTANCE NativeLogin
Browser == INSTANCE BrowserLogin

nativeVars == <<login, slot, count, memory, phase, index, readable, net, shared>>
browserVars == <<state, data, listening, current, running, pages, cancelled>>
vars == <<build, nativeVars, browserVars>>

Init == build \in {"native", "browser"} /\ Native!Init /\ Browser!Init

Next ==
  /\ \/ build = "native" /\ Native!Next /\ UNCHANGED browserVars
     \/ build = "browser" /\ Browser!Next /\ UNCHANGED nativeVars
  /\ UNCHANGED build

Spec == Init /\ [][Next]_vars /\ Native!Fairness /\ Browser!Fairness

\* A login's outcome and data have one source, its own page, unless buffers
\* were shared, a callback without success or without data was served after it
\* or a cancelled login left its page open (snet_oauth_httpd, onMessage).
AnswerHasOneSource == Native!AnswerOfOneCallback /\ Browser!AnswerOfOnePage

\* The server's table holds the connections it has open, each once, and none
\* is open when the login is over (wby_update, wby_stop).
SocketsOwned == Native!SocketsOwned

\* A request that was sent whole on an accepted connection is answered, or the
\* connection closed where the request is too large or not as it should be, as
\* long as the browser stays and the login goes on, unless the connection
\* shared its buffer with another; and a login that is answered ends
\* (wby_update_connection, snet_oauth_update).  Requests and logins are bounded
\* in number, so that none is left out if time and again none waits.
RequestsAnswered == []<>(Native!NoneWaits /\ Browser!NoneAnswered)
=============================================================================
