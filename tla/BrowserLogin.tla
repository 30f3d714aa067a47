----------------------------- MODULE BrowserLogin -----------------------------
(***************************************************************************)
(* The itch.io login of the browser build: slopnet_oauth.js and the wasm   *)
(* half of slopnet_oauth.c.  Every login opens a page, and one message     *)
(* listener waits for whichever page answers.                              *)
(***************************************************************************)
EXTENDS Integers, FiniteSets

CONSTANT MaxLogins    \* bound on logins, and so on pages

VARIABLES state,     \* 0 pending, 1 success, 2 failed
          data,      \* the page the data came from, and whether it granted
          listening, \* onMessage is registered
          current,   \* the login: the number of the page it opened
          running,   \* the login task is running
          pages,     \* pages that can still answer
          cancelled  \* a login was cancelled

vars == <<state, data, listening, current, running, pages, cancelled>>

NoData == [page |-> 0, granted |-> FALSE]

Init ==
  /\ state = 0 /\ data = NoData /\ listening = FALSE
  /\ current = 0 /\ running = FALSE /\ pages = {} /\ cancelled = FALSE

\* snet_oauth_begin_js; registering the listener again changes nothing.
Begin ==
  /\ ~ running /\ current < MaxLogins
  /\ state' = 0 /\ data' = NoData /\ listening' = TRUE
  /\ current' = current + 1 /\ running' = TRUE
  /\ pages' = pages \cup {current + 1}
  /\ UNCHANGED cancelled

\* A page answers; who listens hears it, whichever page it is.
Message(p) ==
  /\ p \in pages
  /\ \E granted \in BOOLEAN :
       IF listening
       THEN /\ state' = IF granted THEN 1 ELSE 2
            /\ data' = [page |-> p, granted |-> granted]
            /\ listening' = FALSE
       ELSE UNCHANGED <<state, data, listening>>
  /\ pages' = pages \ {p}
  /\ UNCHANGED <<current, running, cancelled>>

ClosePage(p) ==
  /\ p \in pages
  /\ pages' = pages \ {p}
  /\ UNCHANGED <<state, data, listening, current, running, cancelled>>

\* snet_oauth_update and, once answered, snet_oauth_data and the task's end.
Update ==
  /\ running /\ state # 0
  /\ running' = FALSE
  /\ UNCHANGED <<state, data, listening, current, pages, cancelled>>

\* snet_oauth_end does nothing: page and listener stay.
Cancel ==
  /\ running
  /\ running' = FALSE
  /\ cancelled' = TRUE
  /\ UNCHANGED <<state, data, listening, current, pages>>

Next == Begin \/ Update \/ Cancel \/ \E p \in pages : Message(p) \/ ClosePage(p)

Fairness == WF_vars(Update)

-----------------------------------------------------------------------------

\* The outcome and the data of a login come from one page, its own, unless
\* a cancelled login left its page open, whose answer the next login takes for
\* its own, and so on (onMessage).
AnswerOfOnePage ==
  state # 0 => /\ state = (IF data.granted THEN 1 ELSE 2)
               /\ data.page = current \/ cancelled

\* No login goes on that is answered.
NoneAnswered == ~ (running /\ state # 0)
=============================================================================
