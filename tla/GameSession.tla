----------------------------- MODULE GameSession -----------------------------
(***************************************************************************)
(* What an application sees of its game sessions through the events of     *)
(* slopnet.h: a session it asks to enter either admits it or does not,     *)
(* once; a session it is in gives it messages, then closes, once; and      *)
(* nothing is heard of a session otherwise.                                *)
(***************************************************************************)

VARIABLES session,   \* "out", "entering" or "in"
          heard,     \* what was heard last, or "nothing"
          open       \* FALSE once the program has quit

vars == <<session, heard, open>>

Init == session = "out" /\ heard = "nothing" /\ open = TRUE

\* From one standing to another, hearing of it.
Moves(from, to, news) ==
  /\ open /\ UNCHANGED open
  /\ session = from /\ session' = to
  /\ heard' = news

Enter    == Moves("out", "entering", "nothing")
Admitted == Moves("entering", "in", "admitted")
Refused  == Moves("entering", "out", "refused")
Message  == Moves("in", "in", "message")
Closed   == Moves("in", "out", "closed")
Quiet    == open /\ heard' = "nothing" /\ UNCHANGED <<session, open>>
Quit     == /\ open /\ open' = FALSE
            /\ session' \in {session, "out"} /\ heard' = "nothing"

Next == Enter \/ Admitted \/ Refused \/ Message \/ Closed \/ Quiet \/ Quit

Spec == Init /\ [][Next]_vars
=============================================================================
