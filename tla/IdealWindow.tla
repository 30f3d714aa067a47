----------------------------- MODULE IdealWindow -----------------------------
(***************************************************************************)
(* What a sequence buffer promises: to remember, of an unbounded stream of *)
(* numbered packets, exactly the ones it was given among the last n        *)
(* numbers, and to answer of each whether it was remembered.  Numbers      *)
(* never wrap here and there are no slots.                                 *)
(***************************************************************************)
EXTENDS Integers

CONSTANTS n,        \* how many numbers the window spans
          Numbers   \* the numbers of the stream

VARIABLES top,      \* one past the newest number entered
          held,     \* the numbers remembered
          call      \* the last call and its answer

vars == <<top, held, call>>

Called(op, s, answer) == [op |-> op, number |-> s, answer |-> answer]

Init == top = 0 /\ held = {} /\ call = Called("create", 0, TRUE)

Newer(s) == IF s >= top THEN s + 1 ELSE top

InWindow(numbers, t) == {s \in numbers : s >= t - n}

Enter(s) ==
  /\ s >= top - n
  /\ top' = Newer(s)
  /\ held' = InWindow(held \cup {s}, top')
  /\ call' = Called("enter", s, TRUE)

Refuse(s) ==
  /\ s < top - n
  /\ call' = Called("enter", s, FALSE)
  /\ UNCHANGED <<top, held>>

\* The window moves so that it ends at s, which is not remembered itself.
Skip(s) ==
  /\ top' = Newer(s)
  /\ held' = InWindow(held, top')
  /\ call' = Called("skip", s, TRUE)

Forget(s) ==
  /\ held' = held \ {s}
  /\ call' = Called("forget", s, s \in held)
  /\ UNCHANGED top

Next == \E s \in Numbers : Enter(s) \/ Refuse(s) \/ Skip(s) \/ Forget(s)

Spec == Init /\ [][Next]_vars
=============================================================================
