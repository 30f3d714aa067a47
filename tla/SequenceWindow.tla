---------------------------- MODULE SequenceWindow ----------------------------
(***************************************************************************)
(* A sequence buffer driven by the packets of a long-lived connection, for *)
(* as long as the packets stay within reach of the newest one.  "top" is   *)
(* the unbounded number the code does not have: buffer.sequence is what    *)
(* is left of it in 16 bits.                                               *)
(***************************************************************************)
EXTENDS SequenceBuffer

CONSTANTS Entries,   \* size of the ring: 256, or 64 for reassembly
          Bits,      \* 32: the packets one header acknowledges
          Ahead,     \* how far past the newest a packet may be
          Behind,    \* how far behind the newest a packet may be
          MaxNumber  \* bound on the packets of the connection

ASSUME WindowAssumption ==
  /\ {Entries, Bits, Ahead, Behind, MaxNumber} \subseteq Nat
  /\ Entries > 0 /\ SeqMod % Entries = 0
  /\ Bits <= Entries
  /\ Ahead < Half - Entries /\ Behind <= Half

VARIABLES buffer, top, call

vars == <<buffer, top, call>>

Window == {s \in top - Entries .. top - 1 : s >= 0}

Held == {s \in Window : Exists(buffer, Wrap(s))}

Ideal == INSTANCE IdealWindow
           WITH n <- Entries, Numbers <- 0 .. MaxNumber, held <- Held

Init ==
  /\ buffer = EmptyBuffer(Entries)
  /\ top = 0
  /\ call = Ideal!Called("create", 0, TRUE)

Nearby == {s \in top - Behind .. top + Ahead : s \in 0 .. MaxNumber}

\* A packet numbered s is entered; a stale one leaves everything as it was.
Enter(s) ==
  /\ buffer' = Insert(buffer, Wrap(s))
  /\ top' = Ideal!Newer(s)
  /\ call' = Ideal!Called("enter", s, TestInsert(buffer, Wrap(s)))

\* The first fragment of packet s moves the received window on to s.
Skip(s) ==
  /\ buffer' = Advance(buffer, Wrap(s))
  /\ top' = Ideal!Newer(s)
  /\ call' = Ideal!Called("skip", s, TRUE)

\* A reassembled packet is taken out of the ring, if it is still there.
Forget(s) ==
  /\ buffer' = IF Exists(buffer, Wrap(s)) THEN Remove(buffer, Wrap(s)) ELSE buffer
  /\ call' = Ideal!Called("forget", s, Exists(buffer, Wrap(s)))
  /\ UNCHANGED top

Next == \E s \in Nearby : Enter(s) \/ Skip(s) \/ Forget(s)

Spec == Init /\ [][Next]_vars

-----------------------------------------------------------------------------

TypeOK ==
  /\ buffer \in Buffer(Entries)
  /\ top \in 0 .. MaxNumber + 1
  /\ call \in [op: {"create", "enter", "skip", "forget"},
               number: 0 .. MaxNumber, answer: BOOLEAN]

\* No slot keeps a number that has left the window: after the numbers wrap,
\* such a left-over would pass for a packet that has not arrived yet
\* (reliable_sequence_buffer_remove_entries).
NoLeftover ==
  \A i \in DOMAIN buffer.entry :
    buffer.entry[i] # Vacant => \E s \in Window : buffer.entry[i] = Wrap(s)

\* A packet header acknowledges the packets received among the newest Bits
\* numbers, those and no other, wherever the numbers stand in their cycle
\* (reliable_sequence_buffer_generate_ack_bits).
AcksExactly ==
  AckSet(buffer, Bits) = {Wrap(s) : s \in {h \in Held : h >= top - Bits}}

\* The ring over wrapping numbers is the unbounded window: nothing in reach
\* is dropped, resurrected or refused (reliable_sequence_buffer_insert,
\* _advance, _remove, _exists and _test_insert).
RefinesIdeal == Ideal!Spec
=============================================================================
