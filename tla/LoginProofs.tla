----------------------------- MODULE LoginProofs -----------------------------
(***************************************************************************)
(* The login page, of either build: the server's table holds the           *)
(* connections it has open, and an answer has one source, for any number   *)
(* of connections, requests, slots and logins.                             *)
(*                                                                         *)
(* An answer is taken from the two halves of a request that are in one     *)
(* buffer, so NativeInv says of every connection what there is of its      *)
(* request (RequestInv) as long as its buffer is its own (BufferInv).      *)
(***************************************************************************)
EXTENDS MCLogin, Sequences, SequenceTheorems, WellFoundedInduction, TLAPS

\* A half of a request, or nothing.
Piece == [con: Native!Con, number: Nat, kind: Native!Kind, half: {1, 2}]

SlotType ==
  [socket: Native!Con \cup {0}, buffer: 1 .. MaxCon, used: {0, 1},
   alive: BOOLEAN, fresh: BOOLEAN]

Connection ==
  [status: {"none", "queued", "accepted", "left"}, open: BOOLEAN, stream: Seq(Piece),
   asked: Nat, asking: Native!Kind \cup {"none"}, halfSent: Native!Kind \cup {"none"},
   answered: Nat]

NativeTypeOK ==
  /\ login \in [state: {"pending", "success", "failed"}, data: Piece \cup {Native!Blank},
                verdict: Piece \cup {Native!Blank}]
  /\ slot \in [1 .. MaxCon -> SlotType] /\ count \in 0 .. MaxCon
  /\ memory \in [1 .. MaxCon -> Piece \cup {Native!Blank}]
  /\ index \in Nat
  /\ net \in [Native!Con -> Connection] /\ shared \in SUBSET Native!Con

\* The table of connections is the set of those that are open.
TableInv ==
  /\ \A i \in 1 .. count : slot[i].socket \in Native!Con /\ net[slot[i].socket].open
  /\ \A i, k \in 1 .. count : slot[i].socket = slot[k].socket => i = k
  /\ \A c \in Native!Con : net[c].open => \E i \in 1 .. count : slot[i].socket = c

\* Where the server is, and which connections may be dead there.
PhaseInv ==
  /\ phase = "off" => login = Native!NoAnswer
  /\ phase \in {"off", "failed", "stopped"} => count = 0
  /\ phase \in {"idle", "accept", "updated"} => \A i \in 1 .. count : slot[i].alive
  /\ phase \in {"accept", "serve"} => index # 0
  /\ phase = "serve" => \A i \in index .. count : i \in 1 .. count => slot[i].alive

\* A connection that is not open is queued, new or over, and what it has sent is its own.
NetInv ==
  \A c \in Native!Con :
    /\ net[c].open => net[c].status \in {"accepted", "left"}
    /\ net[c].status = "none" => net[c] = Native!NoConnection
    /\ \A j \in DOMAIN net[c].stream : net[c].stream[j].con = c

\* Two connections with one buffer are marked as such, and a first half in a
\* buffer is that of the connection, or of another that had the same.
BufferInv ==
  /\ \A i, k \in 1 .. count : i # k /\ slot[i].buffer = slot[k].buffer => slot[i].socket \in shared
  /\ \A i \in 1 .. count : slot[i].used = 1 =>
       \/ memory[slot[i].buffer].con = slot[i].socket
       \/ slot[i].socket \in shared /\ memory[slot[i].buffer].con \in shared

\* What is there of the request of a connection, which the browser has as "e".
Waits(e, c, there) ==
  \/ e.asked = e.answered /\ e.halfSent = "none" /\ there = <<>>
  \/ /\ e.asked = e.answered + 1 /\ e.halfSent # "none"
     /\ there = <<Native!Half(c, e.asked, e.halfSent, 1)>>
  \/ /\ e.asked = e.answered + 1 /\ e.halfSent = "none"
     /\ \E kind \in Native!Kind :
          there = <<Native!Half(c, e.asked, kind, 1), Native!Half(c, e.asked, kind, 2)>>

\* What has arrived of it, in the buffer and behind it.
There(k, first, stream) == IF k.used = 0 THEN stream ELSE <<first>> \o stream

RequestInv ==
  /\ \A c \in Native!Con : net[c].status = "queued" => Waits(net[c], c, net[c].stream)
  /\ \A i \in 1 .. count : slot[i].alive /\ slot[i].socket \notin shared =>
       Waits(net[slot[i].socket], slot[i].socket,
             There(slot[i], memory[slot[i].buffer], net[slot[i].socket].stream))

NativeInv ==
  NativeTypeOK /\ TableInv /\ PhaseInv /\ NetInv /\ BufferInv /\ RequestInv
    /\ Native!AnswerOfOneCallback

\* Until a login is cancelled, only the page of the current one can answer.
BrowserInv ==
  /\ current \in Nat /\ pages \in SUBSET Nat /\ listening \in BOOLEAN
  /\ Browser!AnswerOfOnePage
  /\ ~ cancelled =>
       /\ pages \subseteq {current} /\ (listening => state = 0)
       /\ (state # 0 => pages = {}) /\ (~ running => pages = {})

-----------------------------------------------------------------------------
(* The native build.                                                       *)

\* A set of natural numbers has a least one.
LEMMA LeastNat ==
  ASSUME NEW T \in SUBSET Nat, T # {}
  PROVE  \E x \in T : \A y \in T : x <= y
<1> DEFINE R == OpToRel(<, Nat)
<1>1. \E x \in T : \A y \in T : ~ (<<y, x>> \in R)
  <2>1. IsWellFoundedOn(R, Nat)
    BY NatLessThanWellFounded
  <2> HIDE DEF R
  <2> QED BY <2>1, WFMin
<1>2. \A x, y \in Nat : x < y => <<x, y>> \in R
  BY DEF OpToRel
<1>3. \A x, y \in Nat : x < y \/ y <= x
  OBVIOUS
<1>4. \A x \in T : x \in Nat
  OBVIOUS
<1> HIDE DEF R
<1> QED BY <1>1, <1>2, <1>3, <1>4, Zenon

LEMMA MinIsIn ==
  ASSUME NEW T \in SUBSET Nat, T # {}
  PROVE  Native!Min(T) \in T
<1>1. \E x \in T : \A y \in T : x <= y
  BY LeastNat
<1> QED BY <1>1 DEF Native!Min

LEMMA Cons == Native!Con \subseteq Nat /\ 0 \notin Native!Con /\ MaxCon \in Nat /\ MaxCon > 0
  BY LoginAssumption DEF Native!Con

LEMMA NativeInit == Native!Init => NativeInv
<1> SUFFICES ASSUME Native!Init PROVE NativeInv
  OBVIOUS
<1> USE DEF Native!Init
<1>1. NativeTypeOK
  <2>1. login \in [state: {"pending", "success", "failed"}, data: Piece \cup {Native!Blank},
                   verdict: Piece \cup {Native!Blank}]
    BY DEF Native!NoAnswer
  <2>2. slot \in [1 .. MaxCon -> SlotType] /\ count \in 0 .. MaxCon /\ index \in Nat
    BY Cons DEF Native!EmptySlot, SlotType
  <2>3. memory \in [1 .. MaxCon -> Piece \cup {Native!Blank}] /\ shared \in SUBSET Native!Con
    OBVIOUS
  <2>4. Native!NoConnection \in Connection
    BY DEF Native!NoConnection, Connection
  <2>5. net \in [Native!Con -> Connection]
    BY <2>4
  <2> QED BY <2>1, <2>2, <2>3, <2>5 DEF NativeTypeOK
<1>2. \A c \in Native!Con : net[c] = Native!NoConnection
  OBVIOUS
<1>3. count = 0
  OBVIOUS
<1>4. TableInv /\ BufferInv
  BY <1>2, <1>3 DEF TableInv, BufferInv, Native!NoConnection
<1>5. PhaseInv
  BY <1>3 DEF PhaseInv
<1>6. NetInv
  BY <1>2 DEF NetInv, Native!NoConnection
<1>7. RequestInv
  BY <1>2, <1>3 DEF RequestInv, Native!NoConnection
<1>8. Native!AnswerOfOneCallback
  BY DEF Native!AnswerOfOneCallback, Native!NoAnswer
<1> QED BY <1>1, <1>4, <1>5, <1>6, <1>7, <1>8 DEF NativeInv

\* The server moves on, and nothing else changes.
LEMMA PhaseStep ==
  ASSUME NativeInv, UNCHANGED <<login, slot, count, memory, net, shared>>,
         index' \in Nat, PhaseInv'
  PROVE  NativeInv'
<1>1. NativeTypeOK' /\ TableInv' /\ NetInv' /\ BufferInv'
  BY DEF NativeInv, NativeTypeOK, TableInv, NetInv, BufferInv
<1>2. RequestInv'
  BY DEF NativeInv, RequestInv
<1>3. Native!AnswerOfOneCallback'
  BY DEF NativeInv, Native!AnswerOfOneCallback
<1> QED BY <1>1, <1>2, <1>3 DEF NativeInv

LEMMA BeginStep ==
  ASSUME NativeInv, Native!Begin
  PROVE  NativeInv'
<1>1. /\ UNCHANGED <<slot, count, memory, index, readable, net, shared>>
      /\ phase = "off" /\ phase' \in {"idle", "failed"}
      /\ login' = login \/ login' = [login EXCEPT !.state = "failed"]
  BY DEF Native!Begin
<1>2. login = Native!NoAnswer /\ count = 0
  BY <1>1 DEF NativeInv, PhaseInv
<1>3. NativeTypeOK' /\ TableInv' /\ NetInv' /\ BufferInv'
  BY <1>1 DEF NativeInv, NativeTypeOK, TableInv, NetInv, BufferInv
<1>4. RequestInv'
  BY <1>1 DEF NativeInv, RequestInv
<1>5. PhaseInv'
  BY <1>1, <1>2 DEF PhaseInv
<1>6. Native!AnswerOfOneCallback'
  BY <1>1, <1>2 DEF Native!AnswerOfOneCallback, Native!NoAnswer
<1> QED BY <1>3, <1>4, <1>5, <1>6 DEF NativeInv

\* Stopping the server closes every connection that it has open.
LEMMA StopStep ==
  ASSUME NativeInv, Native!Stop
  PROVE  NativeInv'
<1>1. /\ phase' = "stopped" /\ count' = 0
      /\ slot' = [i \in 1 .. MaxCon |-> Native!EmptySlot(i)]
      /\ memory' = [b \in 1 .. MaxCon |-> Native!Blank]
      /\ UNCHANGED <<login, index, readable, shared>>
  BY DEF Native!Stop
<1>2. ASSUME NEW c \in Native!Con PROVE net'[c] = Native!NoConnection
  <2>1. net[c].open => c \in Native!StillOpen
    BY DEF NativeInv, TableInv, Native!StillOpen
  <2>2. net[c].open \in BOOLEAN
    BY DEF NativeInv, NativeTypeOK, Connection
  <2>3. net'[c] = [Native!NoConnection EXCEPT !.open = net[c].open /\ c \notin Native!StillOpen]
    BY DEF Native!Stop
  <2> QED BY <2>1, <2>2, <2>3 DEF Native!NoConnection
<1>3. net' \in [Native!Con -> Connection]
  <2>1. Native!NoConnection \in Connection
    BY DEF Native!NoConnection, Connection
  <2>2. net' = [c \in Native!Con |-> net'[c]]
    BY DEF Native!Stop
  <2> QED BY <1>2, <2>1, <2>2
<1>4. NativeTypeOK'
  <2>1. slot' \in [1 .. MaxCon -> SlotType] /\ count' \in 0 .. MaxCon
    BY <1>1, Cons DEF Native!EmptySlot, SlotType
  <2> QED BY <1>1, <1>3, <2>1 DEF NativeInv, NativeTypeOK
<1>5. TableInv' /\ BufferInv'
  BY <1>1, <1>2 DEF TableInv, BufferInv, Native!NoConnection
<1>6. PhaseInv'
  BY <1>1 DEF PhaseInv
<1>7. NetInv'
  BY <1>2 DEF NetInv, Native!NoConnection
<1>8. RequestInv'
  BY <1>1, <1>2 DEF RequestInv, Native!NoConnection
<1>9. Native!AnswerOfOneCallback'
  BY <1>1 DEF NativeInv, Native!AnswerOfOneCallback
<1> QED BY <1>4, <1>5, <1>6, <1>7, <1>8, <1>9 DEF NativeInv

\* The browser does something on one connection, and no more.
LEMMA NetStep ==
  ASSUME NativeInv, NEW c \in Native!Con, NEW e \in Connection,
         UNCHANGED <<login, slot, count, memory, phase, index, shared>>,
         net' = [net EXCEPT ![c] = e], e.open = net[c].open,
         e.open => e.status \in {"accepted", "left"}, e.status # "none",
         \A j \in DOMAIN e.stream : e.stream[j].con = c,
         e.status = "queued" => Waits(e, c, e.stream),
         \A i \in 1 .. count : slot[i].socket = c /\ slot[i].alive /\ c \notin shared =>
           Waits(e, c, There(slot[i], memory[slot[i].buffer], e.stream))
  PROVE  NativeInv'
<1>1. net'[c] = e /\ \A d \in Native!Con \ {c} : net'[d] = net[d]
  BY DEF NativeInv, NativeTypeOK
<1>2. NativeTypeOK'
  BY DEF NativeInv, NativeTypeOK
<1>3. TableInv'
  BY <1>1 DEF NativeInv, TableInv
<1>4. PhaseInv' /\ BufferInv'
  BY DEF NativeInv, PhaseInv, BufferInv
<1>5. NetInv'
  BY <1>1 DEF NativeInv, NetInv
<1>6. RequestInv'
  <2>1. \A d \in Native!Con : net'[d].status = "queued" => Waits(net'[d], d, net'[d].stream)
    BY <1>1 DEF NativeInv, RequestInv
  <2>2. ASSUME NEW i \in 1 .. count, slot[i].alive, slot[i].socket \notin shared
        PROVE  Waits(net'[slot[i].socket], slot[i].socket,
                     There(slot[i], memory[slot[i].buffer], net'[slot[i].socket].stream))
    <3>1. slot[i].socket \in Native!Con
      BY DEF NativeInv, TableInv
    <3>2. CASE slot[i].socket = c
      BY <1>1, <2>2, <3>2
    <3>3. CASE slot[i].socket # c
      BY <1>1, <2>2, <3>1, <3>3 DEF NativeInv, RequestInv
    <3> QED BY <3>2, <3>3
  <2> QED BY <2>1, <2>2 DEF RequestInv
<1>7. Native!AnswerOfOneCallback'
  BY DEF NativeInv, Native!AnswerOfOneCallback
<1> QED BY <1>2, <1>3, <1>4, <1>5, <1>6, <1>7 DEF NativeInv

\* What is sent comes after what is there.
LEMMA ThereAppend ==
  ASSUME NEW k, k.used \in {0, 1}, NEW S, NEW m \in S, NEW s \in Seq(S), NEW h \in S
  PROVE  There(k, m, Append(s, h)) = Append(There(k, m, s), h)
<1>1. <<m>> \in Seq(S) /\ <<h>> \in Seq(S)
  OBVIOUS
<1>2. <<m>> \o Append(s, h) = Append(<<m>> \o s, h)
  <2>1. Append(s, h) = s \o <<h>> /\ Append(<<m>> \o s, h) = (<<m>> \o s) \o <<h>>
    BY AppendIsConcat, ConcatProperties, <1>1
  <2>2. <<m>> \o (s \o <<h>>) = (<<m>> \o s) \o <<h>>
    BY ConcatAssociative, <1>1
  <2> QED BY <2>1, <2>2
<1> QED BY <1>2 DEF There

LEMMA AppendTwo ==
  ASSUME NEW S, NEW a \in S, NEW b \in S
  PROVE  Append(<<a>>, b) = <<a, b>>
<1> DEFINE s == <<a>>
           t == <<a, b>>
<1>1. s \in Seq(S) /\ Len(s) = 1 /\ s[1] = a /\ t \in Seq(S) /\ Len(t) = 2 /\ t[1] = a /\ t[2] = b
  OBVIOUS
<1> HIDE DEF s, t
<1>2. /\ Append(s, b) \in Seq(S) /\ Len(Append(s, b)) = 2
      /\ Append(s, b)[1] = a /\ Append(s, b)[2] = b
  BY SMTT(30), <1>1
<1>3. Append(s, b) = t
  BY <1>1, <1>2, SeqEqual
<1> QED BY <1>3 DEF s, t

\* What the invariant says of a connection in the table.
LEMMA InTable ==
  ASSUME NativeInv, NEW i \in 1 .. count
  PROVE  /\ i \in 1 .. MaxCon /\ slot[i] \in SlotType
         /\ slot[i].socket \in Native!Con /\ net[slot[i].socket] \in Connection
         /\ net[slot[i].socket].open
         /\ memory[slot[i].buffer] \in Piece \cup {Native!Blank}
<1>1. i \in 1 .. MaxCon
  BY Cons DEF NativeInv, NativeTypeOK
<1>2. slot[i] \in SlotType
  BY <1>1 DEF NativeInv, NativeTypeOK
<1>3. slot[i].buffer \in 1 .. MaxCon
  BY <1>2 DEF SlotType
<1> QED BY <1>1, <1>2, <1>3 DEF NativeInv, NativeTypeOK, TableInv

LEMMA HalfIsPiece ==
  ASSUME NEW c \in Native!Con, NEW n \in Nat, NEW kind \in Native!Kind, NEW h \in {1, 2}
  PROVE  Native!Half(c, n, kind, h) \in Piece /\ Native!Half(c, n, kind, h).con = c
BY DEF Native!Half, Piece

LEMMA ConnectStep ==
  ASSUME NativeInv, NEW c \in Native!Con, Native!Connect(c)
  PROVE  NativeInv'
<1>1. net[c].status = "none" /\ c \in Nat
  <2>1. (net[c].status = "none") = (c >= c) /\ c \in Nat
    BY Cons DEF Native!Connect
  <2> QED BY <2>1
<1>2. net[c] = Native!NoConnection
  BY <1>1 DEF NativeInv, NetInv
<1> DEFINE e == [Native!NoConnection EXCEPT !.status = "queued"]
<1>3. /\ e \in Connection /\ e.open = FALSE /\ e.stream = <<>> /\ e.status = "queued"
      /\ Waits(e, c, e.stream)
  <2> DEFINE o == Native!NoConnection
  <2>1. /\ o \in Connection /\ o.open = FALSE /\ o.stream = <<>>
        /\ o.asked = 0 /\ o.answered = 0 /\ o.halfSent = "none"
    BY DEF Native!NoConnection, Connection
  <2> HIDE DEF o
  <2>2. e = [o EXCEPT !.status = "queued"]
    BY DEF o
  <2> HIDE DEF e
  <2>3. /\ e \in Connection /\ e.open = FALSE /\ e.stream = <<>> /\ e.status = "queued"
        /\ e.asked = 0 /\ e.answered = 0 /\ e.halfSent = "none"
    BY <2>1, <2>2 DEF Connection
  <2> QED BY <2>3 DEF Waits
<1>4. net' = [net EXCEPT ![c] = e]
  BY <1>2 DEF Native!Connect, NativeInv, NativeTypeOK
<1>5. \A i \in 1 .. count : slot[i].socket # c
  BY <1>2 DEF NativeInv, TableInv, Native!NoConnection
<1>6. UNCHANGED <<login, slot, count, memory, phase, index, shared>> /\ net[c].open = FALSE
  BY <1>2 DEF Native!Connect, Native!NoConnection
<1> HIDE DEF e
<1>7. \A j \in DOMAIN e.stream : e.stream[j].con = c
  BY <1>3
<1> QED BY NetStep, <1>3, <1>4, <1>5, <1>6, <1>7

LEMMA AskStep ==
  ASSUME NativeInv, NEW c \in Native!Con, Native!Ask(c)
  PROVE  NativeInv'
<1>1. /\ net[c].halfSent = "none" /\ net[c].asked = net[c].answered
      /\ net[c].status = "queued" \/ net[c].open
  BY DEF Native!Ask, Native!CanAsk, Native!Reachable
<1>2. PICK kind \in Native!Kind :
        net' = [net EXCEPT
          ![c].stream = Append(@, Native!Half(c, net[c].asked + 1, kind, 1)),
          ![c].asked = @ + 1, ![c].asking = kind, ![c].halfSent = kind]
  BY DEF Native!Ask
<1> DEFINE h == Native!Half(c, net[c].asked + 1, kind, 1)
           e == [net[c] EXCEPT !.stream = Append(@, h), !.asked = @ + 1, !.asking = kind,
                               !.halfSent = kind]
<1>3. net[c] \in Connection
  BY DEF NativeInv, NativeTypeOK
<1>4. h \in Piece /\ h.con = c
  BY <1>3, HalfIsPiece DEF Connection
<1>5. kind # "none" /\ e.asked = net[c].asked + 1 /\ h = Native!Half(c, e.asked, kind, 1)
  BY <1>3 DEF Native!Kind, Connection
<1> HIDE DEF h
<1>6. net' = [net EXCEPT ![c] = e]
  BY <1>2, <1>3 DEF h, NativeInv, NativeTypeOK, Connection
<1>7. /\ e \in Connection /\ e.open = net[c].open /\ e.status = net[c].status
      /\ e.stream = Append(net[c].stream, h) /\ e.halfSent = kind
      /\ e.answered = net[c].answered /\ net[c].stream \in Seq(Piece)
  <2>1. net[c].stream \in Seq(Piece) /\ net[c].asked \in Nat
    BY <1>3 DEF Connection
  <2>2. Append(net[c].stream, h) \in Seq(Piece) /\ net[c].asked + 1 \in Nat
    BY <1>4, <2>1
  <2>3. e = [net[c] EXCEPT !.stream = Append(net[c].stream, h), !.asked = net[c].asked + 1,
                           !.asking = kind, !.halfSent = kind]
    BY <1>3 DEF Connection
  <2> DEFINE s == Append(net[c].stream, h)
             n == net[c].asked + 1
  <2>4. e = [net[c] EXCEPT !.stream = s, !.asked = n, !.asking = kind,
                           !.halfSent = kind]
    BY <2>3
  <2>5. s \in Seq(Piece) /\ n \in Nat
    BY <2>2
  <2> HIDE DEF e, s, n
  <2>6. /\ e \in Connection /\ e.open = net[c].open /\ e.status = net[c].status
        /\ e.stream = s /\ e.halfSent = kind /\ e.answered = net[c].answered
    BY <1>3, <2>4, <2>5 DEF Connection
  <2> QED BY <2>1, <2>6 DEF s
<1> HIDE DEF e
<1>8. /\ e.open => e.status \in {"accepted", "left"}
      /\ e.status # "none"
      /\ \A j \in DOMAIN e.stream : e.stream[j].con = c
  <2>1. /\ net[c].open => net[c].status \in {"accepted", "left"}
        /\ \A j \in DOMAIN net[c].stream : net[c].stream[j].con = c
    BY DEF NativeInv, NetInv
  <2> QED BY <1>1, <1>4, <1>7, <2>1
<1>9. ASSUME NEW there \in Seq(Piece), Waits(net[c], c, there)
      PROVE  there = <<>>
  BY <1>1, <1>3, <1>9 DEF Waits, Connection
<1>10. Waits(e, c, <<h>>)
  BY <1>1, <1>5, <1>7 DEF Waits
<1>11. e.status = "queued" => Waits(e, c, e.stream)
  <2>1. SUFFICES ASSUME net[c].status = "queued" PROVE Waits(e, c, e.stream)
    BY <1>7
  <2>2. net[c].stream = <<>>
    BY <1>7, <1>9, <2>1 DEF NativeInv, RequestInv
  <2>3. e.stream = <<h>>
    BY <1>7, <2>2
  <2> QED BY <1>10, <2>3
<1>12. ASSUME NEW i \in 1 .. count, slot[i].socket = c, slot[i].alive, c \notin shared
       PROVE  Waits(e, c, There(slot[i], memory[slot[i].buffer], e.stream))
  <2>1. slot[i].used \in {0, 1}
    BY InTable DEF SlotType
  <2>2. Waits(net[c], c, There(slot[i], memory[slot[i].buffer], net[c].stream))
    BY <1>12 DEF NativeInv, RequestInv
  <2>3. slot[i].used = 0 /\ net[c].stream = <<>>
    <3>1. \A d : Waits(net[c], c, d) => d = <<>>
      BY <1>1, <1>3 DEF Waits, Connection
    <3>2. There(slot[i], memory[slot[i].buffer], net[c].stream) = <<>>
      BY <2>2, <3>1
    <3>3. <<memory[slot[i].buffer]>> \o net[c].stream # <<>>
      <4>1. net[c].stream \in Seq(Piece \cup {Native!Blank})
        BY <1>7
      <4>2. memory[slot[i].buffer] \in Piece \cup {Native!Blank}
        BY InTable
      <4> QED BY <4>1, <4>2
    <3> QED BY <1>7, <2>1, <3>2, <3>3 DEF There
  <2>4. There(slot[i], memory[slot[i].buffer], e.stream) = <<h>>
    BY <1>7, <2>3 DEF There
  <2> QED BY <1>10, <2>4
<1>13. UNCHANGED <<login, slot, count, memory, phase, index, shared>>
  BY DEF Native!Ask
<1> QED BY NetStep, <1>6, <1>7, <1>8, <1>11, <1>12, <1>13

LEMMA AskRestStep ==
  ASSUME NativeInv, NEW c \in Native!Con, Native!AskRest(c)
  PROVE  NativeInv'
<1>1. /\ net[c].halfSent # "none"
      /\ net[c].status = "queued" \/ net[c].open
  BY DEF Native!AskRest, Native!Reachable
<1> DEFINE h == Native!Half(c, net[c].asked, net[c].halfSent, 2)
           e == [net[c] EXCEPT !.stream = Append(@, h), !.halfSent = "none"]
<1>2. net[c] \in Connection
  BY DEF NativeInv, NativeTypeOK
<1>3. net[c].halfSent \in Native!Kind /\ net[c].asked \in Nat
  BY <1>1, <1>2 DEF Connection
<1>4. h \in Piece /\ h.con = c
  BY <1>3, HalfIsPiece
<1>5. net' = [net EXCEPT ![c] = e]
  BY <1>2 DEF Native!AskRest, NativeInv, NativeTypeOK, Connection
<1> HIDE DEF h
<1>6. /\ e \in Connection /\ e.open = net[c].open /\ e.status = net[c].status
      /\ e.stream = Append(net[c].stream, h) /\ e.halfSent = "none"
      /\ e.asked = net[c].asked /\ e.answered = net[c].answered
      /\ net[c].stream \in Seq(Piece)
  <2> DEFINE s == Append(net[c].stream, h)
  <2>1. net[c].stream \in Seq(Piece)
    BY <1>2 DEF Connection
  <2>2. s \in Seq(Piece)
    BY <1>4, <2>1
  <2>3. e = [net[c] EXCEPT !.stream = s, !.halfSent = "none"]
    BY <1>2 DEF Connection
  <2> HIDE DEF e, s
  <2>4. /\ e \in Connection /\ e.open = net[c].open /\ e.status = net[c].status
        /\ e.stream = s /\ e.halfSent = "none"
        /\ e.asked = net[c].asked /\ e.answered = net[c].answered
    BY <1>2, <2>2, <2>3 DEF Connection
  <2> QED BY <2>1, <2>4 DEF s
<1> HIDE DEF e
<1>7. /\ e.open => e.status \in {"accepted", "left"}
      /\ e.status # "none"
      /\ \A j \in DOMAIN e.stream : e.stream[j].con = c
  <2>1. /\ net[c].open => net[c].status \in {"accepted", "left"}
        /\ \A j \in DOMAIN net[c].stream : net[c].stream[j].con = c
    BY DEF NativeInv, NetInv
  <2> QED BY <1>1, <1>4, <1>6, <2>1
<1>8. ASSUME NEW there, Waits(net[c], c, there)
      PROVE  Waits(e, c, Append(there, h))
  <2>1. /\ net[c].asked = net[c].answered + 1
        /\ there = <<Native!Half(c, net[c].asked, net[c].halfSent, 1)>>
    BY <1>1, <1>8 DEF Waits
  <2>2. Append(there, h) = <<Native!Half(c, net[c].asked, net[c].halfSent, 1), h>>
    <3>1. Native!Half(c, net[c].asked, net[c].halfSent, 1) \in Piece
      BY <1>3, HalfIsPiece
    <3> QED BY <1>4, <2>1, <3>1, AppendTwo
  <2> QED BY <1>3, <1>6, <2>1, <2>2 DEF Waits, h
<1>9. e.status = "queued" => Waits(e, c, e.stream)
  BY <1>6, <1>8 DEF NativeInv, RequestInv
<1>10. ASSUME NEW i \in 1 .. count, slot[i].socket = c, slot[i].alive, c \notin shared
       PROVE  Waits(e, c, There(slot[i], memory[slot[i].buffer], e.stream))
  <2>1. slot[i].used \in {0, 1}
    BY InTable DEF SlotType
  <2>2. Waits(net[c], c, There(slot[i], memory[slot[i].buffer], net[c].stream))
    BY <1>10 DEF NativeInv, RequestInv
  <2>3. There(slot[i], memory[slot[i].buffer], e.stream)
          = Append(There(slot[i], memory[slot[i].buffer], net[c].stream), h)
    <3>1. net[c].stream \in Seq(Piece \cup {Native!Blank}) /\ h \in Piece \cup {Native!Blank}
      BY <1>4, <1>6
    <3>2. memory[slot[i].buffer] \in Piece \cup {Native!Blank}
      BY InTable
    <3> DEFINE S == Piece \cup {Native!Blank}
               k == slot[i]
               m == memory[slot[i].buffer]
               s == net[c].stream
    <3> HIDE DEF S, k, m, s
    <3>3. k.used \in {0, 1} /\ m \in S /\ s \in Seq(S) /\ h \in S
      BY <2>1, <3>1, <3>2 DEF S, k, m, s
    <3>4. There(k, m, Append(s, h)) = Append(There(k, m, s), h)
      BY ThereAppend, <3>3
    <3> QED BY <1>6, <3>4 DEF k, m, s
  <2> QED BY <1>8, <2>2, <2>3
<1>11. UNCHANGED <<login, slot, count, memory, phase, index, shared>>
  BY DEF Native!AskRest
<1> QED BY NetStep, <1>5, <1>6, <1>7, <1>9, <1>10, <1>11

LEMMA LeaveStep ==
  ASSUME NativeInv, NEW c \in Native!Con, Native!Leave(c)
  PROVE  NativeInv'
<1> DEFINE e == [net[c] EXCEPT !.status = "left"]
<1>1. net[c] \in Connection
  BY DEF NativeInv, NativeTypeOK
<1>2. net' = [net EXCEPT ![c] = e]
  BY <1>1 DEF Native!Leave, NativeInv, NativeTypeOK, Connection
<1>3. /\ e \in Connection /\ e.open = net[c].open /\ e.status = "left"
      /\ e.stream = net[c].stream
      /\ \A there : Waits(net[c], c, there) => Waits(e, c, there)
  BY <1>1 DEF Connection, Waits
<1> HIDE DEF e
<1>4. \A j \in DOMAIN e.stream : e.stream[j].con = c
  BY <1>3 DEF NativeInv, NetInv
<1>5. ASSUME NEW i \in 1 .. count, slot[i].socket = c, slot[i].alive, c \notin shared
      PROVE  Waits(e, c, There(slot[i], memory[slot[i].buffer], e.stream))
  BY <1>3, <1>5 DEF NativeInv, RequestInv
<1>6. UNCHANGED <<login, slot, count, memory, phase, index, shared>>
  BY DEF Native!Leave
<1> QED BY NetStep, <1>2, <1>3, <1>4, <1>5, <1>6

-----------------------------------------------------------------------------
(* The steps of wby_update.                                                *)

LEMMA SelectStep ==
  ASSUME NativeInv, Native!Select
  PROVE  NativeInv'
<1>1. /\ UNCHANGED <<login, slot, count, memory, net, shared>> /\ index' = 1
      /\ phase = "idle" /\ phase' \in {"accept", "serve"}
  BY DEF Native!Select
<1>2. \A i \in 1 .. count : slot[i].alive
  BY <1>1 DEF NativeInv, PhaseInv
<1>3. PhaseInv'
  BY <1>1, <1>2 DEF PhaseInv
<1> QED BY <1>1, <1>3, PhaseStep

LEMMA AcceptEndsStep ==
  ASSUME NativeInv, Native!AcceptEnds
  PROVE  NativeInv'
<1>1. /\ UNCHANGED <<login, slot, count, memory, index, net, shared>>
      /\ phase = "accept" /\ phase' = "serve"
  BY DEF Native!AcceptEnds
<1>2. index # 0 /\ index \in Nat /\ \A i \in 1 .. count : slot[i].alive
  BY <1>1 DEF NativeInv, PhaseInv, NativeTypeOK
<1>3. PhaseInv'
  BY <1>1, <1>2 DEF PhaseInv
<1> QED BY <1>1, <1>2, <1>3, PhaseStep

LEMMA UpdateEndsStep ==
  ASSUME NativeInv, Native!UpdateEnds
  PROVE  NativeInv'
<1>1. /\ UNCHANGED <<login, slot, count, memory, net, shared>>
      /\ phase' = "updated" /\ index' = 0
  BY DEF Native!UpdateEnds
<1>2. \A i \in 1 .. count : slot[i].alive
  BY DEF Native!UpdateEnds, Native!Stale
<1>3. PhaseInv'
  BY <1>1, <1>2 DEF PhaseInv
<1> QED BY <1>1, <1>3, PhaseStep

LEMMA ReturnStep ==
  ASSUME NativeInv, Native!Return
  PROVE  NativeInv'
<1>1. CASE login.state = "pending"
  <2>1. /\ UNCHANGED <<login, slot, count, memory, index, net, shared>>
        /\ phase = "updated" /\ phase' = "idle"
    BY <1>1 DEF Native!Return
  <2>2. index \in Nat /\ PhaseInv'
    BY <2>1 DEF NativeInv, NativeTypeOK, PhaseInv
  <2> QED BY <2>1, <2>2, PhaseStep
<1>2. CASE login.state # "pending"
  BY <1>2, StopStep DEF Native!Return
<1> QED BY <1>1, <1>2

LEMMA UpdateFailedStep ==
  ASSUME NativeInv, Native!UpdateFailed
  PROVE  NativeInv'
<1>1. CASE Native!Stop
  BY <1>1, StopStep
<1>2. CASE ~ Native!Stop
  <2>1. /\ UNCHANGED <<login, slot, count, memory, index, net, shared>>
        /\ phase = "failed" /\ phase' = "trapped"
    BY <1>2 DEF Native!UpdateFailed
  <2>2. index \in Nat /\ PhaseInv'
    BY <2>1 DEF NativeInv, NativeTypeOK, PhaseInv
  <2> QED BY <2>1, <2>2, PhaseStep
<1> QED BY <1>1, <1>2

\* The connection accepted is in none of the slots, and what it has sent is
\* all there is of its request.
LEMMA AcceptStep ==
  ASSUME NativeInv, Native!Accept
  PROVE  NativeInv'
<1> DEFINE c == Native!Min(Native!Queued)
           n == count + 1
           b == slot[n].buffer
           k == [Native!EmptySlot(b) EXCEPT !.socket = c, !.alive = TRUE, !.fresh = TRUE]
           e == [net[c] EXCEPT !.status = "accepted", !.open = TRUE]
           sharers == Native!SharersOf(b)
<1>1. /\ phase = "accept" /\ count < MaxCon /\ Native!Queued # {}
      /\ slot' = [slot EXCEPT ![n] = k]
      /\ net' = [net EXCEPT ![c].status = "accepted", ![c].open = TRUE]
      /\ shared' = IF sharers = {} THEN shared ELSE shared \cup sharers \cup {c}
      /\ count' = n /\ UNCHANGED <<login, memory, phase, index>>
  BY DEF Native!Accept
<1>2. c \in Native!Con /\ net[c].status = "queued"
  <2>1. Native!Queued \in SUBSET Nat
    BY Cons DEF Native!Queued
  <2>2. c \in Native!Queued
    BY <1>1, <2>1, MinIsIn
  <2> HIDE DEF c
  <2> QED BY <2>2 DEF Native!Queued
<1> HIDE DEF c
<1>3. n \in 1 .. MaxCon /\ n \notin 1 .. count /\ 1 .. n = (1 .. count) \cup {n} /\ n \in Nat
  BY <1>1, Cons DEF NativeInv, NativeTypeOK
<1>4. b \in 1 .. MaxCon
  BY <1>3 DEF NativeInv, NativeTypeOK, SlotType
<1>5. /\ k \in SlotType /\ k.socket = c /\ k.buffer = b /\ k.used = 0 /\ k.alive
  BY <1>2, <1>4 DEF Native!EmptySlot, SlotType
<1>6. \A i \in 1 .. count : slot[i].buffer = b => slot[i].socket \in sharers
  BY DEF Native!SharersOf
<1>7. sharers \in SUBSET Native!Con
  BY DEF Native!SharersOf, NativeInv, TableInv
<1>8. net[c] \in Connection /\ net[c].open = FALSE
  BY <1>2 DEF NativeInv, NativeTypeOK, NetInv, Connection
<1>9. /\ e \in Connection /\ e.status = "accepted" /\ e.open /\ e.stream = net[c].stream
      /\ e.asked = net[c].asked /\ e.halfSent = net[c].halfSent /\ e.answered = net[c].answered
  BY <1>8 DEF Connection
<1>10. net' = [net EXCEPT ![c] = e]
  BY <1>1, <1>2, <1>8 DEF NativeInv, NativeTypeOK, Connection
<1> HIDE DEF k, e, b, sharers
<1>10a. 1 .. count \subseteq 1 .. MaxCon
  BY Cons DEF NativeInv, NativeTypeOK
<1> HIDE DEF n
<1>11. slot'[n] = k /\ \A i \in 1 .. count : slot'[i] = slot[i] /\ i \in 1 .. MaxCon
  BY <1>1, <1>3, <1>10a DEF NativeInv, NativeTypeOK
<1>12. net'[c] = e /\ \A d \in Native!Con \ {c} : net'[d] = net[d]
  BY <1>10, <1>2 DEF NativeInv, NativeTypeOK
<1>13. \A i \in 1 .. count :
         /\ slot[i].socket \in Native!Con \ {c}
         /\ net'[slot[i].socket] = net[slot[i].socket]
  BY <1>8, <1>12 DEF NativeInv, TableInv
<1>14. shared \subseteq shared'
  BY <1>1
<1>15. NativeTypeOK'
  <2>1. slot' \in [1 .. MaxCon -> SlotType]
    BY <1>1, <1>5 DEF NativeInv, NativeTypeOK
  <2>3. net' \in [Native!Con -> Connection]
    BY <1>9, <1>10 DEF NativeInv, NativeTypeOK
  <2>2. count' \in 0 .. MaxCon /\ shared' \in SUBSET Native!Con
    BY <1>1, <1>2, <1>3, <1>7, Cons DEF NativeInv, NativeTypeOK
  <2> QED BY <1>1, <2>1, <2>2, <2>3 DEF NativeInv, NativeTypeOK
<1>16. TableInv'
  <2>1. \A i \in 1 .. n : slot'[i].socket \in Native!Con /\ net'[slot'[i].socket].open
    BY <1>2, <1>3, <1>5, <1>9, <1>11, <1>12, <1>13 DEF NativeInv, TableInv
  <2>2. \A i, j \in 1 .. n : slot'[i].socket = slot'[j].socket => i = j
    BY <1>3, <1>5, <1>11, <1>13 DEF NativeInv, TableInv
  <2>3. ASSUME NEW d \in Native!Con, net'[d].open
        PROVE  \E i \in 1 .. n : slot'[i].socket = d
    <3>1. CASE d = c
      BY <1>3, <1>5, <1>11, <3>1
    <3>2. CASE d # c
      <4>1. PICK i \in 1 .. count : slot[i].socket = d
        BY <1>12, <2>3, <3>2 DEF NativeInv, TableInv
      <4> QED BY <1>3, <1>11, <4>1
    <3> QED BY <3>1, <3>2
  <2> QED BY <1>1, <2>1, <2>2, <2>3 DEF TableInv
<1>17. PhaseInv'
  <2>1. \A i \in 1 .. n : slot'[i].alive
    BY <1>1, <1>3, <1>5, <1>11 DEF NativeInv, PhaseInv
  <2> QED BY <1>1, <2>1 DEF NativeInv, PhaseInv
<1>18. NetInv'
  <2>1. \A j \in DOMAIN e.stream : e.stream[j].con = c
    BY <1>2, <1>9 DEF NativeInv, NetInv
  <2> QED BY <1>2, <1>9, <1>12, <2>1 DEF NativeInv, NetInv
<1>19. BufferInv'
  <2>1. ASSUME NEW i \in 1 .. n, NEW j \in 1 .. n, i # j, slot'[i].buffer = slot'[j].buffer
        PROVE  slot'[i].socket \in shared'
    <3>1. CASE i \in 1 .. count /\ j \in 1 .. count
      BY <1>11, <1>14, <2>1, <3>1 DEF NativeInv, BufferInv
    <3>2. CASE i = n /\ j \in 1 .. count
      <4>1. slot[j].socket \in sharers
        BY <1>5, <1>6, <1>11, <2>1, <3>2
      <4> QED BY <1>1, <1>5, <1>11, <3>2, <4>1
    <3>3. CASE i \in 1 .. count /\ j = n
      <4>1. slot[i].socket \in sharers
        BY <1>5, <1>6, <1>11, <2>1, <3>3
      <4> QED BY <1>1, <1>5, <1>11, <3>3, <4>1
    <3> QED BY <1>3, <2>1, <3>1, <3>2, <3>3
  <2>2. ASSUME NEW i \in 1 .. n, slot'[i].used = 1
        PROVE  \/ memory'[slot'[i].buffer].con = slot'[i].socket
               \/ slot'[i].socket \in shared' /\ memory'[slot'[i].buffer].con \in shared'
    <3>1. i \in 1 .. count
      BY <1>3, <1>5, <1>11, <2>2
    <3> QED BY <1>1, <1>11, <1>14, <2>2, <3>1 DEF NativeInv, BufferInv
  <2> QED BY <1>1, <2>1, <2>2 DEF BufferInv
<1>20. RequestInv'
  <2>1. ASSUME NEW d \in Native!Con, net'[d].status = "queued"
        PROVE  Waits(net'[d], d, net'[d].stream)
    BY <1>9, <1>12, <2>1 DEF NativeInv, RequestInv
  <2>2. ASSUME NEW i \in 1 .. n, slot'[i].alive, slot'[i].socket \notin shared'
        PROVE  Waits(net'[slot'[i].socket], slot'[i].socket,
                     There(slot'[i], memory'[slot'[i].buffer], net'[slot'[i].socket].stream))
    <3>1. CASE i \in 1 .. count
      BY <1>1, <1>11, <1>13, <1>14, <2>2, <3>1 DEF NativeInv, RequestInv
    <3>2. CASE i = n
      <4>1. Waits(net[c], c, net[c].stream)
        BY <1>2 DEF NativeInv, RequestInv
      <4>2. Waits(e, c, e.stream)
        BY <1>9, <4>1 DEF Waits
      <4>3. There(k, memory'[k.buffer], e.stream) = e.stream
        BY <1>5 DEF There
      <4> QED BY <1>5, <1>11, <1>12, <3>2, <4>2, <4>3
    <3> QED BY <1>3, <3>1, <3>2
  <2> QED BY <1>1, <2>1, <2>2 DEF RequestInv
<1>21. Native!AnswerOfOneCallback'
  BY <1>1, <1>14 DEF NativeInv, Native!AnswerOfOneCallback
<1> QED BY <1>15, <1>16, <1>17, <1>18, <1>19, <1>20, <1>21 DEF NativeInv

\* The first half of what is there, as the buffer keeps it.
LEMMA FirstHalf ==
  ASSUME NEW k, k.used \in {0, 1}, NEW S, NEW m \in S, NEW s \in Seq(S)
  PROVE  /\ There(k, m, s) \in Seq(S)
         /\ There(k, m, s) = <<>> => k.used = 0 /\ Head(There(k, m, s) \o <<m>>) = m
         /\ There(k, m, s) # <<>> => Head(There(k, m, s) \o <<m>>) = There(k, m, s)[1]
         /\ k.used = 0 => There(k, m, s) = s
         /\ k.used = 1 => /\ Len(There(k, m, s)) = Len(s) + 1 /\ There(k, m, s)[1] = m
                          /\ \A j \in DOMAIN s : There(k, m, s)[j + 1] = s[j]
<1> DEFINE o == <<m>>
<1>1. o \in Seq(S) /\ Len(o) = 1 /\ o[1] = m /\ o # <<>>
  OBVIOUS
<1> HIDE DEF o
<1>2. ASSUME NEW r \in Seq(S)
      PROVE  /\ r = <<>> => Head(r \o o) = m
             /\ r # <<>> => Head(r \o o) = r[1]
  BY <1>1
<1>3. CASE k.used = 0
  BY <1>2, <1>3 DEF There, o
<1>4. CASE k.used = 1
  <2>1. There(k, m, s) = o \o s
    BY <1>4 DEF There, o
  <2>2. /\ o \o s \in Seq(S) /\ Len(o \o s) = Len(s) + 1 /\ (o \o s)[1] = m
    <3>1. o \o s \in Seq(S) /\ Len(o \o s) = Len(o) + Len(s)
      BY <1>1, ConcatProperties
    <3>2. (o \o s)[1] = IF 1 <= Len(o) THEN o[1] ELSE s[1 - Len(o)]
      <4>1. 1 \in 1 .. Len(o) + Len(s)
        BY <1>1
      <4> QED BY <1>1, <4>1, ConcatProperties
    <3> QED BY <1>1, <3>1, <3>2
  <2>3. o \o s # <<>>
    BY <2>2
  <2>4. \A j \in 1 .. Len(s) : (o \o s)[j + 1] = s[j]
    <3>1. \A j \in 1 .. Len(s) : /\ j + 1 \in 1 .. Len(o) + Len(s)
                                /\ j + 1 > Len(o) /\ j + 1 - Len(o) = j
      BY <1>1
    <3> QED BY SMTT(30), <1>1, <3>1, ConcatProperties
  <2>5. DOMAIN s = 1 .. Len(s)
    OBVIOUS
  <2> QED BY <1>2, <1>4, <2>1, <2>2, <2>3, <2>4, <2>5 DEF o
<1> QED BY <1>3, <1>4

\* One connection is served: its slot, which becomes k, the buffer, which
\* holds m, and what the browser has of it, e, change.
Served(i, k, e, m) ==
  /\ phase = "serve" /\ UNCHANGED <<phase, count, shared>>
  /\ i \in index .. count /\ i \in 1 .. count /\ index' = i + 1
  /\ k \in SlotType /\ k.socket = slot[i].socket /\ k.buffer = slot[i].buffer
  /\ slot' = [slot EXCEPT ![i] = k]
  /\ e \in Connection /\ e.open /\ e.status \in {"accepted", "left"} /\ e.stream = <<>>
  /\ net' = [net EXCEPT ![k.socket] = e]
  /\ m \in Piece \cup {Native!Blank} /\ (m = memory[k.buffer] \/ m.con = k.socket)
  /\ memory' = [memory EXCEPT ![k.buffer] = m]
  /\ k.used = 1 => m.con = k.socket \/ {k.socket, m.con} \subseteq shared
  /\ k.alive /\ k.socket \notin shared => Waits(e, k.socket, There(k, m, <<>>))
  /\ login' \in [state: {"pending", "success", "failed"}, data: Piece \cup {Native!Blank},
                  verdict: Piece \cup {Native!Blank}]
  /\ Native!AnswerOfOneCallback'

LEMMA ServedStep ==
  ASSUME NativeInv, NEW i, NEW k, NEW e, NEW m, Served(i, k, e, m)
  PROVE  NativeInv'
<1> USE DEF Served
<1>1. /\ k.socket \in Native!Con /\ k.buffer \in 1 .. MaxCon /\ i \in 1 .. MaxCon
      /\ i \in Nat /\ count \in Nat
  <2>1. i \in 1 .. MaxCon /\ slot[i].socket \in Native!Con
    BY InTable
  <2>2. k.buffer \in 1 .. MaxCon
    BY DEF SlotType
  <2>3. count \in Nat
    BY Cons DEF NativeInv, NativeTypeOK
  <2> QED BY <2>1, <2>2, <2>3
<1>2. slot'[i] = k /\ \A j \in (1 .. count) \ {i} : slot'[j] = slot[j]
  BY <1>1, Cons DEF NativeInv, NativeTypeOK
<1>3. net'[k.socket] = e /\ \A c \in Native!Con \ {k.socket} : net'[c] = net[c]
  BY <1>1 DEF NativeInv, NativeTypeOK
<1>4. memory'[k.buffer] = m /\ \A b \in (1 .. MaxCon) \ {k.buffer} : memory'[b] = memory[b]
  BY <1>1 DEF NativeInv, NativeTypeOK
<1>5. \A j \in 1 .. count : slot'[j].socket = slot[j].socket /\ slot'[j].buffer = slot[j].buffer
  BY <1>2
<1>6. \A j \in (1 .. count) \ {i} : slot[j].socket \in Native!Con \ {k.socket}
                                   /\ slot[j].buffer \in 1 .. MaxCon
  BY InTable DEF SlotType, NativeInv, TableInv
<1>7. NativeTypeOK'
  <2>1. slot' \in [1 .. MaxCon -> SlotType]
    BY DEF NativeInv, NativeTypeOK
  <2>2. net' \in [Native!Con -> Connection]
    BY DEF NativeInv, NativeTypeOK
  <2>3. memory' \in [1 .. MaxCon -> Piece \cup {Native!Blank}]
    BY DEF NativeInv, NativeTypeOK
  <2> QED BY <1>1, <2>1, <2>2, <2>3 DEF NativeInv, NativeTypeOK
<1>8. TableInv'
  <2>1. \A j \in 1 .. count : net'[slot[j].socket].open /\ slot[j].socket \in Native!Con
    BY <1>1, <1>3, <1>6 DEF NativeInv, TableInv
  <2>2. \A c \in Native!Con : net'[c].open => net[c].open
    BY <1>3, InTable
  <2> QED BY <1>5, <2>1, <2>2 DEF NativeInv, TableInv
<1>9. PhaseInv'
  <2>1. index \in Nat /\ \A j \in i + 1 .. count : j \in index .. count /\ j \in (1 .. count) \ {i}
    BY <1>1 DEF NativeInv, NativeTypeOK
  <2>2. \A j \in i + 1 .. count : slot'[j].alive
    BY <1>2, <2>1 DEF NativeInv, PhaseInv
  <2> QED BY <1>1, <2>2 DEF PhaseInv
<1>10. NetInv'
  BY <1>3 DEF NativeInv, NetInv
<1>11. BufferInv'
  <2>1. \A j, l \in 1 .. count : j # l /\ slot[j].buffer = slot[l].buffer => slot[j].socket \in shared
    BY DEF NativeInv, BufferInv
  <2>2. ASSUME NEW j \in 1 .. count, slot'[j].used = 1
        PROVE  \/ memory'[slot'[j].buffer].con = slot'[j].socket
               \/ slot'[j].socket \in shared /\ memory'[slot'[j].buffer].con \in shared
    <3>1. CASE j = i
      BY <1>2, <1>4, <2>2, <3>1
    <3>2. CASE j # i /\ slot[j].buffer # k.buffer
      BY <1>2, <1>4, <1>6, <2>2, <3>2 DEF NativeInv, BufferInv
    <3>3. CASE j # i /\ slot[j].buffer = k.buffer
      <4>1. slot[j].socket \in shared /\ k.socket \in shared
        BY <2>1, <3>3
      <4>2. memory[k.buffer].con = slot[j].socket \/ memory[k.buffer].con \in shared
        BY <1>2, <2>2, <3>3 DEF NativeInv, BufferInv
      <4> QED BY <1>2, <1>4, <3>3, <4>1, <4>2
    <3> QED BY <3>1, <3>2, <3>3
  <2> QED BY <1>5, <2>1, <2>2 DEF BufferInv
<1>12. RequestInv'
  <2>1. ASSUME NEW c \in Native!Con, net'[c].status = "queued"
        PROVE  Waits(net'[c], c, net'[c].stream)
    BY <1>3, <2>1 DEF NativeInv, RequestInv
  <2>2. ASSUME NEW j \in 1 .. count, slot'[j].alive, slot'[j].socket \notin shared
        PROVE  Waits(net'[slot'[j].socket], slot'[j].socket,
                     There(slot'[j], memory'[slot'[j].buffer], net'[slot'[j].socket].stream))
    <3>1. CASE j = i
      BY <1>2, <1>3, <1>4, <2>2, <3>1
    <3>2. CASE j # i
      <4>1. slot'[j] = slot[j] /\ net'[slot[j].socket] = net[slot[j].socket]
        BY <1>2, <1>3, <1>6, <3>2
      <4>2. slot[j].buffer # k.buffer
        BY <2>2, <3>2, <4>1 DEF NativeInv, BufferInv
      <4>3. memory'[slot[j].buffer] = memory[slot[j].buffer]
        BY <1>4, <1>6, <3>2, <4>2
      <4> QED BY <2>2, <4>1, <4>3 DEF NativeInv, RequestInv
    <3> QED BY <3>1, <3>2
  <2> QED BY <2>1, <2>2 DEF RequestInv
<1> QED BY <1>7, <1>8, <1>9, <1>10, <1>11, <1>12 DEF NativeInv

\* An outcome is that of the two halves it is made of, and they are those of
\* one request unless the connection shares its buffer.
LEMMA ServedAnswer ==
  ASSUME NativeInv, NEW c \in Native!Con, UNCHANGED shared,
         NEW first \in Piece \cup {Native!Blank}, NEW second \in Piece \cup {Native!Blank},
         c \in shared => second.con \in shared /\ first.con \in shared,
         c \notin shared => \E n \in Nat, kind \in Native!Kind :
                              /\ first = Native!Half(c, n, kind, 1)
                              /\ second = Native!Half(c, n, kind, 2),
         first.kind \notin {"bare", "refused"},
         login' = Native!Dispatched(first, second)
  PROVE  /\ login' \in [state: {"pending", "success", "failed"},
                        data: Piece \cup {Native!Blank}, verdict: Piece \cup {Native!Blank}]
         /\ Native!AnswerOfOneCallback'
<1>1. login \in [state: {"pending", "success", "failed"}, data: Piece \cup {Native!Blank},
                 verdict: Piece \cup {Native!Blank}]
  BY DEF NativeInv, NativeTypeOK
<1>2. ASSUME c \notin shared
      PROVE  /\ second = [first EXCEPT !.half = 2]
             /\ second.kind = first.kind /\ first.kind \in Native!Kind
  BY <1>2 DEF Native!Half
<1>3. CASE first.kind = "other"
  <2>1. login' = login
    BY <1>3 DEF Native!Dispatched
  <2> QED BY <1>1, <2>1 DEF NativeInv, Native!AnswerOfOneCallback
<1>4. CASE first.kind \notin {"other", "blank"} /\ second.kind \in {"granted", "denied"}
  <2>1. login' = Native!Verdict(first, second)
    BY <1>4 DEF Native!Dispatched
  <2>2. /\ login'.data = first /\ login'.verdict = second
        /\ login'.state = IF second.kind = "granted" THEN "success" ELSE "failed"
    BY <2>1 DEF Native!Verdict
  <2>3. login' \in [state: {"pending", "success", "failed"}, data: Piece \cup {Native!Blank},
                    verdict: Piece \cup {Native!Blank}]
    BY <2>1 DEF Native!Verdict
  <2>4. CASE c \in shared
    BY <2>2, <2>3, <2>4 DEF Native!AnswerOfOneCallback
  <2>5. CASE c \notin shared
    <3>1. <<first, second>>[2] = [<<first, second>>[1] EXCEPT !.half = 2]
      BY <1>2, <2>5
    <3>2. Native!Matches(<<first, second>>)
      BY <3>1 DEF Native!Matches
    <3>3. first.kind = (IF login'.state = "success" THEN "granted" ELSE "denied")
      BY <1>2, <1>4, <2>2, <2>5
    <3> QED BY <2>2, <2>3, <3>2, <3>3 DEF Native!AnswerOfOneCallback
  <2> QED BY <2>4, <2>5
<1>5. CASE first.kind \notin {"other", "blank"} /\ second.kind \notin {"granted", "denied"}
  <2>1. login' = [login EXCEPT !.data = first]
    BY <1>5 DEF Native!Dispatched
  <2>2. login'.data = first
    BY <1>1, <2>1
  <2>3. login' \in [state: {"pending", "success", "failed"}, data: Piece \cup {Native!Blank},
                    verdict: Piece \cup {Native!Blank}]
    BY <1>1, <2>1
  <2>4. c \notin shared => first.kind = "partial"
    BY <1>2, <1>5 DEF Native!Kind
  <2> QED BY <2>2, <2>3, <2>4 DEF Native!AnswerOfOneCallback
<1>6. CASE first.kind = "blank"
  <2>1. login' = login \/ login' = [login EXCEPT !.data = first]
    BY <1>6 DEF Native!Dispatched
  <2>2. CASE login' = login
    BY <1>1, <2>2 DEF NativeInv, Native!AnswerOfOneCallback
  <2>3. CASE login' = [login EXCEPT !.data = first]
    <3>1. login'.data = first
      BY <1>1, <2>3
    <3>2. login' \in [state: {"pending", "success", "failed"}, data: Piece \cup {Native!Blank},
                      verdict: Piece \cup {Native!Blank}]
      BY <1>1, <2>3
    <3> QED BY <1>6, <3>1, <3>2 DEF Native!AnswerOfOneCallback
  <2> QED BY <2>1, <2>2, <2>3
<1> QED BY <1>3, <1>4, <1>5, <1>6

\* A request that has no parameter where the callback has its data ends the
\* program, and leaves all else as it is.
LEMMA ServeTrapsStep ==
  ASSUME NativeInv, UNCHANGED <<login, slot, count, memory, index, net, shared>>,
         phase' = "trapped"
  PROVE  NativeInv'
<1>1. index' \in Nat /\ PhaseInv'
  BY DEF NativeInv, NativeTypeOK, PhaseInv
<1> QED BY <1>1, PhaseStep

LEMMA ServeStep ==
  ASSUME NativeInv, Native!Serve
  PROVE  NativeInv'
<1> DEFINE T == Piece \cup {Native!Blank}
           i == Native!Min(Native!ToServe)
           o == slot[i]
           k == [o EXCEPT !.fresh = FALSE]
           c == o.socket
           b == o.buffer
           s == net[c].stream
           read == There(o, memory[b], s)
           m == Head(read \o <<memory[b]>>)
<1>1. /\ phase = "serve" /\ Native!ToServe # {}
      /\ UNCHANGED <<count, shared>>
  BY DEF Native!Serve
<1>2. i \in index .. count /\ i \in 1 .. count /\ i \in Native!ToServe
  <2>1. Native!ToServe \in SUBSET (index .. count) /\ index \in Nat \ {0} /\ count \in Nat
    BY <1>1, Cons DEF Native!ToServe, NativeInv, PhaseInv, NativeTypeOK
  <2>2. Native!ToServe \in SUBSET Nat
    BY <2>1
  <2>3. i \in Native!ToServe
    BY <1>1, <2>2, MinIsIn
  <2> HIDE DEF i
  <2> QED BY <2>1, <2>3
<1> HIDE DEF i
<1>3. /\ o \in SlotType /\ c \in Native!Con /\ net[c] \in Connection /\ net[c].open
      /\ memory[b] \in T /\ i \in 1 .. MaxCon
  BY <1>2, InTable
<1>4. /\ o.alive /\ b \in 1 .. MaxCon /\ o.used \in {0, 1} /\ s \in Seq(Piece) /\ s \in Seq(T)
  <2>1. b \in 1 .. MaxCon /\ o.used \in {0, 1}
    BY <1>3 DEF SlotType
  <2>2. s \in Seq(Piece)
    BY <1>3 DEF Connection
  <2>3. o.alive
    BY <1>1, <1>2 DEF NativeInv, PhaseInv
  <2>4. s \in Seq(T)
    BY <2>2
  <2> QED BY <2>1, <2>2, <2>3, <2>4
<1>5. k \in SlotType /\ k.socket = c /\ k.buffer = b /\ k.used = o.used /\ k.alive = o.alive
  BY <1>3 DEF SlotType
<1>6. Native!Received(k) = read
  BY <1>5 DEF Native!Received, There
<1>7. \/ /\ \/ Native!Keeps(i, [k EXCEPT !.alive = FALSE])
            \/ Len(read) < 2 /\ Native!Keeps(i, [k EXCEPT !.used = Len(read)])
            \/ Native!Whole(read) /\ read[1].kind # "bare" /\ Native!Serves(i, k, read)
         /\ memory' = [memory EXCEPT ![b] = m]
         /\ index' = i + 1 /\ phase' = phase
      \/ phase' = "trapped" /\ UNCHANGED <<login, slot, memory, index, net>>
  <2>1. \/ /\ \/ Native!Keeps(i, [k EXCEPT !.alive = FALSE])
               \/ /\ Len(Native!Received(k)) < 2
                  /\ Native!Keeps(i, [k EXCEPT !.used = Len(Native!Received(k))])
               \/ /\ Native!Whole(Native!Received(k)) /\ Native!Received(k)[1].kind # "bare"
                  /\ Native!Serves(i, k, Native!Received(k))
            /\ memory' = [memory EXCEPT ![k.buffer] = Head(Native!Received(k) \o <<@>>)]
            /\ index' = i + 1 /\ phase' = phase
        \/ phase' = "trapped" /\ UNCHANGED <<login, slot, memory, index, net>>
    BY DEF Native!Serve, i
  <2> HIDE DEF k, o
  <2> QED BY <1>4, <1>5, <1>6, <2>1
<1>8. /\ read \in Seq(T)
      /\ read = <<>> => o.used = 0 /\ m = memory[b]
      /\ read # <<>> => m = read[1]
      /\ o.used = 0 => read = s
      /\ o.used = 1 => /\ Len(read) = Len(s) + 1 /\ read[1] = memory[b]
                       /\ \A j \in DOMAIN s : read[j + 1] = s[j]
  <2> DEFINE mem == memory[b]
             there == There(o, mem, s)
  <2>1. mem \in T /\ s \in Seq(T) /\ o.used \in {0, 1}
    BY <1>3, <1>4
  <2>2. read = there /\ m = Head(there \o <<mem>>)
    OBVIOUS
  <2> HIDE DEF mem, T, s, o, read, m
  <2>3. /\ there \in Seq(T)
        /\ there = <<>> => o.used = 0 /\ Head(there \o <<mem>>) = mem
        /\ there # <<>> => Head(there \o <<mem>>) = there[1]
        /\ o.used = 0 => there = s
        /\ o.used = 1 => /\ Len(there) = Len(s) + 1 /\ there[1] = mem
                         /\ \A j \in DOMAIN s : there[j + 1] = s[j]
    BY <2>1, FirstHalf
  <2> HIDE DEF there
  <2> QED BY <2>2, <2>3 DEF mem
<1>9. net[c].status \in {"accepted", "left"} /\ \A j \in DOMAIN s : s[j].con = c
  BY <1>3 DEF NativeInv, NetInv
<1>10. o.used = 1 => memory[b].con = c \/ {c, memory[b].con} \subseteq shared
  BY <1>2 DEF NativeInv, BufferInv
<1>11. c \notin shared => Waits(net[c], c, read)
  BY <1>2, <1>4 DEF NativeInv, RequestInv
<1>12. login \in [state: {"pending", "success", "failed"}, data: Piece \cup {Native!Blank},
                  verdict: Piece \cup {Native!Blank}]
  BY DEF NativeInv, NativeTypeOK
<1>13. k.socket = slot[i].socket /\ k.buffer = slot[i].buffer
  BY <1>5
<1>14. net = [d \in Native!Con |-> net[d]] /\ slot = [j \in 1 .. MaxCon |-> slot[j]]
  BY DEF NativeInv, NativeTypeOK
<1> HIDE DEF k, o, c, b, s, read, m
<1>15. m \in T /\ (m = memory[b] \/ m.con = c)
  <2>1. CASE read = <<>>
    BY <1>3, <1>8, <2>1
  <2>2. CASE read # <<>> /\ o.used = 1
    BY <1>3, <1>8, <2>2
  <2>3. CASE read # <<>> /\ o.used = 0
    <3>1. 1 \in DOMAIN s /\ m = s[1]
      BY <1>4, <1>8, <2>3
    <3> QED BY <1>4, <1>9, <3>1
  <2> QED BY <1>4, <2>1, <2>2, <2>3
<1>16. o.used = 1 => m = memory[b]
  BY <1>8
<1>16a. Len(read) \in Nat /\ (Len(read) > 0 => read # <<>>)
  <2>1. read \in Seq(T)
    BY <1>8
  <2> QED BY <2>1
\* What the cases of Serve have in common.
<1>17. ASSUME memory' = [memory EXCEPT ![b] = m], index' = i + 1, phase' = phase,
              NEW k2 \in SlotType, k2.socket = c, k2.buffer = b,
              NEW e \in Connection, e.open, e.status \in {"accepted", "left"}, e.stream = <<>>,
              slot' = [slot EXCEPT ![i] = k2], net' = [net EXCEPT ![c] = e],
              k2.used = 1 => m.con = c \/ {c, m.con} \subseteq shared,
              k2.alive /\ c \notin shared => Waits(e, c, There(k2, m, <<>>)),
              login' \in [state: {"pending", "success", "failed"},
                          data: Piece \cup {Native!Blank}, verdict: Piece \cup {Native!Blank}],
              Native!AnswerOfOneCallback'
       PROVE  NativeInv'
  <2>1. /\ phase = "serve" /\ UNCHANGED <<phase, count, shared>>
        /\ i \in index .. count /\ i \in 1 .. count /\ index' = i + 1
        /\ m \in Piece \cup {Native!Blank} /\ (m = memory[b] \/ m.con = c)
        /\ memory' = [memory EXCEPT ![b] = m]
    BY <1>1, <1>2, <1>15, <1>17 DEF T
  <2>2. c = slot[i].socket /\ b = slot[i].buffer
    BY <1>5, <1>13
  <2>3. Served(i, k2, e, m)
    BY <1>17, <2>1, <2>2 DEF Served
  <2> QED BY <2>3, ServedStep
<1> DEFINE quiet == [net[c] EXCEPT !.stream = <<>>]
<1>18. /\ quiet \in Connection /\ quiet.open /\ quiet.status \in {"accepted", "left"}
       /\ quiet.stream = <<>>
       /\ \A there : Waits(net[c], c, there) => Waits(quiet, c, there)
  <2> HIDE DEF Waits
  <2>1. /\ quiet \in Connection /\ quiet.open = net[c].open /\ quiet.status = net[c].status
        /\ quiet.stream = <<>> /\ quiet.asked = net[c].asked
        /\ quiet.halfSent = net[c].halfSent /\ quiet.answered = net[c].answered
    <3>1. <<>> \in Seq(Piece)
      OBVIOUS
    <3> QED BY <1>3, <3>1 DEF Connection
  <2> HIDE DEF quiet
  <2> QED BY <1>3, <1>9, <2>1 DEF Waits
<1>19. ASSUME NEW k2 \in SlotType, k2.socket = c, Native!Keeps(i, k2)
       PROVE  /\ slot' = [slot EXCEPT ![i] = k2] /\ net' = [net EXCEPT ![c] = quiet]
              /\ login' = login /\ Native!AnswerOfOneCallback'
  <2>1. /\ slot' = [slot EXCEPT ![i] = k2] /\ login' = login
        /\ net' = [net EXCEPT ![c].stream = <<>>]
    BY <1>19 DEF Native!Keeps
  <2>2. Native!AnswerOfOneCallback'
    BY <1>1, <2>1 DEF NativeInv, Native!AnswerOfOneCallback
  <2> QED BY <2>1, <2>2
<1> HIDE DEF quiet
\* The connection is given up.
<1>20. ASSUME memory' = [memory EXCEPT ![b] = m], index' = i + 1, phase' = phase,
              Native!Keeps(i, [k EXCEPT !.alive = FALSE])
       PROVE  NativeInv'
  <2> DEFINE k2 == [k EXCEPT !.alive = FALSE]
  <2>1. /\ k2 \in SlotType /\ k2.socket = c /\ k2.buffer = b /\ k2.used = o.used
        /\ k2.alive = FALSE
    BY <1>5 DEF SlotType
  <2>2. Native!Keeps(i, k2)
    BY <1>20
  <2> HIDE DEF k2
  <2>3. k2.used = 1 => m.con = c \/ {c, m.con} \subseteq shared
    BY <1>10, <1>16, <2>1
  <2> QED BY <1>12, <1>17, <1>18, <1>19, <1>20, <2>1, <2>2, <2>3
\* There is less than a request.
<1>21. ASSUME memory' = [memory EXCEPT ![b] = m], index' = i + 1, phase' = phase,
              Len(read) < 2, Native!Keeps(i, [k EXCEPT !.used = Len(read)])
       PROVE  NativeInv'
  <2> DEFINE k2 == [k EXCEPT !.used = Len(read)]
  <2>1. Len(read) \in {0, 1}
    <3>1. \A n \in Nat : n < 2 => n \in {0, 1}
      OBVIOUS
    <3> QED BY <1>16a, <1>21, <3>1, Zenon
  <2>2. k2 \in SlotType /\ k2.socket = c /\ k2.buffer = b /\ k2.used = Len(read)
    BY <1>5, <2>1 DEF SlotType
  <2>3. Native!Keeps(i, k2)
    BY <1>21
  <2> HIDE DEF k2
  <2>4. There(k2, m, <<>>) = read
    <3>1. CASE Len(read) = 0
      BY <1>8, <2>2, <3>1 DEF There
    <3>2. CASE Len(read) = 1
      <4>1. read # <<>> /\ m = read[1]
        BY <1>8, <3>2
      <4>2. <<m>> \o <<>> = read
        <5>1. <<m>> \in Seq(T) /\ Len(<<m>>) = 1 /\ <<m>>[1] = m
          BY <1>15
        <5>2. <<m>> \o <<>> = <<m>>
          BY <5>1, ConcatEmptySeq
        <5>3. <<m>> = read
          BY <1>8, <3>2, <4>1, <5>1, SeqEqual
        <5> QED BY <5>2, <5>3
      <4> QED BY <2>2, <3>2, <4>2 DEF There
    <3> QED BY <2>1, <3>1, <3>2
  <2>5. k2.used = 1 => m.con = c \/ {c, m.con} \subseteq shared
    <3>1. CASE o.used = 1
      BY <1>10, <1>16, <3>1
    <3>2. CASE o.used = 0 /\ Len(read) = 1
      <4>1. m = s[1] /\ Len(s) = 1
        BY <1>8, <1>16a, <3>2
      <4>2. 1 \in DOMAIN s
        BY <1>4, <4>1
      <4> QED BY <1>9, <4>1, <4>2
    <3> QED BY <1>4, <2>1, <2>2, <3>1, <3>2
  <2>6. k2.alive /\ c \notin shared => Waits(quiet, c, There(k2, m, <<>>))
    BY <1>11, <1>18, <2>4
  <2> QED BY <1>12, <1>17, <1>18, <1>19, <1>21, <2>2, <2>3, <2>5, <2>6
\* The request is served.
<1>22. ASSUME memory' = [memory EXCEPT ![b] = m], index' = i + 1, phase' = phase,
              Native!Whole(read), read[1].kind # "bare", Native!Serves(i, k, read)
       PROVE  NativeInv'
  <2>0. Len(read) = 2 /\ read[1].kind \notin {"bare", "refused"}
    BY <1>22 DEF Native!Whole
  <2>1. PICK stays \in BOOLEAN :
          /\ slot' = [slot EXCEPT ![i] = [Native!AfterAnswer(k) EXCEPT !.alive = stays]]
          /\ net' = [net EXCEPT ![k.socket].stream = <<>>, ![k.socket].answered = @ + 1,
                                ![k.socket].asking = "none",
                                ![k.socket].status = IF stays THEN @ ELSE "left"]
    BY <1>22 DEF Native!Serves
  <2> DEFINE k2 == [Native!AfterAnswer(k) EXCEPT !.alive = stays]
             e == [net[c] EXCEPT !.stream = <<>>, !.answered = @ + 1, !.asking = "none",
                                 !.status = IF stays THEN @ ELSE "left"]
  <2>2. k2 \in SlotType /\ k2.socket = c /\ k2.buffer = b /\ k2.used = 0
    BY <1>5 DEF SlotType, Native!AfterAnswer
  <2>3. net' = [net EXCEPT ![c] = e]
    BY <1>5, <2>1, <1>3 DEF NativeInv, NativeTypeOK, Connection
  <2>4. /\ e \in Connection /\ e.open /\ e.status \in {"accepted", "left"} /\ e.stream = <<>>
        /\ e.asked = net[c].asked /\ e.halfSent = net[c].halfSent
        /\ e.answered = net[c].answered + 1
    <3> DEFINE n == net[c].answered + 1
               x == IF stays THEN net[c].status ELSE "left"
    <3>1. <<>> \in Seq(Piece) /\ n \in Nat /\ x \in {"accepted", "left"}
      BY <1>3, <1>9 DEF Connection
    <3>2. e = [net[c] EXCEPT !.stream = <<>>, !.answered = n, !.asking = "none", !.status = x]
      BY <1>3 DEF Connection
    <3> HIDE DEF n, x, e
    <3>3. /\ e \in Connection /\ e.open = net[c].open /\ e.status = x
          /\ e.stream = <<>> /\ e.asked = net[c].asked
          /\ e.halfSent = net[c].halfSent /\ e.answered = n
      BY <1>3, <3>1, <3>2 DEF Connection
    <3> QED BY <1>3, <3>1, <3>3 DEF n
  <2>5. read[1] \in T /\ read[2] \in T
    BY SMTT(30), <1>8, <2>0
  <2>6. ASSUME c \notin shared
        PROVE  /\ net[c].asked = net[c].answered + 1 /\ net[c].halfSent = "none"
               /\ \E n \in Nat, kind \in Native!Kind :
                    read[1] = Native!Half(c, n, kind, 1) /\ read[2] = Native!Half(c, n, kind, 2)
    <3>1. net[c].asked \in Nat
      BY <1>3 DEF Connection
    <3>2. /\ net[c].asked = net[c].answered + 1 /\ net[c].halfSent = "none"
          /\ \E kind \in Native!Kind :
               read = <<Native!Half(c, net[c].asked, kind, 1), Native!Half(c, net[c].asked, kind, 2)>>
      <4>1. Len(<<>>) # 2 /\ \A x : Len(<<x>>) # 2
        OBVIOUS
      <4>2. Waits(net[c], c, read) /\ Len(read) = 2
        BY <1>11, <2>0, <2>6
      <4> QED BY ONLY <4>1, <4>2, Zenon DEF Waits
    <3> QED BY <3>1, <3>2
  <2>7. c \in shared => read[2].con \in shared /\ read[1].con \in shared
    <3>1. CASE o.used = 0
      <4>1. 1 \in DOMAIN s /\ 2 \in DOMAIN s /\ read = s
        BY <1>4, <1>8, <2>0, <3>1
      <4> QED BY <1>9, <4>1
    <3>2. CASE o.used = 1
      <4>1. 1 \in DOMAIN s /\ read[2] = s[1] /\ read[1] = memory[b]
        BY <1>4, <1>8, <2>0, <3>2
      <4> QED BY <1>9, <1>10, <3>2, <4>1
    <3> QED BY <1>4, <3>1, <3>2
  <2>8. login' = Native!Dispatched(read[1], read[2])
    BY <1>22 DEF Native!Serves
  <2>9. /\ login' \in [state: {"pending", "success", "failed"},
                       data: Piece \cup {Native!Blank}, verdict: Piece \cup {Native!Blank}]
        /\ Native!AnswerOfOneCallback'
    BY ServedAnswer, <1>1, <1>3, <2>0, <2>5, <2>6, <2>7, <2>8 DEF T
  <2>10. slot' = [slot EXCEPT ![i] = k2]
    BY <2>1
  <2> HIDE DEF k2, e
  <2>11. c \notin shared => Waits(e, c, There(k2, m, <<>>))
    <3>1. There(k2, m, <<>>) = <<>>
      BY <2>2 DEF There
    <3>2. ASSUME c \notin shared PROVE e.asked = e.answered /\ e.halfSent = "none"
      BY <2>4, <2>6, <3>2
    <3> QED BY <3>1, <3>2 DEF Waits
  <2>12. k2.used = 1 => m.con = c \/ {c, m.con} \subseteq shared
    BY <2>2
  <2> QED BY <1>17, <1>22, <2>2, <2>3, <2>4, <2>9, <2>10, <2>11, <2>12
\* The program ends.
<1>23. ASSUME phase' = "trapped", UNCHANGED <<login, slot, memory, index, net>>
       PROVE  NativeInv'
  BY <1>1, <1>23, ServeTrapsStep
<1> QED BY <1>7, <1>20, <1>21, <1>22, <1>23

\* The connection closed is one already served, and every other keeps a slot.
LEMMA CompactStep ==
  ASSUME NativeInv, Native!Compact
  PROVE  NativeInv'
<1> DEFINE i == Native!Min(Native!Stale)
           c == slot[i].socket
           From(k) == IF k < i THEN k ELSE k + 1
           e == [net[c] EXCEPT !.open = FALSE]
<1>1. /\ phase = "serve" /\ Native!Stale # {}
      /\ slot' = [k \in 1 .. MaxCon |-> IF k \in i .. count - 1 THEN slot[k + 1] ELSE slot[k]]
      /\ net' = [net EXCEPT ![c].open = FALSE] /\ count' = count - 1
      /\ UNCHANGED <<login, memory, phase, index, shared>>
  BY DEF Native!Compact
<1>2. i \in 1 .. count /\ ~ slot[i].alive
  <2>1. Native!Stale \in SUBSET Nat
    BY Cons DEF Native!Stale, NativeInv, NativeTypeOK
  <2>2. i \in Native!Stale
    BY <1>1, <2>1, MinIsIn
  <2> HIDE DEF i
  <2> QED BY <2>2 DEF Native!Stale
<1> HIDE DEF i
<1>3. /\ c \in Native!Con /\ net[c] \in Connection /\ net[c].open
      /\ net[c].status \in {"accepted", "left"}
  BY <1>2, InTable DEF NativeInv, NetInv
<1>4. index \in Nat \ {0} /\ count \in Nat /\ count <= MaxCon /\ i \in Nat
  BY <1>1, <1>2, Cons DEF NativeInv, NativeTypeOK, PhaseInv
<1>5. i < index
  BY <1>1, <1>2, <1>4 DEF NativeInv, PhaseInv
<1>6. \A k \in 1 .. count - 1 : /\ From(k) \in (1 .. count) \ {i}
                               /\ k \in 1 .. MaxCon
                               /\ slot'[k] = slot[From(k)]
  <2>1. ASSUME NEW k \in 1 .. count - 1
        PROVE  /\ From(k) \in (1 .. count) \ {i} /\ k \in 1 .. MaxCon
               /\ (k \in i .. count - 1) = ~ (k < i)
    BY <1>2, <1>4, Cons
  <2> QED BY <1>1, <2>1
<1>7. \A k, l \in 1 .. count - 1 : From(k) = From(l) => k = l
  BY <1>4
<1>8. \A j \in (1 .. count) \ {i} : \E k \in 1 .. count - 1 : From(k) = j
  <2>1. SUFFICES ASSUME NEW j \in (1 .. count) \ {i}
                 PROVE  \E k \in 1 .. count - 1 : From(k) = j
    OBVIOUS
  <2>2. CASE j < i
    <3>1. j \in 1 .. count - 1 /\ From(j) = j
      BY <1>2, <1>4, <2>2
    <3> QED BY <3>1
  <2>3. CASE ~ (j < i)
    <3>1. j - 1 \in 1 .. count - 1 /\ From(j - 1) = j
      BY <1>2, <1>4, <2>3
    <3> QED BY <3>1
  <2> QED BY <2>2, <2>3
<1>9. /\ e \in Connection /\ e.open = FALSE /\ e.status = net[c].status
      /\ e.stream = net[c].stream
  BY <1>3 DEF Connection
<1>10. net' = [net EXCEPT ![c] = e]
  BY <1>1, <1>3 DEF NativeInv, NativeTypeOK, Connection
<1> HIDE DEF e, From
<1>11. net'[c] = e /\ \A d \in Native!Con \ {c} : net'[d] = net[d]
  BY <1>3, <1>10 DEF NativeInv, NativeTypeOK
<1>12. \A j \in (1 .. count) \ {i} : /\ slot[j].socket \in Native!Con \ {c}
                                     /\ net'[slot[j].socket] = net[slot[j].socket]
  BY <1>2, <1>11 DEF NativeInv, TableInv
<1>13. NativeTypeOK'
  <2>1. \A k \in 1 .. MaxCon : slot'[k] \in SlotType
    <3>1. \A k \in 1 .. MaxCon : k \in i .. count - 1 => k + 1 \in 1 .. MaxCon
      BY <1>4, Cons
    <3>2. \A k \in 1 .. MaxCon : slot[k] \in SlotType
      BY DEF NativeInv, NativeTypeOK
    <3> QED BY <1>1, <3>1, <3>2
  <2>2. slot' \in [1 .. MaxCon -> SlotType]
    BY <1>1, <2>1
  <2>3. net' \in [Native!Con -> Connection]
    BY <1>9, <1>10 DEF NativeInv, NativeTypeOK
  <2>4. count' \in 0 .. MaxCon
    BY <1>1, <1>2, <1>4, Cons
  <2> QED BY <1>1, <2>2, <2>3, <2>4 DEF NativeInv, NativeTypeOK
<1>14. TableInv'
  <2>1. \A k \in 1 .. count - 1 : slot'[k].socket \in Native!Con /\ net'[slot'[k].socket].open
    BY <1>6, <1>12 DEF NativeInv, TableInv
  <2>2. ASSUME NEW k \in 1 .. count - 1, NEW l \in 1 .. count - 1,
               slot'[k].socket = slot'[l].socket
        PROVE  k = l
    <3>1. From(k) = From(l)
      BY <1>6, <2>2 DEF NativeInv, TableInv
    <3> QED BY <1>7, <3>1
  <2>3. ASSUME NEW d \in Native!Con, net'[d].open
        PROVE  \E k \in 1 .. count - 1 : slot'[k].socket = d
    <3>1. d # c /\ net[d].open
      BY <1>9, <1>11, <2>3
    <3>2. PICK j \in (1 .. count) \ {i} : slot[j].socket = d
      BY <3>1 DEF NativeInv, TableInv
    <3>3. PICK k \in 1 .. count - 1 : From(k) = j
      BY <1>8
    <3> QED BY <1>6, <3>2, <3>3
  <2> QED BY <1>1, <2>1, <2>2, <2>3 DEF TableInv
<1>15. PhaseInv'
  <2>1. ASSUME NEW k \in index .. count - 1 PROVE slot'[k].alive
    <3>1. k \in 1 .. count - 1 /\ k + 1 \in index .. count /\ k + 1 \in 1 .. count /\ From(k) = k + 1
      BY <1>4, <1>5 DEF From
    <3> QED BY <1>1, <1>6, <3>1 DEF NativeInv, PhaseInv
  <2> QED BY <1>1, <1>4, <2>1 DEF PhaseInv
<1>16. NetInv'
  BY <1>3, <1>9, <1>11 DEF NativeInv, NetInv
<1>17. BufferInv'
  <2>1. \A k, l \in 1 .. count - 1 : k # l /\ slot'[k].buffer = slot'[l].buffer =>
          slot'[k].socket \in shared
    BY <1>6, <1>7 DEF NativeInv, BufferInv
  <2>2. \A k \in 1 .. count - 1 : slot'[k].used = 1 =>
          \/ memory[slot'[k].buffer].con = slot'[k].socket
          \/ slot'[k].socket \in shared /\ memory[slot'[k].buffer].con \in shared
    BY <1>6 DEF NativeInv, BufferInv
  <2>3. count' = count - 1 /\ memory' = memory /\ shared' = shared
    BY <1>1
  <2> QED BY ONLY <2>1, <2>2, <2>3 DEF BufferInv
<1>18. RequestInv'
  <2>1. \A d \in Native!Con : net'[d].status = "queued" => Waits(net'[d], d, net'[d].stream)
    BY <1>3, <1>9, <1>11 DEF NativeInv, RequestInv
  <2>2. ASSUME NEW k \in 1 .. count - 1, slot'[k].alive, slot'[k].socket \notin shared
        PROVE  Waits(net'[slot'[k].socket], slot'[k].socket,
                     There(slot'[k], memory[slot'[k].buffer], net'[slot'[k].socket].stream))
    BY <1>6, <1>12, <2>2 DEF NativeInv, RequestInv
  <2> QED BY <1>1, <2>1, <2>2 DEF RequestInv
<1>19. Native!AnswerOfOneCallback'
  BY <1>1 DEF NativeInv, Native!AnswerOfOneCallback
<1> QED BY <1>13, <1>14, <1>15, <1>16, <1>17, <1>18, <1>19 DEF NativeInv

LEMMA NativeNext ==
  ASSUME NativeInv, Native!Next
  PROVE  NativeInv'
<1>1. CASE Native!Begin
  BY <1>1, BeginStep
<1>2. CASE Native!Cancel
  BY <1>2, StopStep DEF Native!Cancel
<1>3. CASE Native!UpdateFailed
  BY <1>3, UpdateFailedStep
<1>4. CASE Native!WbyUpdate
  BY <1>4, SelectStep, AcceptStep, AcceptEndsStep, ServeStep, CompactStep, UpdateEndsStep,
     ReturnStep DEF Native!WbyUpdate
<1>5. ASSUME NEW c \in Native!Con,
             Native!Connect(c) \/ Native!Ask(c) \/ Native!AskRest(c) \/ Native!Leave(c)
      PROVE  NativeInv'
  BY <1>5, ConnectStep, AskStep, AskRestStep, LeaveStep
<1> QED BY <1>1, <1>2, <1>3, <1>4, <1>5 DEF Native!Next

LEMMA NativeStutter ==
  ASSUME NativeInv, UNCHANGED nativeVars
  PROVE  NativeInv'
<1>1. UNCHANGED <<login, slot, count, memory, phase, index, readable, net, shared>>
  BY DEF nativeVars
<1>2. index' \in Nat /\ PhaseInv'
  BY <1>1 DEF NativeInv, NativeTypeOK, PhaseInv
<1> QED BY <1>1, <1>2, PhaseStep

-----------------------------------------------------------------------------
(* The browser build.                                                      *)

LEMMA BrowserInit == Browser!Init => BrowserInv
<1> SUFFICES ASSUME Browser!Init PROVE BrowserInv
  OBVIOUS
<1>1. current \in Nat /\ pages \in SUBSET Nat /\ listening \in BOOLEAN
  BY DEF Browser!Init
<1>2. state = 0 /\ pages = {}
  BY DEF Browser!Init
<1> QED BY <1>1, <1>2 DEF BrowserInv, Browser!AnswerOfOnePage

LEMMA BrowserNext ==
  ASSUME BrowserInv, Browser!Next
  PROVE  BrowserInv'
<1> USE DEF BrowserInv, Browser!AnswerOfOnePage
<1>1. CASE Browser!Begin
  BY <1>1 DEF Browser!Begin
<1>2. CASE Browser!Update
  BY <1>2 DEF Browser!Update
<1>3. CASE Browser!Cancel
  BY <1>3 DEF Browser!Cancel
<1>4. ASSUME NEW p \in pages, Browser!Message(p)
      PROVE  BrowserInv'
  <2>1. CASE listening
    <3>1. PICK granted \in BOOLEAN :
            /\ state' = (IF granted THEN 1 ELSE 2)
            /\ data' = [page |-> p, granted |-> granted] /\ listening' = FALSE
      BY <1>4, <2>1 DEF Browser!Message
    <3>2. data'.page = p /\ data'.granted = granted
      BY <3>1
    <3>3. state' = (IF data'.granted THEN 1 ELSE 2)
      BY <3>1, <3>2
    <3>4. pages' = pages \ {p} /\ UNCHANGED <<current, running, cancelled>>
      BY <1>4 DEF Browser!Message
    <3> QED BY <3>1, <3>2, <3>3, <3>4
  <2>2. CASE ~ listening
    BY <1>4, <2>2 DEF Browser!Message
  <2> QED BY <2>1, <2>2
<1>5. ASSUME NEW p \in pages, Browser!ClosePage(p)
      PROVE  BrowserInv'
  BY <1>5 DEF Browser!ClosePage
<1> QED BY <1>1, <1>2, <1>3, <1>4, <1>5 DEF Browser!Next

LEMMA BrowserStutter ==
  ASSUME BrowserInv, UNCHANGED browserVars
  PROVE  BrowserInv'
BY DEF browserVars, BrowserInv, Browser!AnswerOfOnePage

-----------------------------------------------------------------------------
(* Either build.                                                           *)

LEMMA LoginInvariant == Spec => [](NativeInv /\ BrowserInv)
<1>1. Init => NativeInv /\ BrowserInv
  BY NativeInit, BrowserInit DEF Init
<1>2. NativeInv /\ BrowserInv /\ [Next]_vars => (NativeInv /\ BrowserInv)'
  <2> SUFFICES ASSUME NativeInv, BrowserInv, [Next]_vars
               PROVE  NativeInv' /\ BrowserInv'
    OBVIOUS
  <2>1. CASE Native!Next /\ UNCHANGED browserVars
    BY <2>1, NativeNext, BrowserStutter
  <2>2. CASE Browser!Next /\ UNCHANGED nativeVars
    BY <2>2, BrowserNext, NativeStutter
  <2>3. CASE UNCHANGED vars
    <3>1. UNCHANGED nativeVars /\ UNCHANGED browserVars
      BY <2>3 DEF vars
    <3> QED BY <3>1, NativeStutter, BrowserStutter
  <2> QED BY <2>1, <2>2, <2>3 DEF Next
<1> QED BY <1>1, <1>2, PTL DEF Spec

\* Between two updates of the login's web server its table holds every
\* connection that is open, each once and alive, and no other, and none is open
\* when the login is over, whatever wby_on_incoming, wby_update and wby_stop
\* did before.
THEOREM LoginSocketsOwned == Spec => []SocketsOwned
<1>1. NativeInv => SocketsOwned
  <2>1. ASSUME NativeInv, phase = "idle"
        PROVE  /\ \A i \in 1 .. count : slot[i].alive
               /\ \A i, k \in 1 .. count : i # k => slot[i].socket # slot[k].socket
               /\ {slot[i].socket : i \in 1 .. count} = {c \in Native!Con : net[c].open}
    <3>1. \A i \in 1 .. count : slot[i].alive
      BY <2>1 DEF NativeInv, PhaseInv
    <3>2. \A i, k \in 1 .. count : i # k => slot[i].socket # slot[k].socket
      BY <2>1 DEF NativeInv, TableInv
    <3>3. {slot[i].socket : i \in 1 .. count} = {c \in Native!Con : net[c].open}
      BY <2>1 DEF NativeInv, TableInv
    <3> QED BY <3>1, <3>2, <3>3
  <2>2. ASSUME NativeInv, phase = "stopped"
        PROVE  \A c \in Native!Con : ~ net[c].open
    <3>1. count = 0
      BY <2>2 DEF NativeInv, PhaseInv
    <3> QED BY <2>2, <3>1 DEF NativeInv, TableInv
  <2> QED BY <2>1, <2>2 DEF SocketsOwned, Native!SocketsOwned
<1> QED BY <1>1, LoginInvariant, PTL

\* The outcome and the data of a login come from one callback or one page,
\* except where connections had one request buffer, a callback that has data
\* but no success, or has no data, was served after it in the same update, or a
\* cancelled login left its page open (snet_oauth_httpd, onMessage).
THEOREM LoginAnswerHasOneSource == Spec => []AnswerHasOneSource
<1>1. NativeInv /\ BrowserInv => AnswerHasOneSource
  BY DEF NativeInv, BrowserInv, AnswerHasOneSource
<1> QED BY <1>1, LoginInvariant, PTL
=============================================================================
