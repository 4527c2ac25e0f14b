------------------------- MODULE Serial2RedisProofs -------------------------
(***************************************************************************)
(* What the runs of MCSerial2Redis check, for every number of descriptors, *)
(* lines and answers, and queues of any depth: the port, the session and   *)
(* the thread agree, answers stay in order, and so do lines.               *)
(***************************************************************************)
EXTENDS Serial2Redis, FramingProofs

-----------------------------------------------------------------------------
(* The port.  PortConsistent is inductive as it stands: its last conjunct   *)
(* says that a reconnecting session has no descriptor, so that opening one  *)
(* or failing to cannot forget another.                                     *)

LEMMA DisconnectCloses ==
  ASSUME PortConsistent, Disconnect
  PROVE  openFds' = {} /\ invokers' = {} /\ fd' = NoFd /\ ~connected'
BY DEF PortConsistent, Disconnect, DelAllInvoker

LEMMA ConnectOpensOne ==
  ASSUME PortConsistent, fd = NoFd, SerialAssumption, ConnectSucceeds
  PROVE  openFds' = {fd'} /\ invokers' = openFds' /\ connected' /\ fd' # NoFd
BY DEF PortConsistent, ConnectSucceeds, SerialAssumption

LEMMA FailureLeavesNone ==
  ASSUME PortConsistent, fd = NoFd, ConnectFails
  PROVE  openFds' = {} /\ invokers' = {} /\ fd' = NoFd /\ ~connected'
BY DEF PortConsistent, ConnectFails, AfterFailure

\* Every step keeps the port consistent.
LEMMA PortStep ==
  ASSUME SerialAssumption, PortConsistent, Next
  PROVE  PortConsistent'
<1>1. ASSUME UNCHANGED <<pc, portVars>> PROVE PortConsistent'
  BY <1>1 DEF PortConsistent, portVars
<1>2. ASSUME Watched, EnterReconnect PROVE PortConsistent'
  BY <1>2, DisconnectCloses DEF EnterReconnect, PortConsistent
<1>3. CASE Reconnect
  <2>1. fd = NoFd
    BY <1>3 DEF Reconnect, PortConsistent
  <2>2. CASE ConnectSucceeds /\ pc' = "loop"
    BY <2>1, <2>2, ConnectOpensOne DEF PortConsistent
  <2>3. CASE ConnectFails /\ UNCHANGED pc
    BY <2>1, <2>3, FailureLeavesNone DEF PortConsistent
  <2> QED
    BY <1>3, <2>2, <2>3 DEF Reconnect
<1>4. CASE DeviceSends \/ DeviceComes \/ DeviceGoes
  BY <1>1, <1>4 DEF DeviceSends, DeviceComes, DeviceGoes
<1>5. CASE ReadData \/ ReadFails
  BY <1>1, <1>5 DEF ReadData, ReadFails
<1>6. CASE ReadNothing \/ OnError
  BY <1>2, <1>6 DEF ReadNothing, OnError
<1>7. CASE RunIncoming \/ RedisAnswers \/ RunOutgoing
  BY <1>1, <1>7 DEF RunIncoming, RedisAnswers, RunOutgoing
<1>8. CASE PublishAlive \/ Tick
  BY <1>1, <1>8 DEF PublishAlive, Tick
<1> QED
  BY <1>3, <1>4, <1>5, <1>6, <1>7, <1>8 DEF Next

\* However the device comes and goes and whichever call fails, no descriptor of
\* the port leaks and the thread watches exactly the open one.
THEOREM PortStaysConsistent == Spec => []PortConsistent
<1>1. Init => PortConsistent
  BY SerialAssumption DEF Init, InitPort, PortConsistent
<1>2. PortConsistent /\ [Next]_vars => PortConsistent'
  <2>1. CASE UNCHANGED vars
    BY <2>1 DEF vars, PortConsistent
  <2> QED BY <2>1, SerialAssumption, PortStep
<1> QED BY <1>1, <1>2, PTL DEF Spec

-----------------------------------------------------------------------------
(* Ascending sequences.                                                    *)

\* A number greater than every one before it joins.
LEMMA AscendingAppend ==
  ASSUME NEW s \in Seq(Nat), NEW v \in Nat, Link!Ascending(s),
         \A i \in 1 .. Len(s) : s[i] < v
  PROVE  /\ Append(s, v) \in Seq(Nat) /\ Link!Ascending(Append(s, v))
         /\ Len(Append(s, v)) = Len(s) + 1 /\ Append(s, v)[Len(s) + 1] = v
         /\ \A i \in 1 .. Len(s) : Append(s, v)[i] = s[i]
<1> DEFINE r == Append(s, v)
<1>1. /\ r \in Seq(Nat) /\ Len(s) \in Nat /\ Len(r) = Len(s) + 1 /\ r[Len(s) + 1] = v
      /\ \A i \in 1 .. Len(s) : r[i] = s[i]
  BY AppendProperties
<1> HIDE DEF r
<1>2. ASSUME NEW i \in 1 .. Len(r), NEW j \in 1 .. Len(r), i < j PROVE r[i] < r[j]
  <2>0. i \in 1 .. Len(s) /\ (j \in 1 .. Len(s) \/ j = Len(s) + 1)
    <3>1. Len(s) \in Nat /\ i \in 1 .. Len(s) + 1 /\ j \in 1 .. Len(s) + 1
      BY <1>1
    <3>2. j <= Len(s) \/ j = Len(s) + 1
      BY <3>1
    <3>3. i <= Len(s)
      BY <1>2, <3>1
    <3> QED BY <3>1, <3>2, <3>3
  <2>1. i \in 1 .. Len(s) /\ r[i] = s[i] /\ (j \in 1 .. Len(s) \/ j = Len(s) + 1)
    BY <1>1, <2>0
  <2>2. CASE j = Len(s) + 1
    BY <1>1, <2>1, <2>2
  <2>3. CASE j \in 1 .. Len(s)
    <3>1. s[i] < s[j] /\ r[j] = s[j]
      BY <1>1, <1>2, <2>1, <2>3 DEF Link!Ascending
    <3> QED BY <2>1, <3>1
  <2> QED BY <2>1, <2>2, <2>3
<1>3. Link!Ascending(r)
  BY <1>2 DEF Link!Ascending
<1> QED BY <1>1, <1>3 DEF r

\* The first number leaves.
LEMMA AscendingTail ==
  ASSUME NEW s \in Seq(Nat), Link!Ascending(s), s # << >>
  PROVE  /\ Tail(s) \in Seq(Nat) /\ Link!Ascending(Tail(s)) /\ Len(Tail(s)) = Len(s) - 1
         /\ Head(s) = s[1] /\ s[1] \in Nat /\ 1 \in 1 .. Len(s)
         /\ \A i \in 1 .. Len(Tail(s)) :
              i + 1 \in 1 .. Len(s) /\ Tail(s)[i] = s[i + 1] /\ s[1] < Tail(s)[i]
<1> DEFINE r == Tail(s)
<1>1. /\ r \in Seq(Nat) /\ Len(s) \in Nat \ {0} /\ Len(r) = Len(s) - 1
      /\ Head(s) = s[1] /\ s[1] \in Nat /\ 1 \in 1 .. Len(s)
      /\ \A i \in 1 .. Len(r) : r[i] = s[i + 1]
  BY HeadTailProperties
<1> HIDE DEF r
<1>2. ASSUME NEW i \in 1 .. Len(r) PROVE i + 1 \in 1 .. Len(s) /\ 1 < i + 1
  BY <1>1
<1>3. ASSUME NEW i \in 1 .. Len(r) PROVE s[1] < r[i]
  BY <1>1, <1>2 DEF Link!Ascending
<1>4. ASSUME NEW i \in 1 .. Len(r), NEW j \in 1 .. Len(r), i < j PROVE r[i] < r[j]
  <2>1. i + 1 < j + 1
    BY <1>1, <1>4
  <2>2. s[i + 1] < s[j + 1]
    BY <1>2, <2>1 DEF Link!Ascending
  <2> QED BY <1>1, <2>2
<1>5. Link!Ascending(r)
  BY <1>4 DEF Link!Ascending
<1> QED BY <1>1, <1>2, <1>3, <1>5 DEF r

-----------------------------------------------------------------------------
(* Answers.  The queue holds increasing numbers, each above those of all   *)
(* answers the device has seen and none above the last that Redis gave.    *)

AnswersOrdered ==
  /\ answers \in Nat
  /\ shown \in Seq(Nat) /\ outgoing \in Seq(Nat)
  /\ Link!Ascending(shown) /\ Link!Ascending(outgoing)
  /\ \A i \in 1 .. Len(shown) : shown[i] \in 1 .. answers
  /\ \A i \in 1 .. Len(outgoing) : outgoing[i] \in 1 .. answers
  /\ \A i \in 1 .. Len(shown) : \A j \in 1 .. Len(outgoing) : shown[i] < outgoing[j]

\* A push appends the value or changes nothing.
LEMMA PushShape ==
  ASSUME NEW q \in Seq(Nat), NEW v \in Nat
  PROVE  Pushed(q, v) \in {q, Append(q, v)}
BY DEF Pushed

LEMMA AnswerPushed ==
  ASSUME AnswersOrdered, RedisAnswers
  PROVE  AnswersOrdered'
<1>1. answers' = answers + 1 /\ shown' = shown /\ answers \in Nat
  BY DEF RedisAnswers, AnswersOrdered
<1>2. outgoing' \in {outgoing, Append(outgoing, answers + 1)}
  BY PushShape DEF RedisAnswers, AnswersOrdered
<1>3. CASE outgoing' = outgoing
  BY <1>1, <1>3 DEF AnswersOrdered
<1>4. CASE outgoing' = Append(outgoing, answers + 1)
  <2>1. \A i \in 1 .. Len(outgoing) : outgoing[i] < answers + 1
    BY <1>1 DEF AnswersOrdered
  <2>2. /\ outgoing' \in Seq(Nat) /\ Link!Ascending(outgoing')
        /\ Len(outgoing') = Len(outgoing) + 1
        /\ outgoing'[Len(outgoing) + 1] = answers + 1
        /\ \A i \in 1 .. Len(outgoing) : outgoing'[i] = outgoing[i]
    <3>1. outgoing \in Seq(Nat) /\ answers + 1 \in Nat /\ Link!Ascending(outgoing)
      BY <1>1 DEF AnswersOrdered
    <3> QED BY <1>4, <2>1, <3>1, AscendingAppend
  <2>3. ASSUME NEW i \in 1 .. Len(outgoing')
        PROVE  i \in 1 .. Len(outgoing) \/ i = Len(outgoing) + 1
    <3>1. Len(outgoing) \in Nat
      BY DEF AnswersOrdered
    <3> QED BY <2>2, <3>1
  <2>4. ASSUME NEW i \in 1 .. Len(outgoing') PROVE outgoing'[i] \in 1 .. answers'
    <3>1. CASE i = Len(outgoing) + 1
      BY <1>1, <2>2, <3>1
    <3>2. CASE i \in 1 .. Len(outgoing)
      <4>1. outgoing'[i] = outgoing[i] /\ outgoing[i] \in 1 .. answers
        BY <2>2, <3>2 DEF AnswersOrdered
      <4> QED BY <1>1, <4>1
    <3> QED BY <2>3, <3>1, <3>2
  <2>5. ASSUME NEW i \in 1 .. Len(shown), NEW j \in 1 .. Len(outgoing')
        PROVE  shown[i] < outgoing'[j]
    <3>1. shown[i] \in 1 .. answers
      BY DEF AnswersOrdered
    <3>2. CASE j = Len(outgoing) + 1
      BY <1>1, <2>2, <3>1, <3>2
    <3>3. CASE j \in 1 .. Len(outgoing)
      BY <2>2, <3>3 DEF AnswersOrdered
    <3> QED BY <2>3, <3>2, <3>3
  <2>6. \A i \in 1 .. Len(shown) : shown[i] \in 1 .. answers'
    BY <1>1 DEF AnswersOrdered
  <2> QED BY <1>1, <2>2, <2>4, <2>5, <2>6 DEF AnswersOrdered
<1> QED BY <1>2, <1>3, <1>4

LEMMA AnswerPopped ==
  ASSUME AnswersOrdered, RunOutgoing
  PROVE  AnswersOrdered'
<1>1. /\ outgoing # << >> /\ outgoing' = Tail(outgoing) /\ answers' = answers
      /\ shown' \in {shown, Append(shown, Head(outgoing))}
  BY DEF RunOutgoing, Served, inVars
<1>2. /\ outgoing \in Seq(Nat) /\ Link!Ascending(outgoing)
      /\ shown \in Seq(Nat) /\ Link!Ascending(shown)
  BY DEF AnswersOrdered
<1>3. /\ outgoing' \in Seq(Nat) /\ Link!Ascending(outgoing')
      /\ Head(outgoing) = outgoing[1] /\ outgoing[1] \in Nat /\ 1 \in 1 .. Len(outgoing)
      /\ \A i \in 1 .. Len(outgoing') :
           i + 1 \in 1 .. Len(outgoing) /\ outgoing'[i] = outgoing[i + 1]
             /\ outgoing[1] < outgoing'[i]
  BY <1>1, <1>2, AscendingTail
<1>4. \A i \in 1 .. Len(outgoing') : outgoing'[i] \in 1 .. answers'
  BY <1>1, <1>3 DEF AnswersOrdered
<1>5. CASE shown' = shown
  <2>1. \A i \in 1 .. Len(shown) : \A j \in 1 .. Len(outgoing') : shown[i] < outgoing'[j]
    BY <1>3 DEF AnswersOrdered
  <2> QED BY <1>1, <1>3, <1>4, <1>5, <2>1 DEF AnswersOrdered
<1>6. CASE shown' = Append(shown, outgoing[1])
  <2>1. \A i \in 1 .. Len(shown) : shown[i] < outgoing[1]
    BY <1>3 DEF AnswersOrdered
  <2>2. /\ shown' \in Seq(Nat) /\ Link!Ascending(shown')
        /\ Len(shown') = Len(shown) + 1 /\ shown'[Len(shown) + 1] = outgoing[1]
        /\ \A i \in 1 .. Len(shown) : shown'[i] = shown[i]
    BY <1>2, <1>3, <1>6, <2>1, AscendingAppend
  <2>3. ASSUME NEW i \in 1 .. Len(shown')
        PROVE  i \in 1 .. Len(shown) \/ i = Len(shown) + 1
    <3>1. Len(shown) \in Nat
      BY <1>2
    <3> QED BY <2>2, <3>1
  <2>4. ASSUME NEW i \in 1 .. Len(shown') PROVE shown'[i] \in 1 .. answers'
    <3>1. CASE i = Len(shown) + 1
      <4>1. shown'[i] = outgoing[1] /\ outgoing[1] \in 1 .. answers
        BY <1>3, <2>2, <3>1 DEF AnswersOrdered
      <4> QED BY <1>1, <4>1
    <3>2. CASE i \in 1 .. Len(shown)
      <4>1. shown'[i] = shown[i] /\ shown[i] \in 1 .. answers
        BY <2>2, <3>2 DEF AnswersOrdered
      <4> QED BY <1>1, <4>1
    <3> QED BY <2>3, <3>1, <3>2
  <2>5. ASSUME NEW i \in 1 .. Len(shown'), NEW j \in 1 .. Len(outgoing')
        PROVE  shown'[i] < outgoing'[j]
    <3>1. CASE i = Len(shown) + 1
      BY <1>3, <2>2, <3>1
    <3>2. CASE i \in 1 .. Len(shown)
      BY <1>3, <2>2, <3>2 DEF AnswersOrdered
    <3> QED BY <2>3, <3>1, <3>2
  <2> QED BY <1>1, <1>3, <1>4, <2>2, <2>4, <2>5 DEF AnswersOrdered
<1> QED BY <1>1, <1>3, <1>5, <1>6

LEMMA AnswersStep ==
  ASSUME AnswersOrdered, [Next]_vars
  PROVE  AnswersOrdered'
<1>1. ASSUME UNCHANGED <<outgoing, answers, shown>>
      PROVE  AnswersOrdered'
  BY <1>1 DEF AnswersOrdered
<1>2. CASE RedisAnswers
  BY <1>2, AnswerPushed
<1>3. CASE RunOutgoing
  BY <1>3, AnswerPopped
<1>4. CASE DeviceSends \/ DeviceComes \/ DeviceGoes
  BY <1>1, <1>4 DEF DeviceSends, DeviceComes, DeviceGoes, outVars
<1>5. CASE ReadData \/ ReadFails \/ ReadNothing \/ OnError \/ Reconnect
  BY <1>1, <1>5 DEF ReadData, ReadFails, ReadNothing, OnError, Reconnect,
     EnterReconnect, outVars
<1>6. CASE RunIncoming \/ PublishAlive \/ Tick
  BY <1>1, <1>6 DEF RunIncoming, PublishAlive, Tick, outVars
<1>7. CASE UNCHANGED vars
  BY <1>1, <1>7 DEF vars
<1> QED BY <1>2, <1>3, <1>4, <1>5, <1>6, <1>7 DEF Next

LEMMA AnswersInit == Init => AnswersOrdered
<1> SUFFICES ASSUME Init PROVE AnswersOrdered
  OBVIOUS
<1>1. /\ answers = 0 /\ shown = << >> /\ outgoing = << >>
      /\ Len(shown) = 0 /\ Len(outgoing) = 0
  BY DEF Init
<1>2. shown \in Seq(Nat) /\ outgoing \in Seq(Nat)
  BY <1>1
<1> QED BY <1>1, <1>2 DEF AnswersOrdered, Link!Ascending

\* The device never sees an answer of Redis after a later one, and never one twice, over
\* full queues, cut writes and reconnections.
THEOREM AnswersStayInOrder == Spec => []AnswersInOrder
<1>1. AnswersOrdered /\ [Next]_vars => AnswersOrdered'
  BY AnswersStep
<1>2. AnswersOrdered => AnswersInOrder
  BY DEF AnswersOrdered, AnswersInOrder
<1> QED BY AnswersInit, <1>1, <1>2, PTL DEF Spec

-----------------------------------------------------------------------------
(* Lines.  Whatever the wire loses and however the reads cut the text,     *)
(* every byte on its way is a byte of a line that was begun, or of the     *)
(* delimiter, and the bytes of lines come in the order they were sent, none*)
(* of them twice: so no CRC is seen twice, and without it no line is.      *)

LineBytes(n) == {[kind |-> "body", of |-> k] : k \in 1 .. n} \cup {Crc16(Body(k)) : k \in 1 .. n}
WireBytes(n) == LineBytes(n) \cup ToSet(Delimiter)
FrameBytes(n) == {b \in LineBytes(n) : ~Delimits(b)}

\* The place of a byte among the bytes of all lines, two to a line.
Rank(b) == IF b.kind = "body" THEN 2 * b.of ELSE 2 * b.of[1].of + 1

\* The bytes of q that delimit nothing ascend, from above lo up to hi.
Ranked(lo, q, hi) ==
  /\ lo <= hi
  /\ \A i \in 1 .. Len(q) : ~Delimits(q[i]) => lo < Rank(q[i]) /\ Rank(q[i]) <= hi
  /\ \A i, j \in 1 .. Len(q) :
       i < j /\ ~Delimits(q[i]) /\ ~Delimits(q[j]) => Rank(q[i]) < Rank(q[j])

\* The last byte of lines that was sent, at the most, and the last that was delivered.
Mark == IF linePos = 1 THEN 2 * lineNo ELSE 2 * sent + 1
Newest(lines) == IF Len(lines) = 0 THEN 1 ELSE 2 * lines[Len(lines)] + 1

\* The last line delivered, the buffer, the reads that wait and the bytes at the port,
\* with the places c at which one ends and the next begins.
Cut(c, n, lo, first, reads, last, hi) ==
  /\ Ranked(lo, first, c[0])
  /\ \A i \in 1 .. n : Ranked(c[i - 1], reads[i], c[i])
  /\ Ranked(c[n], last, hi)

LinesInOrder ==
  /\ tty \in Seq(WireBytes(sent))
  /\ incoming \in Seq(Seq(WireBytes(sent)))
  /\ buffer \in Seq(FrameBytes(sent))
  /\ \E c \in [0 .. Len(incoming) -> Nat] :
       Cut(c, Len(incoming), Newest(delivered), buffer, incoming, tty, Mark)

\* What was delivered is what the link may deliver.
Deliverable ==
  /\ delivered \in Seq(Nat) /\ Link!Ascending(delivered)
  /\ \A i \in 1 .. Len(delivered) : delivered[i] \in 1 .. sent

LEMMA RankOfByte ==
  ASSUME NEW n \in Nat, NEW b \in LineBytes(n)
  PROVE  Rank(b) \in Nat
<1>1. ASSUME NEW k \in 1 .. n, b = [kind |-> "body", of |-> k] PROVE Rank(b) = 2 * k
  BY <1>1 DEF Rank
<1>2. ASSUME NEW k \in 1 .. n, b = Crc16(Body(k)) PROVE Rank(b) = 2 * k + 1
  BY <1>2 DEF Rank, Crc16, Body
<1> QED BY <1>1, <1>2 DEF LineBytes

\* Of the bytes of a line or a delimiter, all but delimiters have a place.
LEMMA RanksIn ==
  ASSUME NEW n \in Nat, NEW q \in Seq(WireBytes(n)), NEW i \in 1 .. Len(q), ~Delimits(q[i])
  PROVE  Rank(q[i]) \in Nat
<1>1. q[i] \in LineBytes(n)
  BY DEF WireBytes, Delimits
<1> QED BY <1>1, RankOfByte

LEMMA MoreBytes ==
  ASSUME NEW m \in Nat, NEW n \in Nat, m <= n
  PROVE  /\ WireBytes(m) \subseteq WireBytes(n) /\ FrameBytes(m) \subseteq FrameBytes(n)
<1>1. 1 .. m \subseteq 1 .. n
  OBVIOUS
<1> QED BY <1>1 DEF WireBytes, FrameBytes, LineBytes

LEMMA RankedEmpty ==
  ASSUME NEW lo \in Nat, NEW hi \in Nat, lo <= hi PROVE Ranked(lo, << >>, hi)
  BY DEF Ranked

\* Bounds may be moved apart.
LEMMA RankedWiden ==
  ASSUME NEW n \in Nat, NEW q \in Seq(WireBytes(n)), NEW lo \in Nat, NEW hi \in Nat,
         NEW low \in Nat, NEW top \in Nat, Ranked(lo, q, hi), low <= lo, hi <= top
  PROVE  Ranked(low, q, top)
<1>1. ASSUME NEW i \in 1 .. Len(q), ~Delimits(q[i])
      PROVE  low < Rank(q[i]) /\ Rank(q[i]) <= top
  <2>1. Rank(q[i]) \in Nat /\ lo < Rank(q[i]) /\ Rank(q[i]) <= hi
    BY <1>1, RanksIn DEF Ranked
  <2> QED BY <2>1
<1>2. low <= top
  BY DEF Ranked
<1> QED BY <1>1, <1>2 DEF Ranked

\* A byte appended is a later one, or a delimiter.
LEMMA RankedAppend ==
  ASSUME NEW n \in Nat, NEW q \in Seq(WireBytes(n)), NEW lo \in Nat, NEW hi \in Nat,
         NEW top \in Nat, NEW b \in WireBytes(n), Ranked(lo, q, hi), hi <= top,
         ~Delimits(b) => hi < Rank(b) /\ Rank(b) <= top
  PROVE  Ranked(lo, Append(q, b), top)
<1> DEFINE r == Append(q, b)
<1>1. /\ Len(q) \in Nat /\ Len(r) = Len(q) + 1 /\ r[Len(q) + 1] = b
      /\ \A i \in 1 .. Len(q) : r[i] = q[i]
  BY AppendProperties
<1>2. ~Delimits(b) => Rank(b) \in Nat
  <2>1. ~Delimits(b) => b \in LineBytes(n)
    BY DEF WireBytes, Delimits
  <2> QED BY <2>1, RankOfByte
<1> HIDE DEF r
<1>3. ASSUME NEW i \in 1 .. Len(q), ~Delimits(q[i])
      PROVE  Rank(q[i]) \in Nat /\ lo < Rank(q[i]) /\ Rank(q[i]) <= hi
  BY <1>3, RanksIn DEF Ranked
<1>4. lo <= hi
  BY DEF Ranked
<1>5. ASSUME NEW i \in 1 .. Len(r) PROVE i \in 1 .. Len(q) \/ i = Len(q) + 1
  BY <1>1
<1>6. ASSUME NEW i \in 1 .. Len(r), ~Delimits(r[i])
      PROVE  lo < Rank(r[i]) /\ Rank(r[i]) <= top
  <2>1. CASE i = Len(q) + 1
    <3>1. r[i] = b /\ Rank(b) \in Nat /\ hi < Rank(b) /\ Rank(b) <= top
      BY <1>1, <1>2, <1>6, <2>1
    <3> QED BY <1>4, <3>1
  <2>2. CASE i \in 1 .. Len(q)
    <3>1. r[i] = q[i] /\ Rank(q[i]) \in Nat /\ lo < Rank(q[i]) /\ Rank(q[i]) <= hi
      BY <1>1, <1>3, <1>6, <2>2
    <3> QED BY <3>1
  <2> QED BY <1>5, <2>1, <2>2
<1>7. ASSUME NEW i \in 1 .. Len(r), NEW j \in 1 .. Len(r), i < j,
             ~Delimits(r[i]), ~Delimits(r[j])
      PROVE  Rank(r[i]) < Rank(r[j])
  <2>1. i \in 1 .. Len(q) /\ r[i] = q[i]
    BY <1>1, <1>7
  <2>2. CASE j = Len(q) + 1
    <3>1. r[j] = b /\ Rank(b) \in Nat /\ hi < Rank(b)
      BY <1>1, <1>2, <1>7, <2>2
    <3>2. Rank(q[i]) \in Nat /\ Rank(q[i]) <= hi
      BY <1>3, <1>7, <2>1
    <3> QED BY <2>1, <3>1, <3>2
  <2>3. CASE j \in 1 .. Len(q)
    <3>1. r[j] = q[j]
      BY <1>1, <2>3
    <3> QED BY <1>7, <2>1, <2>3, <3>1 DEF Ranked
  <2> QED BY <1>5, <2>2, <2>3
<1>8. lo <= top
  BY <1>4
<1> QED BY <1>6, <1>7, <1>8 DEF Ranked, r

\* Every byte of a frame comes before those of the next ones.
InOrder(frames) ==
  \A i, j \in 1 .. Len(frames) : i < j =>
    \A k \in 1 .. Len(frames[i]) : \A m \in 1 .. Len(frames[j]) :
      Rank(frames[i][k]) < Rank(frames[j][m])

\* The bytes of the frames are from above lo up to x.
Between(lo, frames, x) ==
  \A i \in 1 .. Len(frames) : \A k \in 1 .. Len(frames[i]) : Rank(frames[i][k]) \in lo + 1 .. x

\* What the deframer d holds comes after lo, its frames in order and before its buffer,
\* and its buffer up to hi.
Deframed(d, lo, hi) ==
  /\ InOrder(d.frames)
  /\ \E x \in Nat : lo <= x /\ Between(lo, d.frames, x) /\ Ranked(x, d.buffer, hi)

\* A frame joins.
LEMMA FramesAppend ==
  ASSUME NEW n \in Nat, NEW frames \in Seq(Seq(FrameBytes(n))), NEW f \in Seq(FrameBytes(n)),
         NEW lo \in Nat, NEW x \in Nat, NEW hi \in Nat, lo <= x,
         InOrder(frames), Between(lo, frames, x), Ranked(x, f, hi)
  PROVE  InOrder(Append(frames, f)) /\ Between(lo, Append(frames, f), hi)
<1> DEFINE r == Append(frames, f)
<1>1. /\ Len(frames) \in Nat /\ Len(r) = Len(frames) + 1 /\ r[Len(frames) + 1] = f
      /\ \A i \in 1 .. Len(frames) : r[i] = frames[i]
  BY AppendProperties
<1> HIDE DEF r
<1>2. x <= hi
  BY DEF Ranked
<1>3. ASSUME NEW k \in 1 .. Len(f) PROVE Rank(f[k]) \in x + 1 .. hi
  <2>1. f[k] \in FrameBytes(n)
    OBVIOUS
  <2>2. ~Delimits(f[k]) /\ Rank(f[k]) \in Nat
    BY <2>1, RankOfByte DEF FrameBytes
  <2>3. x < Rank(f[k]) /\ Rank(f[k]) <= hi
    BY <2>2 DEF Ranked
  <2> QED BY <2>2, <2>3
<1>4. ASSUME NEW i \in 1 .. Len(r) PROVE i \in 1 .. Len(frames) \/ i = Len(frames) + 1
  BY <1>1
<1>5. ASSUME NEW i \in 1 .. Len(r), NEW k \in 1 .. Len(r[i]) PROVE Rank(r[i][k]) \in lo + 1 .. hi
  <2>1. CASE i = Len(frames) + 1
    <3>1. Rank(r[i][k]) \in x + 1 .. hi
      BY <1>1, <1>3, <2>1
    <3> QED BY <3>1
  <2>2. CASE i \in 1 .. Len(frames)
    <3>1. Rank(r[i][k]) \in lo + 1 .. x
      BY <1>1, <2>2 DEF Between
    <3> QED BY <1>2, <3>1
  <2> QED BY <1>4, <2>1, <2>2
<1>6. ASSUME NEW i \in 1 .. Len(r), NEW j \in 1 .. Len(r), i < j,
             NEW k \in 1 .. Len(r[i]), NEW m \in 1 .. Len(r[j])
      PROVE  Rank(r[i][k]) < Rank(r[j][m])
  <2>0. i \in 1 .. Len(frames)
    BY <1>1, <1>6, SMTT(30)
  <2>1. i \in 1 .. Len(frames) /\ r[i] = frames[i]
    BY <1>1, <2>0
  <2>2. CASE j = Len(frames) + 1
    <3>1. Rank(r[j][m]) \in x + 1 .. hi
      BY <1>1, <1>3, <2>2
    <3>2. Rank(r[i][k]) \in lo + 1 .. x
      BY <2>1 DEF Between
    <3> QED BY <3>1, <3>2
  <2>3. CASE j \in 1 .. Len(frames)
    <3>1. r[j] = frames[j]
      BY <1>1, <2>3
    <3> QED BY <1>6, <2>1, <2>3, <3>1 DEF InOrder
  <2> QED BY <1>4, <2>2, <2>3
<1>7. InOrder(r)
  BY <1>6 DEF InOrder
<1>8. Between(lo, r, hi)
  BY <1>5 DEF Between
<1> QED BY <1>7, <1>8 DEF r

\* One more byte.
LEMMA FeedRanked ==
  ASSUME NEW n \in Nat, NEW d \in Deframers(FrameBytes(n)), NEW lo \in Nat,
         NEW hi \in Nat, NEW c \in WireBytes(n), Deframed(d, lo, hi),
         NEW top \in Nat, hi <= top, ~Delimits(c) => hi < Rank(c) /\ Rank(c) <= top
  PROVE  Deframed(Feed(d, c), lo, top)
<1>1. PICK x \in Nat : lo <= x /\ Between(lo, d.frames, x) /\ Ranked(x, d.buffer, hi)
  BY DEF Deframed
<1>2. /\ d.buffer \in Seq(FrameBytes(n)) /\ d.frames \in Seq(Seq(FrameBytes(n)))
      /\ DOMAIN d = {"buffer", "frames"}
  BY DEF Deframers
<1>3. d.buffer \in Seq(WireBytes(n)) /\ << >> \in Seq(WireBytes(n))
  <2>1. FrameBytes(n) \subseteq WireBytes(n)
    BY DEF FrameBytes, WireBytes
  <2> QED BY <1>2, <2>1
<1>4. x <= hi /\ InOrder(d.frames)
  BY <1>1 DEF Ranked, Deframed
<1>5. CASE Delimits(c) /\ d.buffer = << >>
  <2>1. Ranked(x, d.buffer, top)
    BY <1>1, <1>3, RankedWiden
  <2> QED BY <1>1, <1>4, <1>5, <2>1 DEF Feed, End, Deframed
<1>6. CASE Delimits(c) /\ d.buffer # << >>
  <2> DEFINE f == Append(d.frames, d.buffer)
             e == [buffer |-> << >>, frames |-> f]
  <2>0. Feed(d, c) = e
    BY <1>6 DEF Feed, End
  <2>1. InOrder(f) /\ Between(lo, f, hi)
    BY <1>1, <1>2, <1>4, FramesAppend
  <2>2. e.frames = f /\ e.buffer = << >>
    OBVIOUS
  <2> HIDE DEF f, e
  <2>3. Ranked(hi, << >>, top) /\ lo <= hi
    BY <1>1, <1>4, RankedEmpty
  <2> QED BY <2>0, <2>1, <2>2, <2>3 DEF Deframed
<1>7. CASE ~Delimits(c)
  <2>1. Feed(d, c) = [d EXCEPT !.buffer = Store(d.buffer, c)]
    BY <1>7 DEF Feed
  <2>2. Feed(d, c).frames = d.frames /\ Feed(d, c).buffer = Store(d.buffer, c)
    BY <1>2, <2>1
  <2>3. Ranked(x, Append(d.buffer, c), top)
    BY <1>1, <1>3, <1>7, RankedAppend
  <2>4. Ranked(x, <<c>>, top)
    <3>1. Ranked(x, << >>, hi)
      BY <1>4, RankedEmpty
    <3>2. Ranked(x, Append(<< >>, c), top)
      <4> DEFINE q == << >>
      <4>1. q \in Seq(WireBytes(n)) /\ Ranked(x, q, hi)
        BY <3>1
      <4> HIDE DEF q
      <4>2. Ranked(x, Append(q, c), top)
        BY <1>7, <4>1, RankedAppend
      <4> QED BY <4>2 DEF q
    <3> QED BY <3>2
  <2>5. Ranked(x, Store(d.buffer, c), top)
    BY <2>3, <2>4 DEF Store
  <2> QED BY <1>1, <1>4, <2>2, <2>5 DEF Deframed
<1> QED BY <1>5, <1>6, <1>7

\* A whole read.
LEMMA DeframeRanked ==
  ASSUME NEW n \in Nat, NEW first \in Seq(FrameBytes(n)), NEW in \in Seq(WireBytes(n)),
         NEW lo \in Nat, NEW mid \in Nat, NEW hi \in Nat,
         Ranked(lo, first, mid), Ranked(mid, in, hi)
  PROVE  /\ Deframe(first, in) \in Deframers(FrameBytes(n))
         /\ Deframed(Deframe(first, in), lo, hi)
<1> DEFINE m == Len(in)
           B == FrameBytes(n)
           Rest(k, top) == \A j \in k + 1 .. m : ~Delimits(in[j]) => top < Rank(in[j])
           Reached(d, k) == \E top \in Nat : top <= hi /\ Deframed(d, lo, top) /\ Rest(k, top)
<1>1. \A c \in WireBytes(n) : Delimits(c) \/ c \in B
  BY DEF WireBytes, FrameBytes, Delimits
<1>2. PICK t \in [0 .. m -> Deframers(B)] :
        /\ t[0] = [buffer |-> first, frames |-> << >>]
        /\ \A k \in 1 .. m : t[k] = Feed(t[k - 1], in[k])
        /\ Deframe(first, in) = t[m]
  <2> HIDE DEF B
  <2>1. first \in Seq(B)
    BY DEF B
  <2>2. FedByByte(B, first, in)
    BY <1>1, <2>1, DeframeTrace
  <2> QED BY <2>2 DEF FedByByte
<1> DEFINE P == {k \in Nat : k <= m => Reached(t[k], k)}
<1>3. m \in Nat /\ mid <= hi /\ lo <= mid
  BY DEF Ranked
<1>4. \A j \in 1 .. m : in[j] \in WireBytes(n) /\ (~Delimits(in[j]) => Rank(in[j]) \in Nat)
  BY RanksIn
<1>5. Reached(t[0], 0)
  <2>1. Deframed([buffer |-> first, frames |-> << >>], lo, mid)
    BY <1>3 DEF Deframed, InOrder, Between
  <2>2. Rest(0, mid)
    BY <1>3 DEF Ranked
  <2> HIDE DEF Rest
  <2> QED BY <1>2, <1>3, <2>1, <2>2
<1>6. ASSUME NEW k \in Nat, k + 1 <= m, Reached(t[k], k) PROVE Reached(t[k + 1], k + 1)
  <2>1. PICK top \in Nat : top <= hi /\ Deframed(t[k], lo, top) /\ Rest(k, top)
    BY <1>6
  <2> DEFINE c == in[k + 1]
             next == IF Delimits(c) THEN top ELSE Rank(c)
  <2>2. k + 1 \in 1 .. m /\ k \in 0 .. m /\ (k + 1) - 1 = k
    BY <1>3, <1>6
  <2>3. t[k + 1] = Feed(t[k], c) /\ t[k] \in Deframers(FrameBytes(n))
    BY <1>2, <2>2
  <2>4. c \in WireBytes(n) /\ (~Delimits(c) => Rank(c) \in Nat /\ top < Rank(c) /\ Rank(c) <= hi)
    <3>1. ~Delimits(c) => top < Rank(c)
      <4>1. k + 1 \in k + 1 .. m
        BY <1>3, <1>6
      <4> QED BY <2>1, <4>1
    <3>2. ~Delimits(c) => Rank(c) <= hi
      BY <2>2 DEF Ranked
    <3> QED BY <1>4, <2>2, <3>1, <3>2
  <2>5. next \in Nat /\ top <= next /\ next <= hi
    BY <2>1, <2>4
  <2>6. Deframed(t[k + 1], lo, next)
    <3> HIDE DEF c, Rest
    <3> QED BY <2>1, <2>3, <2>4, <2>5, FeedRanked
  <2>7. Rest(k + 1, next)
    <3>1. ASSUME NEW j \in (k + 1) + 1 .. m, ~Delimits(in[j]) PROVE next < Rank(in[j])
      <4>1. j \in k + 1 .. m /\ j \in 1 .. m /\ k + 1 < j
        BY <1>3, <1>6
      <4>2. top < Rank(in[j])
        BY <2>1, <3>1, <4>1
      <4>3. ~Delimits(c) => Rank(c) < Rank(in[j])
        BY <2>2, <3>1, <4>1 DEF Ranked
      <4> QED BY <4>2, <4>3
    <3> QED BY <3>1
  <2> HIDE DEF Rest, next
  <2> QED BY <2>5, <2>6, <2>7
<1>7. Reached(t[m], m)
  <2> HIDE DEF Reached
  <2>1. P \in SUBSET Nat /\ 0 \in P
    BY <1>5
  <2>2. \A k \in P : k + 1 \in P
    BY <1>3, <1>6
  <2>3. P = Nat
    <3> HIDE DEF P
    <3> QED BY <2>1, <2>2, Induction
  <2> QED BY <1>3, <2>3
<1>8. Deframed(t[m], lo, hi)
  <2>1. PICK top \in Nat : top <= hi /\ Deframed(t[m], lo, top)
    BY <1>7
  <2>2. PICK x \in Nat : lo <= x /\ Between(lo, t[m].frames, x) /\ Ranked(x, t[m].buffer, top)
    BY <2>1 DEF Deframed
  <2>3. t[m].buffer \in Seq(WireBytes(n))
    <3>1. t[m] \in Deframers(B) /\ B \subseteq WireBytes(n)
      BY <1>2, <1>3 DEF FrameBytes, WireBytes
    <3> QED BY <3>1 DEF Deframers
  <2>4. Ranked(x, t[m].buffer, hi)
    <3> DEFINE q == t[m].buffer
    <3>1. q \in Seq(WireBytes(n)) /\ Ranked(x, q, top)
      BY <2>2, <2>3
    <3> HIDE DEF q
    <3>2. Ranked(x, q, hi)
      BY <2>1, <3>1, RankedWiden
    <3> QED BY <3>2 DEF q
  <2> QED BY <2>1, <2>2, <2>4 DEF Deframed
<1> QED BY <1>2, <1>3, <1>8

\* The device: which line it is at, and how many it began.
DeviceOK ==
  /\ lineNo \in 1 .. MaxLines + 1 /\ sent \in 0 .. MaxLines
  /\ linePos \in 0 .. Len(Wire(1)) - 1
  /\ sent = IF linePos = 0 THEN lineNo - 1 ELSE lineNo

\* The bytes of line k.
FirstByte(k) == [kind |-> "body", of |-> k]
BytesOf(k) == {FirstByte(k), Crc16(Body(k))}

LEMMA BytesOfLine ==
  ASSUME NEW k \in Nat \ {0}
  PROVE  /\ BytesOf(k) \subseteq LineBytes(k)
         /\ Rank(FirstByte(k)) = 2 * k /\ Rank(Crc16(Body(k))) = 2 * k + 1
<1>1. BytesOf(k) \subseteq LineBytes(k)
  BY DEF BytesOf, LineBytes, FirstByte
<1>2. Rank(FirstByte(k)) = 2 * k
  BY DEF Rank, FirstByte
<1>3. Rank(Crc16(Body(k))) = 2 * k + 1
  BY DEF Rank, Crc16, Body
<1> QED BY <1>1, <1>2, <1>3

LEMMA ByteJoins ==
  ASSUME NEW S, NEW s \in Seq(S), NEW b \in S
  PROVE  /\ Append(s, b) \in Seq(S) /\ Len(Append(s, b)) = Len(s) + 1
         /\ \A i \in 1 .. Len(s) : Append(s, b)[i] = s[i]
         /\ Append(s, b)[Len(s) + 1] = b
BY AppendProperties

LEMMA LineShape ==
  ASSUME NEW k
  PROVE  /\ Line(k) \in Seq(BytesOf(k)) /\ Len(Line(k)) \in 1 .. 2
         /\ Len(Line(k)) = IF DeviceAddsCrc THEN 2 ELSE 1
         /\ Line(k)[1] = FirstByte(k)
         /\ Len(Line(k)) = 2 => Line(k)[2] = Crc16(Body(k))
<1> DEFINE S == BytesOf(k)
           b == FirstByte(k)
           c == Crc16(Body(k))
<1>1. b \in S /\ c \in S /\ Body(k) = <<b>>
  BY DEF BytesOf, Body, FirstByte
<1> HIDE DEF S, b, c
<1> DEFINE p == Body(k)
<1>2. p \in Seq(S) /\ Len(p) = 1 /\ p[1] = b
  BY <1>1
<1> HIDE DEF p
<1>3. /\ Append(p, c) \in Seq(S) /\ Len(Append(p, c)) = 2
      /\ Append(p, c)[1] = p[1] /\ Append(p, c)[2] = c
  <2>1. /\ Append(p, c) \in Seq(S) /\ Len(Append(p, c)) = Len(p) + 1
        /\ \A i \in 1 .. Len(p) : Append(p, c)[i] = p[i]
        /\ Append(p, c)[Len(p) + 1] = c
    BY <1>1, <1>2, ByteJoins
  <2> QED BY <1>2, <2>1
<1>4. CASE DeviceAddsCrc
  <2>1. Line(k) = Append(p, c)
    BY <1>4 DEF Line, c, p
  <2> QED BY <1>2, <1>3, <1>4, <2>1 DEF S, b, c
<1>5. CASE ~DeviceAddsCrc
  <2>1. Line(k) = p
    BY <1>5 DEF Line, p
  <2> QED BY <1>2, <1>5, <2>1 DEF S, b, c
<1> QED BY <1>4, <1>5

\* The lines of a device have one length on the wire, and at least a byte and a delimiter.
LEMMA WireLength ==
  ASSUME NEW k
  PROVE  Len(Wire(k)) = Len(Wire(1)) /\ Len(Wire(1)) \in Nat \ {0} /\ Len(Wire(1)) >= 2
<1>1. Delimiter \in Seq(ToSet(Delimiter)) /\ Delimiter # << >>
  BY FramingAssumption
<1>2. \A i : Len(Wire(i)) = Len(Line(i)) + Len(Delimiter)
  <2>1. ASSUME NEW i PROVE Len(Wire(i)) = Len(Line(i)) + Len(Delimiter)
    <3>1. Line(i) \in Seq(BytesOf(i))
      BY LineShape
    <3> QED BY <1>1, <3>1 DEF Wire, Frame
  <2> QED BY <2>1
<1>3. Len(Line(k)) = Len(Line(1)) /\ Len(Line(1)) \in 1 .. 2
  BY LineShape
<1>4. Len(Delimiter) \in Nat \ {0}
  BY <1>1, EmptySeq
<1> QED BY <1>2, <1>3, <1>4

\* The first byte of a line on the wire is its body, the second its CRC if it has one.
LEMMA WireByte ==
  ASSUME NEW k \in Nat \ {0}, NEW j \in 1 .. Len(Wire(k))
  PROVE  /\ Wire(k)[j] \in WireBytes(k)
         /\ ~Delimits(Wire(k)[j]) => \/ (j = 1 /\ Rank(Wire(k)[j]) = 2 * k)
                                     \/ (j = 2 /\ Rank(Wire(k)[j]) = 2 * k + 1)
<1> DEFINE l == Line(k)
           d == Delimiter
<1>1. /\ d \in Seq(ToSet(Delimiter)) /\ l \in Seq(BytesOf(k)) /\ Wire(k) = l \o d
      /\ Len(l) \in 1 .. 2 /\ l[1] = FirstByte(k)
      /\ Len(l) = 2 => l[2] = Crc16(Body(k))
  BY FramingAssumption, LineShape DEF Wire, Frame
<1> HIDE DEF l, d
<1>2. j \in 1 .. Len(l) + Len(d) /\ Len(l) \in Nat /\ Len(d) \in Nat
  BY <1>1
<1>3. CASE j <= Len(l)
  <2>1. Wire(k)[j] = l[j] /\ j \in 1 .. Len(l)
    BY <1>1, <1>2, <1>3
  <2>2. Wire(k)[j] \in BytesOf(k)
    BY <1>1, <2>1
  <2>3. Wire(k)[j] \in WireBytes(k)
    BY <2>2, BytesOfLine DEF WireBytes
  <2>4. j = 1 \/ (j = 2 /\ Len(l) = 2)
    BY <1>1, <2>1
  <2>5. j = 1 => Rank(Wire(k)[j]) = 2 * k
    BY <1>1, <2>1, BytesOfLine
  <2>6. j = 2 /\ Len(l) = 2 => Rank(Wire(k)[j]) = 2 * k + 1
    BY <1>1, <2>1, BytesOfLine
  <2> QED BY <2>3, <2>4, <2>5, <2>6
<1>4. CASE ~(j <= Len(l))
  <2>1. Wire(k)[j] = d[j - Len(l)] /\ j - Len(l) \in 1 .. Len(d)
    BY <1>1, <1>2, <1>4
  <2>2. Wire(k)[j] \in ToSet(Delimiter)
    BY <1>1, <2>1
  <2> QED BY <2>2 DEF WireBytes, Delimits
<1> QED BY <1>3, <1>4

\* Whatever the device does, the mark does not go back.
LEMMA DeviceStep ==
  ASSUME DeviceOK, [Next]_vars
  PROVE  /\ DeviceOK' /\ sent' \in {sent, sent + 1}
         /\ Mark \in Nat \ {0} /\ Mark' \in Nat \ {0} /\ Mark <= Mark'
<1> USE SerialAssumption, WireLength
<1>0. /\ lineNo \in Nat \ {0} /\ linePos \in Nat /\ sent \in Nat
      /\ sent = IF linePos = 0 THEN lineNo - 1 ELSE lineNo
  BY DEF DeviceOK
<1>1. CASE DeviceSends
  <2>1. /\ Len(Wire(lineNo)) = Len(Wire(1)) /\ Len(Wire(1)) \in Nat \ {0} /\ Len(Wire(1)) >= 2
        /\ sent' = lineNo /\ lineNo <= MaxLines
        /\ \/ linePos + 1 < Len(Wire(1)) /\ linePos' = linePos + 1 /\ lineNo' = lineNo
           \/ ~(linePos + 1 < Len(Wire(1))) /\ linePos' = 0 /\ lineNo' = lineNo + 1
    BY <1>1 DEF DeviceSends
  <2>2. DeviceOK' /\ sent' \in {sent, sent + 1}
    BY <2>1 DEF DeviceOK
  <2>3. Mark \in Nat \ {0} /\ Mark' \in Nat \ {0} /\ Mark <= Mark'
    BY <1>0, <2>1 DEF Mark
  <2> QED BY <2>2, <2>3
<1>2. CASE DeviceGoes
  <2>1. /\ lineNo' = IF linePos = 0 THEN lineNo ELSE lineNo + 1
        /\ linePos' = 0 /\ sent' = sent
    BY <1>2 DEF DeviceGoes
  <2>2. DeviceOK'
    BY <1>0, <2>1 DEF DeviceOK
  <2> QED BY <1>0, <2>1, <2>2 DEF Mark
<1>3. ASSUME UNCHANGED <<lineNo, linePos, sent>>
      PROVE  /\ DeviceOK' /\ sent' \in {sent, sent + 1}
             /\ Mark \in Nat \ {0} /\ Mark' \in Nat \ {0} /\ Mark <= Mark'
  <2>1. DeviceOK' /\ sent' \in {sent, sent + 1}
    BY <1>3 DEF DeviceOK
  <2> QED BY <1>0, <1>3, <2>1 DEF Mark
<1> QED BY <1>1, <1>2, <1>3 DEF Next, vars, DeviceComes, ReadData, ReadFails, ReadNothing,
          OnError, EnterReconnect, Reconnect, RunIncoming, RedisAnswers, RunOutgoing,
          PublishAlive, Tick, deviceVars

\* The byte the device sends comes after the mark, and the mark goes on to it.
LEMMA ByteAtMark ==
  ASSUME DeviceOK, DeviceSends
  PROVE  /\ Wire(lineNo)[linePos + 1] \in WireBytes(sent')
         /\ ~Delimits(Wire(lineNo)[linePos + 1]) =>
              Mark < Rank(Wire(lineNo)[linePos + 1]) /\ Rank(Wire(lineNo)[linePos + 1]) <= Mark'
<1> DEFINE b == Wire(lineNo)[linePos + 1]
<1>1. /\ lineNo \in Nat \ {0} /\ linePos \in Nat /\ sent \in Nat
      /\ sent = IF linePos = 0 THEN lineNo - 1 ELSE lineNo
      /\ linePos + 1 \in 1 .. Len(Wire(lineNo))
  BY WireLength, SerialAssumption DEF DeviceOK
<1>2. /\ b \in WireBytes(lineNo)
      /\ ~Delimits(b) => \/ (linePos + 1 = 1 /\ Rank(b) = 2 * lineNo)
                         \/ (linePos + 1 = 2 /\ Rank(b) = 2 * lineNo + 1)
  BY <1>1, WireByte
<1> HIDE DEF b
<1>3. /\ Len(Wire(lineNo)) = Len(Wire(1)) /\ Len(Wire(1)) \in Nat \ {0} /\ Len(Wire(1)) >= 2
      /\ sent' = lineNo
      /\ \/ linePos + 1 < Len(Wire(1)) /\ linePos' = linePos + 1 /\ lineNo' = lineNo
         \/ ~(linePos + 1 < Len(Wire(1))) /\ linePos' = 0 /\ lineNo' = lineNo + 1
  BY WireLength DEF DeviceSends
<1>4. CASE linePos = 0
  <2>1. Mark = 2 * (lineNo - 1) + 1 /\ Mark' = 2 * lineNo
    BY <1>1, <1>3, <1>4 DEF Mark
  <2> QED BY <1>1, <1>2, <1>3, <1>4, <2>1 DEF b
<1>5. CASE linePos = 1
  <2>1. Mark = 2 * lineNo /\ Mark' = 2 * lineNo + 1
    BY <1>1, <1>3, <1>5 DEF Mark
  <2> QED BY <1>1, <1>2, <1>3, <1>5, <2>1 DEF b
<1>6. CASE linePos > 1
  BY <1>1, <1>2, <1>3, <1>6 DEF b
<1> QED BY <1>1, <1>4, <1>5, <1>6

\* A frame whose CRC is right is a line, and its last byte is the CRC of that line.
LEMMA CrcNamesLine ==
  ASSUME NEW n \in Nat, NEW f \in Seq(FrameBytes(n)), CrcMatches(f)
  PROVE  /\ Len(f) >= 2
         /\ \E k \in 1 .. n : Front(f) = Body(k) /\ Rank(f[Len(f)]) = 2 * k + 1
<1>1. Len(f) \in Nat /\ Len(f) >= 2 /\ f[Len(f)] = Crc16(Front(f))
  BY DEF CrcMatches, Last
<1>2. f[Len(f)] \in LineBytes(n)
  BY <1>1 DEF FrameBytes
<1>3. f[Len(f)].kind = "crc" /\ f[Len(f)].of = Front(f)
  BY <1>1 DEF Crc16
<1>4. PICK k \in 1 .. n : f[Len(f)] = [kind |-> "body", of |-> k] \/ f[Len(f)] = Crc16(Body(k))
  BY <1>2 DEF LineBytes
<1>5. f[Len(f)] = Crc16(Body(k)) /\ Front(f) = Body(k)
  <2>1. [kind |-> "body", of |-> k].kind = "body" /\ Crc16(Body(k)).of = Body(k)
    BY DEF Crc16
  <2> QED BY <1>3, <1>4, <2>1
<1>6. Rank(f[Len(f)]) = 2 * k + 1
  <2>1. k \in Nat \ {0}
    OBVIOUS
  <2> QED BY <1>5, <2>1, BytesOfLine
<1> QED BY <1>1, <1>5, <1>6

\* Bytes join the port, a read joins the queue.
LEMMA SendKeepsOrder ==
  ASSUME LinesInOrder, DeviceOK, DeviceSends PROVE LinesInOrder'
<1> DEFINE b == Wire(lineNo)[linePos + 1]
<1>1. /\ sent \in Nat /\ sent' \in Nat \ {0} /\ sent <= sent'
      /\ (tty' = Append(tty, b) \/ tty' = tty)
      /\ UNCHANGED <<incoming, buffer, delivered>>
  BY SerialAssumption DEF DeviceSends, DeviceOK, inVars
<1>2. /\ Mark \in Nat /\ Mark' \in Nat /\ Mark <= Mark'
      /\ b \in WireBytes(sent') /\ (~Delimits(b) => Mark < Rank(b) /\ Rank(b) <= Mark')
  BY DeviceStep, ByteAtMark DEF Next
<1> HIDE DEF b
<1>3. /\ tty \in Seq(WireBytes(sent')) /\ tty' \in Seq(WireBytes(sent'))
      /\ incoming \in Seq(Seq(WireBytes(sent'))) /\ buffer \in Seq(FrameBytes(sent'))
  <2>1. WireBytes(sent) \subseteq WireBytes(sent') /\ FrameBytes(sent) \subseteq FrameBytes(sent')
    BY <1>1, MoreBytes
  <2>2. tty \in Seq(WireBytes(sent'))
    BY <2>1 DEF LinesInOrder
  <2>3. tty' \in Seq(WireBytes(sent'))
    BY <1>1, <1>2, <2>2, AppendProperties
  <2>4. buffer \in Seq(FrameBytes(sent'))
    BY <2>1 DEF LinesInOrder
  <2>5. Seq(WireBytes(sent)) \subseteq Seq(WireBytes(sent'))
    BY <2>1
  <2>6. incoming \in Seq(Seq(WireBytes(sent')))
    BY <2>5 DEF LinesInOrder
  <2> QED BY <2>2, <2>3, <2>4, <2>6
<1>4. PICK c \in [0 .. Len(incoming) -> Nat] :
        Cut(c, Len(incoming), Newest(delivered), buffer, incoming, tty, Mark)
  BY DEF LinesInOrder
<1>5. Len(incoming) \in Nat /\ c[Len(incoming)] \in Nat
  <2>1. Len(incoming) \in Nat /\ Len(incoming) \in 0 .. Len(incoming)
    BY <1>3
  <2> QED BY <1>4, <2>1
<1>6. Ranked(c[Len(incoming)], tty', Mark')
  <2>1. Ranked(c[Len(incoming)], tty, Mark)
    BY <1>4 DEF Cut
  <2>2. Ranked(c[Len(incoming)], tty, Mark')
    BY <1>1, <1>2, <1>3, <1>5, <2>1, RankedWiden
  <2>3. Ranked(c[Len(incoming)], Append(tty, b), Mark')
    BY <1>1, <1>2, <1>3, <1>5, <2>1, RankedAppend
  <2> QED BY <1>1, <2>2, <2>3
<1>7. Cut(c, Len(incoming), Newest(delivered), buffer, incoming, tty', Mark')
  BY <1>4, <1>6 DEF Cut
<1>8. Newest(delivered)' = Newest(delivered)
  BY <1>1 DEF Newest
<1> QED BY <1>1, <1>3, <1>4, <1>7, <1>8 DEF LinesInOrder

LEMMA ReadKeepsOrder ==
  ASSUME LinesInOrder, DeviceOK, ReadData PROVE LinesInOrder'
<1> DEFINE n == Len(incoming)
<1>1. /\ incoming \in Seq(Seq(WireBytes(sent))) /\ tty \in Seq(WireBytes(sent))
      /\ buffer \in Seq(FrameBytes(sent))
      /\ n \in Nat /\ tty' = << >> /\ << >> \in Seq(WireBytes(sent))
      /\ incoming' = incoming \/ incoming' = Append(incoming, tty)
      /\ UNCHANGED <<sent, buffer, delivered, lineNo, linePos>>
  BY DEF LinesInOrder, ReadData, Pushed, deviceVars
<1>2. PICK c \in [0 .. n -> Nat] :
        Cut(c, n, Newest(delivered), buffer, incoming, tty, Mark)
  BY DEF LinesInOrder
<1>3. c[n] \in Nat /\ Mark \in Nat /\ c[n] <= Mark
  <2>1. n \in 0 .. n
    BY <1>1
  <2> HIDE DEF n
  <2>2. Mark \in Nat
    BY SerialAssumption DEF DeviceOK, Mark
  <2> QED BY <1>1, <1>2, <2>1, <2>2 DEF Cut, Ranked
<1>a. Newest(delivered)' = Newest(delivered) /\ Mark' = Mark
  BY <1>1 DEF Newest, Mark
<1>4. CASE incoming' = incoming
  <2>1. Ranked(c[n], << >>, Mark)
    BY <1>1, <1>3, RankedEmpty
  <2>2. Cut(c, n, Newest(delivered), buffer, incoming, << >>, Mark)
    BY <1>2, <2>1 DEF Cut
  <2> QED BY <1>1, <1>2, <1>4, <1>a, <2>2 DEF LinesInOrder
<1>5. CASE incoming' = Append(incoming, tty)
  <2> DEFINE d == [i \in 0 .. n + 1 |-> IF i = n + 1 THEN Mark ELSE c[i]]
  <2>1. /\ incoming' \in Seq(Seq(WireBytes(sent))) /\ Len(incoming') = n + 1
        /\ incoming'[n + 1] = tty /\ \A i \in 1 .. n : incoming'[i] = incoming[i]
    BY <1>1, <1>5, AppendProperties
  <2>2. d \in [0 .. n + 1 -> Nat]
    BY <1>1, <1>2, <1>3
  <2>3. d[0] = c[0] /\ d[n + 1] = Mark /\ \A i \in 0 .. n : d[i] = c[i]
    BY <1>1
  <2> HIDE DEF d
  <2>4. Ranked(Mark, << >>, Mark)
    BY <1>3, RankedEmpty
  <2>5. ASSUME NEW i \in 1 .. n + 1 PROVE Ranked(d[i - 1], incoming'[i], d[i])
    <3>1. CASE i = n + 1
      <4>1. Ranked(c[n], tty, Mark)
        BY <1>2 DEF Cut
      <4>2. i - 1 = n /\ d[i - 1] = c[n]
        BY <1>1, <2>3, <3>1
      <4> QED BY <2>1, <2>3, <3>1, <4>1, <4>2
    <3>2. CASE i \in 1 .. n
      <4>1. Ranked(c[i - 1], incoming[i], c[i])
        BY <1>2, <3>2 DEF Cut
      <4>2. d[i - 1] = c[i - 1] /\ d[i] = c[i]
        BY <1>1, <2>3, <3>2
      <4> QED BY <2>1, <3>2, <4>1, <4>2
    <3>3. i = n + 1 \/ i \in 1 .. n
      BY <1>1
    <3> QED BY <3>1, <3>2, <3>3
  <2>6. Cut(d, n + 1, Newest(delivered), buffer, incoming', << >>, Mark)
    BY <1>2, <2>3, <2>4, <2>5 DEF Cut
  <2> QED BY <1>1, <1>a, <2>1, <2>2, <2>6 DEF LinesInOrder
<1> QED BY <1>1, <1>4, <1>5

\* The bytes of a lost port are gone.
LEMMA LossKeepsOrder ==
  ASSUME LinesInOrder, tty' = << >>, UNCHANGED <<incoming, buffer, delivered, sent>>,
         Mark \in Nat, Mark' \in Nat, Mark <= Mark'
  PROVE  LinesInOrder'
<1> DEFINE n == Len(incoming)
<1>1. /\ n \in Nat /\ << >> \in Seq(WireBytes(sent))
      /\ incoming \in Seq(Seq(WireBytes(sent))) /\ buffer \in Seq(FrameBytes(sent))
  BY DEF LinesInOrder
<1>2. PICK c \in [0 .. n -> Nat] :
        Cut(c, n, Newest(delivered), buffer, incoming, tty, Mark)
  BY DEF LinesInOrder
<1>3. c[n] \in Nat /\ c[n] <= Mark'
  <2>1. n \in 0 .. n
    BY <1>1
  <2> HIDE DEF n
  <2>2. c[n] \in Nat /\ c[n] <= Mark
    BY <1>2, <2>1 DEF Cut, Ranked
  <2> QED BY <2>2
<1>4. Cut(c, n, Newest(delivered), buffer, incoming, << >>, Mark')
  <2>1. Ranked(c[n], << >>, Mark')
    BY <1>3, RankedEmpty
  <2> QED BY <1>2, <2>1 DEF Cut
<1>5. Newest(delivered)' = Newest(delivered)
  BY DEF Newest
<1> QED BY <1>1, <1>2, <1>4, <1>5 DEF LinesInOrder

\* Finite functions that start at 1 are sequences.
LEMMA ListIsSeq ==
  ASSUME NEW S, NEW n \in Nat, NEW f \in [1 .. n -> S]
  PROVE  f \in Seq(S) /\ Len(f) = n
OBVIOUS

LEMMA BoundedIsSeq ==
  ASSUME NEW S, NEW n \in Nat, NEW f \in SeqOf(S, n)
  PROVE  f \in Seq(S)
<1>1. PICK m \in 0 .. n : f \in [1 .. m -> S]
  BY DEF SeqOf
<1>2. m \in Nat
  OBVIOUS
<1> QED BY <1>1, <1>2, ListIsSeq

\* Numbers greater than all before them join.
LEMMA AscendingJoin ==
  ASSUME NEW s \in Seq(Nat), NEW t \in Seq(Nat), Link!Ascending(s), Link!Ascending(t),
         \A i \in 1 .. Len(s) : \A j \in 1 .. Len(t) : s[i] < t[j]
  PROVE  Link!Ascending(s \o t) /\ Link!IsPrefix(s, s \o t)
<1> DEFINE r == s \o t
<1>1. /\ r \in Seq(Nat) /\ Len(s) \in Nat /\ Len(t) \in Nat /\ Len(r) = Len(s) + Len(t)
      /\ \A i \in 1 .. Len(s) : r[i] = s[i]
      /\ \A i \in 1 .. Len(t) : r[Len(s) + i] = t[i]
  BY ConcatShape
<1> HIDE DEF r
<1>2. ASSUME NEW i \in 1 .. Len(r), ~(i \in 1 .. Len(s))
      PROVE  i - Len(s) \in 1 .. Len(t) /\ r[i] = t[i - Len(s)]
  <2>1. i - Len(s) \in 1 .. Len(t) /\ Len(s) + (i - Len(s)) = i
    BY <1>1, <1>2
  <2> QED BY <1>1, <2>1
<1>3. ASSUME NEW i \in 1 .. Len(r), NEW j \in 1 .. Len(r), i < j PROVE r[i] < r[j]
  <2>1. CASE i \in 1 .. Len(s) /\ j \in 1 .. Len(s)
    BY <1>1, <1>3, <2>1 DEF Link!Ascending
  <2>2. CASE i \in 1 .. Len(s) /\ ~(j \in 1 .. Len(s))
    BY <1>1, <1>2, <2>2
  <2>3. CASE ~(i \in 1 .. Len(s))
    <3>1. ~(j \in 1 .. Len(s))
      BY <1>1, <1>3, <2>3
    <3>2. i - Len(s) < j - Len(s)
      BY <1>1, <1>3
    <3>3. t[i - Len(s)] < t[j - Len(s)]
      BY <1>2, <2>3, <3>1, <3>2 DEF Link!Ascending
    <3> QED BY <1>2, <2>3, <3>1, <3>3
  <2> QED BY <2>1, <2>2, <2>3
<1>4. SubSeq(s, 1, Len(s)) = SubSeq(r, 1, Len(s)) /\ Len(s) <= Len(r)
  <2>1. r \in Seq(Nat) /\ Len(s) \in 0 .. Len(r)
    BY <1>1
  <2>2. /\ SubSeq(r, 1, Len(s)) \in Seq(Nat) /\ Len(SubSeq(r, 1, Len(s))) = Len(s)
        /\ \A i \in 1 .. Len(s) : SubSeq(r, 1, Len(s))[i] = r[i]
    BY <2>1, SplitShape
  <2>3. Len(s) \in 0 .. Len(s)
    BY <1>1
  <2>4. /\ SubSeq(s, 1, Len(s)) \in Seq(Nat) /\ Len(SubSeq(s, 1, Len(s))) = Len(s)
        /\ \A i \in 1 .. Len(s) : SubSeq(s, 1, Len(s))[i] = s[i]
    BY <2>3, SplitShape
  <2> DEFINE u == SubSeq(s, 1, Len(s))
             v == SubSeq(r, 1, Len(s))
  <2>5. u \in Seq(Nat) /\ v \in Seq(Nat) /\ Len(u) = Len(v) /\ \A i \in 1 .. Len(u) : u[i] = v[i]
    BY <1>1, <2>2, <2>4
  <2> HIDE DEF u, v
  <2>6. u = v
    BY <2>5, SeqEqual
  <2> QED BY <1>1, <2>6 DEF u, v
<1>5. Link!Ascending(r)
  BY <1>3 DEF Link!Ascending
<1> QED BY <1>4, <1>5 DEF Link!IsPrefix, r

LEMMA OddOrder ==
  ASSUME NEW a \in Nat, NEW b \in Nat, 2 * a + 1 < 2 * b + 1 PROVE a < b
OBVIOUS

\* The requests of one read: their lines ascend, from above lo up to x.
Taken(new, lo, x) ==
  /\ new \in Seq(Nat) /\ Link!Ascending(new)
  /\ \A i \in 1 .. Len(new) : new[i] \in 1 .. sent /\ lo < 2 * new[i] + 1 /\ 2 * new[i] + 1 <= x

\* They join what was delivered.
LEMMA TakenJoin ==
  ASSUME Deliverable, NEW new, NEW x \in Nat, Taken(new, Newest(delivered), x),
         Newest(delivered) <= x, sent \in Nat,
         delivered' = delivered \o new, sent' = sent
  PROVE  /\ Deliverable' /\ Newest(delivered)' <= x /\ Newest(delivered)' \in Nat
         /\ Link!IsPrefix(delivered, delivered')
<1>1. /\ delivered \in Seq(Nat) /\ Link!Ascending(delivered) /\ Len(delivered) \in Nat
      /\ new \in Seq(Nat) /\ Link!Ascending(new) /\ Len(new) \in Nat
  BY DEF Deliverable, Taken
<1>2. /\ delivered' \in Seq(Nat) /\ Len(delivered') = Len(delivered) + Len(new)
      /\ \A i \in 1 .. Len(delivered) : delivered'[i] = delivered[i]
      /\ \A i \in 1 .. Len(new) : delivered'[Len(delivered) + i] = new[i]
  BY <1>1, Joined
<1>3. ASSUME NEW i \in 1 .. Len(delivered), NEW j \in 1 .. Len(new) PROVE delivered[i] < new[j]
  <2>0. Len(delivered) \in 1 .. Len(delivered)
    BY <1>1
  <2>1. /\ Len(delivered) \in 1 .. Len(delivered) /\ delivered[Len(delivered)] \in Nat
        /\ delivered[i] \in Nat /\ new[j] \in Nat
    BY <1>1, <2>0, ElementOfSeq
  <2>2. delivered[i] <= delivered[Len(delivered)]
    <3>1. CASE i = Len(delivered)
      BY <2>1, <3>1
    <3>2. CASE i # Len(delivered)
      <4>1. i < Len(delivered)
        BY <1>1, <3>2
      <4>2. delivered[i] < delivered[Len(delivered)]
        BY <1>1, <2>1, <4>1 DEF Link!Ascending
      <4> QED BY <2>1, <4>2
    <3> QED BY <3>1, <3>2
  <2>3. Newest(delivered) = 2 * delivered[Len(delivered)] + 1
    BY <1>1, <2>1 DEF Newest
  <2>4. Newest(delivered) < 2 * new[j] + 1
    BY DEF Taken
  <2>5. 2 * delivered[Len(delivered)] + 1 < 2 * new[j] + 1
    BY <2>3, <2>4
  <2>6. delivered[Len(delivered)] < new[j]
    BY <2>1, <2>5, OddOrder
  <2> QED BY <2>1, <2>2, <2>6
<1>4. Link!Ascending(delivered') /\ Link!IsPrefix(delivered, delivered')
  BY <1>1, <1>3, AscendingJoin
<1>5. ASSUME NEW i \in 1 .. Len(delivered') PROVE delivered'[i] \in 1 .. sent
  <2>1. CASE i \in 1 .. Len(delivered)
    BY <1>2, <2>1 DEF Deliverable
  <2>2. CASE ~(i \in 1 .. Len(delivered))
    <3>1. i - Len(delivered) \in 1 .. Len(new) /\ Len(delivered) + (i - Len(delivered)) = i
      BY <1>1, <1>2, <2>2
    <3>2. delivered'[i] = new[i - Len(delivered)]
      BY <1>2, <3>1
    <3> QED BY <3>1, <3>2 DEF Taken
  <2> QED BY <2>1, <2>2
<1>6. Newest(delivered)' <= x /\ Newest(delivered)' \in Nat
  <2>1. CASE Len(new) = 0
    <3>1. Len(delivered') = Len(delivered)
      BY <1>1, <1>2, <2>1
    <3>2. Newest(delivered)' = Newest(delivered)
      <4>1. CASE Len(delivered) = 0
        BY <3>1, <4>1 DEF Newest
      <4>2. CASE Len(delivered) # 0
        <5>1. Len(delivered) \in 1 .. Len(delivered)
          BY <1>1, <4>2
        <5> QED BY <1>2, <3>1, <4>2, <5>1 DEF Newest
      <4> QED BY <4>1, <4>2
    <3>3. Newest(delivered) \in Nat
      BY <1>1 DEF Newest
    <3> QED BY <3>2, <3>3
  <2>2. CASE Len(new) # 0
    <3>1. Len(new) \in 1 .. Len(new) /\ Len(delivered') # 0
      BY <1>1, <1>2, <2>2
    <3>2. delivered'[Len(delivered')] = new[Len(new)]
      BY <1>2, <3>1
    <3>3. Newest(delivered)' = 2 * new[Len(new)] + 1
      BY <3>1, <3>2 DEF Newest
    <3>4. 2 * new[Len(new)] + 1 <= x /\ new[Len(new)] \in Nat
      BY <1>1, <3>1 DEF Taken
    <3> QED BY <3>3, <3>4
  <2> QED BY <2>1, <2>2
<1>7. Deliverable'
  BY <1>2, <1>4, <1>5 DEF Deliverable
<1> QED BY <1>4, <1>6, <1>7

\* The frames that are taken for requests are lines, in order.
LEMMA FramesTaken ==
  ASSUME NEW frames \in Seq(Seq(FrameBytes(sent))), sent \in Nat,
         NEW lo \in Nat, NEW x \in Nat, InOrder(frames), Between(lo, frames, x),
         NEW commands \in Seq({i \in 1 .. Len(frames) : CrcMatches(frames[i])}),
         Link!Ascending(commands)
  PROVE  /\ Taken([i \in DOMAIN commands |-> Front(frames[commands[i]])[1].of], lo, x)
         /\ \A i \in ToSet(commands) : \E k \in 1 .. sent : Front(frames[i]) = Body(k)
<1> DEFINE new == [i \in DOMAIN commands |-> Front(frames[commands[i]])[1].of]
           Named(i, k) == Front(frames[i]) = Body(k) /\ Len(frames[i]) \in 1 .. Len(frames[i])
                          /\ Rank(frames[i][Len(frames[i])]) = 2 * k + 1
<1>1. ASSUME NEW i \in 1 .. Len(frames), CrcMatches(frames[i])
      PROVE  \E k \in 1 .. sent : Named(i, k)
  <2> DEFINE f == frames[i]
  <2>1. f \in Seq(FrameBytes(sent)) /\ CrcMatches(f)
    BY <1>1
  <2> HIDE DEF f
  <2>2. Len(f) >= 2 /\ \E k \in 1 .. sent : Front(f) = Body(k) /\ Rank(f[Len(f)]) = 2 * k + 1
    BY <2>1, CrcNamesLine
  <2>3. Len(f) \in 1 .. Len(f)
    BY <2>1, <2>2
  <2> QED BY <2>2, <2>3 DEF f
<1>2. /\ Len(commands) \in Nat /\ DOMAIN commands = 1 .. Len(commands)
      /\ \A i \in 1 .. Len(commands) :
           commands[i] \in 1 .. Len(frames) /\ CrcMatches(frames[commands[i]])
  OBVIOUS
<1>3. ASSUME NEW i \in 1 .. Len(commands) PROVE Named(commands[i], new[i]) /\ new[i] \in 1 .. sent
  <2>1. PICK k \in 1 .. sent : Named(commands[i], k)
    <3> HIDE DEF Named
    <3> QED BY <1>1, <1>2
  <2>2. Body(k)[1].of = k
    BY DEF Body
  <2>3. new[i] = k
    BY <1>2, <2>1, <2>2
  <2> HIDE DEF Named, new
  <2> QED BY <2>1, <2>3
<1>4. ASSUME NEW i \in 1 .. Len(commands) PROVE lo < 2 * new[i] + 1 /\ 2 * new[i] + 1 <= x
  <2> DEFINE c == commands[i]
  <2>1. c \in 1 .. Len(frames) /\ Named(c, new[i])
    BY <1>2, <1>3
  <2> HIDE DEF c, new
  <2>2. Rank(frames[c][Len(frames[c])]) \in lo + 1 .. x
    BY <2>1 DEF Between
  <2> QED BY <2>1, <2>2
<1>5. ASSUME NEW i \in 1 .. Len(commands), NEW j \in 1 .. Len(commands), i < j
      PROVE  new[i] < new[j]
  <2> DEFINE c == commands[i]
             d == commands[j]
  <2>1. c \in 1 .. Len(frames) /\ Named(c, new[i]) /\ new[i] \in 1 .. sent
    BY <1>2, <1>3
  <2>2. d \in 1 .. Len(frames) /\ Named(d, new[j]) /\ new[j] \in 1 .. sent
    BY <1>2, <1>3
  <2>3. c < d
    BY <1>5 DEF Link!Ascending
  <2> HIDE DEF c, d, new
  <2>4. Rank(frames[c][Len(frames[c])]) < Rank(frames[d][Len(frames[d])])
    BY <2>1, <2>2, <2>3 DEF InOrder
  <2>5. 2 * new[i] + 1 < 2 * new[j] + 1
    BY <2>1, <2>2, <2>4
  <2>6. 1 .. sent \subseteq Nat
    OBVIOUS
  <2>7. new[i] \in Nat /\ new[j] \in Nat
    BY <2>1, <2>2, <2>6, Zenon
  <2> QED BY <2>5, <2>7, OddOrder, Zenon
<1>6. new \in Seq(Nat) /\ Len(new) = Len(commands)
  <2>0. 1 .. sent \subseteq Nat /\ DOMAIN new = 1 .. Len(commands)
    BY <1>2
  <2>1. \A i \in 1 .. Len(commands) : new[i] \in Nat
    <3> HIDE DEF new
    <3> QED BY <1>3, <2>0, Zenon
  <2>2. new = [i \in 1 .. Len(commands) |-> new[i]]
    BY <1>2
  <2> HIDE DEF new
  <2>3. new \in [1 .. Len(commands) -> Nat]
    BY <2>0, <2>1, <2>2
  <2> QED BY <1>2, <2>3, ListIsSeq
<1>7. Taken(new, lo, x)
  <2> HIDE DEF new, Named
  <2>1. Link!Ascending(new)
    BY <1>5, <1>6 DEF Link!Ascending
  <2> QED BY <1>3, <1>4, <1>6, <2>1 DEF Taken
<1>8. ASSUME NEW i \in ToSet(commands) PROVE \E k \in 1 .. sent : Front(frames[i]) = Body(k)
  <2>1. PICK j \in 1 .. Len(commands) : i = commands[j]
    BY <1>2 DEF ToSet
  <2>2. PICK k \in 1 .. sent : Named(i, k)
    <3> HIDE DEF Named
    <3> QED BY <1>1, <1>2, <2>1
  <2> QED BY <2>2
<1> QED BY <1>7, <1>8

\* A read is deframed, and the lines in it that Redis takes are given to it.
LEMMA DeframeKeepsOrder ==
  ASSUME LinesInOrder, Deliverable, DeviceOK, RunIncoming
  PROVE  /\ LinesInOrder' /\ Deliverable'
         /\ \A body \in requests' : \E k \in 1 .. sent' : body = Body(k)
         /\ Link!IsPrefix(delivered, delivered')
<1> DEFINE n == Len(incoming)
           d == Deframe(buffer, Head(incoming))
           B == FrameBytes(sent)
<1>1. /\ incoming # << >> /\ incoming' = Tail(incoming) /\ buffer' = d.buffer
      /\ UNCHANGED <<tty, sent, lineNo, linePos>>
  BY DEF RunIncoming, Served, deviceVars
<1>2. PICK commands \in SeqOf({i \in 1 .. Len(d.frames) : CrcMatches(d.frames[i])}, Len(d.frames)) :
        /\ Link!Ascending(commands)
        /\ requests' = {Front(d.frames[i]) : i \in ToSet(commands)}
        /\ delivered' = delivered \o
             [i \in DOMAIN commands |-> Front(d.frames[commands[i]])[1].of]
  BY DEF RunIncoming
<1>3. PICK c \in [0 .. n -> Nat] : Cut(c, n, Newest(delivered), buffer, incoming, tty, Mark)
  BY DEF LinesInOrder
<1>4. /\ incoming \in Seq(Seq(WireBytes(sent))) /\ tty \in Seq(WireBytes(sent))
      /\ buffer \in Seq(B) /\ sent \in Nat /\ Newest(delivered) \in Nat /\ Mark' = Mark
  <2>1. Newest(delivered) \in Nat
    BY DEF Newest, Deliverable
  <2>2. Mark' = Mark
    BY <1>1 DEF Mark
  <2>3. sent \in Nat
    BY SerialAssumption DEF DeviceOK
  <2> QED BY <2>1, <2>2, <2>3 DEF LinesInOrder
<1>5. /\ n \in Nat \ {0} /\ Head(incoming) = incoming[1] /\ Head(incoming) \in Seq(WireBytes(sent))
      /\ Tail(incoming) \in Seq(Seq(WireBytes(sent))) /\ Len(Tail(incoming)) = n - 1
      /\ \A i \in 1 .. n - 1 : Tail(incoming)[i] = incoming[i + 1]
  BY <1>1, <1>4, HeadTailProperties, EmptySeq
<1>6. c[0] \in Nat /\ c[1] \in Nat /\ \A i \in 0 .. n : c[i] \in Nat
  <2>1. n \in Nat \ {0} /\ c \in [0 .. n -> Nat]
    BY <1>3, <1>5
  <2> HIDE DEF n
  <2>2. 0 \in 0 .. n /\ 1 \in 0 .. n
    BY <2>1
  <2> QED BY <2>1, <2>2
<1>7. d \in Deframers(B) /\ Deframed(d, Newest(delivered), c[1])
  <2>1. Ranked(Newest(delivered), buffer, c[0])
    BY <1>3 DEF Cut
  <2>2. Ranked(c[0], Head(incoming), c[1])
    <3>1. 1 \in 1 .. n /\ 1 - 1 = 0
      BY <1>5
    <3>2. Ranked(c[1 - 1], incoming[1], c[1])
      BY <1>3, <3>1 DEF Cut
    <3> QED BY <1>5, <3>1, <3>2
  <2> QED BY <1>4, <1>5, <1>6, <2>1, <2>2, DeframeRanked
<1> HIDE DEF d
<1>8. PICK x \in Nat : /\ Newest(delivered) <= x
                       /\ Between(Newest(delivered), d.frames, x)
                       /\ Ranked(x, d.buffer, c[1])
  BY <1>7 DEF Deframed
<1>9. /\ d.buffer \in Seq(B) /\ d.frames \in Seq(Seq(B)) /\ Len(d.frames) \in Nat
      /\ InOrder(d.frames)
  BY <1>7 DEF Deframers, Deframed
<1> DEFINE new == [i \in DOMAIN commands |-> Front(d.frames[commands[i]])[1].of]
<1>10. /\ Taken(new, Newest(delivered), x)
       /\ \A i \in ToSet(commands) : \E k \in 1 .. sent : Front(d.frames[i]) = Body(k)
  <2>1. commands \in Seq({i \in 1 .. Len(d.frames) : CrcMatches(d.frames[i])})
    <3> DEFINE S == {i \in 1 .. Len(d.frames) : CrcMatches(d.frames[i])}
    <3> HIDE DEF S
    <3>1. commands \in SeqOf(S, Len(d.frames))
      BY <1>2 DEF S
    <3> QED BY <1>9, <3>1, BoundedIsSeq DEF S
  <2> QED BY <1>2, <1>4, <1>8, <1>9, <2>1, FramesTaken
<1>11. delivered' = delivered \o new
  BY <1>2
<1> HIDE DEF new
<1>12. /\ Deliverable' /\ Newest(delivered)' <= x /\ Newest(delivered)' \in Nat
       /\ Link!IsPrefix(delivered, delivered')
  BY <1>1, <1>4, <1>8, <1>10, <1>11, TakenJoin
<1> DEFINE e == [i \in 0 .. n - 1 |-> c[i + 1]]
<1>13. e \in [0 .. n - 1 -> Nat]
  <2>1. \A i \in 0 .. n - 1 : i + 1 \in 0 .. n
    BY <1>5
  <2> QED BY <1>6, <2>1
<1>14. \A i \in 0 .. n - 1 : e[i] = c[i + 1]
  OBVIOUS
<1> HIDE DEF e
<1>15. Ranked(Newest(delivered)', d.buffer, e[0])
  <2>1. e[0] = c[1]
    BY <1>5, <1>14
  <2>2. d.buffer \in Seq(WireBytes(sent))
    <3>1. B \subseteq WireBytes(sent)
      BY DEF FrameBytes, WireBytes
    <3> HIDE DEF B
    <3> QED BY <1>9, <3>1
  <2> DEFINE q == d.buffer
             low == Newest(delivered)'
  <2>3. /\ q \in Seq(WireBytes(sent)) /\ Ranked(x, q, c[1]) /\ low \in Nat /\ low <= x
        /\ sent \in Nat /\ c[1] \in Nat /\ c[1] <= c[1]
    BY <1>4, <1>6, <1>8, <1>12, <2>2
  <2> HIDE DEF q, low
  <2>4. Ranked(low, q, c[1])
    BY <2>3, RankedWiden, SMTT(30)
  <2> QED BY <2>1, <2>4 DEF q, low
<1>16. ASSUME NEW i \in 1 .. n - 1 PROVE Ranked(e[i - 1], incoming'[i], e[i])
  <2>1. i + 1 \in 1 .. n /\ i - 1 \in 0 .. n - 1 /\ i \in 0 .. n - 1 /\ (i + 1) - 1 = i
    BY <1>5
  <2>2. Ranked(c[(i + 1) - 1], incoming[i + 1], c[i + 1])
    BY <1>3, <2>1 DEF Cut
  <2>3. e[i - 1] = c[i] /\ e[i] = c[i + 1]
    BY <1>14, <2>1
  <2>4. incoming'[i] = incoming[i + 1]
    BY <1>1, <1>5
  <2> QED BY <2>1, <2>2, <2>3, <2>4
<1>17. Ranked(e[n - 1], tty, Mark)
  <2>1. n - 1 \in 0 .. n - 1 /\ (n - 1) + 1 = n
    BY <1>5
  <2>2. e[n - 1] = c[n]
    BY <1>14, <2>1
  <2> QED BY <1>3, <2>2 DEF Cut
<1>18. Cut(e, n - 1, Newest(delivered)', buffer', incoming', tty', Mark')
  BY <1>1, <1>4, <1>15, <1>16, <1>17 DEF Cut
<1>19. LinesInOrder'
  <2>1. Len(incoming') = n - 1
    BY <1>1, <1>5
  <2> HIDE DEF n
  <2> QED BY <1>1, <1>4, <1>5, <1>9, <1>13, <1>18, <2>1 DEF LinesInOrder
<1>20. \A body \in requests' : \E k \in 1 .. sent' : body = Body(k)
  BY <1>1, <1>2, <1>10
<1> QED BY <1>12, <1>19, <1>20

\* The inductive invariant.
SerialInv == DeviceOK /\ LinesInOrder /\ Deliverable /\ RequestsAreLines

LEMMA SerialStep ==
  ASSUME SerialInv, [Next]_vars
  PROVE  SerialInv' /\ [Link!Next]_(Link!vars)
<1> USE DEF SerialInv
<1>1. /\ DeviceOK' /\ sent' \in {sent, sent + 1} /\ sent \in Nat /\ sent' \in Nat
      /\ Mark \in Nat /\ Mark' \in Nat /\ Mark <= Mark'
  BY DeviceStep, SerialAssumption DEF DeviceOK
<1>2. 1 .. sent \subseteq 1 .. sent'
  BY <1>1
<1>3. requests' = requests => RequestsAreLines'
  BY <1>2 DEF RequestsAreLines
<1>4. ASSUME delivered' = delivered
      PROVE  Deliverable' /\ [Link!Next]_(Link!vars)
  <2>1. Deliverable'
    BY <1>2, <1>4 DEF Deliverable, Link!Ascending
  <2>2. CASE sent' = sent
    BY <1>4, <2>1, <2>2 DEF Link!vars
  <2>3. CASE sent' = sent + 1
    BY <1>4, <2>1, <2>3 DEF Link!Next, Link!Send
  <2> QED BY <1>1, <2>1, <2>2, <2>3
<1>5. CASE DeviceSends
  BY <1>1, <1>3, <1>4, <1>5, SendKeepsOrder DEF DeviceSends, inVars
<1>6. CASE ReadData
  BY <1>1, <1>3, <1>4, <1>6, ReadKeepsOrder DEF ReadData
<1>7. CASE RunIncoming
  <2>1. /\ LinesInOrder' /\ Deliverable' /\ RequestsAreLines' /\ sent' = sent
        /\ Link!IsPrefix(delivered, delivered')
    BY <1>7, DeframeKeepsOrder DEF RequestsAreLines, RunIncoming
  <2>2. Link!Ascending(delivered') /\ Link!ToSet(delivered') \subseteq 1 .. sent
    <3>1. /\ delivered' \in Seq(Nat) /\ Link!Ascending(delivered')
          /\ \A i \in 1 .. Len(delivered') : delivered'[i] \in 1 .. sent
      BY <2>1 DEF Deliverable, Link!Ascending
    <3> QED BY <3>1 DEF Link!ToSet
  <2>3. Link!Deliver
    BY <2>1, <2>2 DEF Link!Deliver
  <2> QED BY <1>1, <2>1, <2>3 DEF Link!Next
<1>8. ASSUME tty' = << >>, UNCHANGED <<incoming, buffer, requests, delivered, sent>>
      PROVE  SerialInv' /\ [Link!Next]_(Link!vars)
  BY <1>1, <1>3, <1>4, <1>8, LossKeepsOrder
<1>9. CASE DeviceGoes \/ ReadFails \/ ReadNothing \/ OnError
  BY <1>8, <1>9 DEF DeviceGoes, ReadFails, ReadNothing, OnError, EnterReconnect, inVars,
     deviceVars
<1>10. ASSUME UNCHANGED <<tty, incoming, buffer, requests, delivered, sent, lineNo, linePos>>
       PROVE  SerialInv' /\ [Link!Next]_(Link!vars)
  <2>1. Mark' = Mark /\ Newest(delivered)' = Newest(delivered)
    BY <1>10 DEF Mark, Newest
  <2> QED BY <1>1, <1>3, <1>4, <1>10, <2>1 DEF LinesInOrder
<1>11. CASE DeviceComes \/ Reconnect \/ RedisAnswers \/ RunOutgoing \/ PublishAlive \/ Tick
            \/ UNCHANGED vars
  BY <1>10, <1>11 DEF DeviceComes, Reconnect, RedisAnswers, RunOutgoing, PublishAlive, Tick,
     inVars, deviceVars, vars
<1> QED BY <1>5, <1>6, <1>7, <1>9, <1>11 DEF Next

LEMMA SerialInit == Init => SerialInv
<1> SUFFICES ASSUME Init PROVE SerialInv
  OBVIOUS
<1>1. DeviceOK
  <2>1. Len(Wire(1)) \in Nat \ {0}
    BY WireLength
  <2> QED BY <2>1, SerialAssumption DEF Init, InitDevice, DeviceOK
<1>2. RequestsAreLines
  BY DEF Init, RequestsAreLines
<1> DEFINE e == << >>
<1>3. /\ tty = e /\ incoming = e /\ buffer = e /\ delivered = e /\ sent = 0 /\ linePos = 0
      /\ Len(e) = 0
  BY DEF Init, InitDevice
<1>4. Deliverable
  <2>1. e \in Seq(Nat)
    OBVIOUS
  <2> HIDE DEF e
  <2> QED BY <1>3, <2>1 DEF Deliverable, Link!Ascending
<1>5. LinesInOrder
  <2> DEFINE c == [i \in 0 .. 0 |-> 1]
  <2>1. Mark = 1 /\ Newest(delivered) = 1
    BY <1>3 DEF Mark, Newest
  <2>2. /\ e \in Seq(WireBytes(0)) /\ e \in Seq(Seq(WireBytes(0))) /\ e \in Seq(FrameBytes(0))
    OBVIOUS
  <2>3. Ranked(1, e, 1)
    BY RankedEmpty
  <2>4. c \in [0 .. 0 -> Nat] /\ c[0] = 1
    OBVIOUS
  <2> HIDE DEF c, e
  <2>5. Cut(c, 0, 1, e, e, e, 1)
    BY <2>3, <2>4 DEF Cut
  <2>6. \E a \in [0 .. Len(incoming) -> Nat] :
          Cut(a, Len(incoming), Newest(delivered), buffer, incoming, tty, Mark)
    BY <1>3, <2>1, <2>4, <2>5
  <2>7. /\ tty \in Seq(WireBytes(sent)) /\ incoming \in Seq(Seq(WireBytes(sent)))
        /\ buffer \in Seq(FrameBytes(sent))
    BY <1>3, <2>2
  <2> QED BY <2>6, <2>7 DEF LinesInOrder
<1> QED BY <1>1, <1>2, <1>4, <1>5 DEF SerialInv

LEMMA SerialInvariance == Spec => []SerialInv
BY SerialInit, SerialStep, PTL DEF Spec

\* Every request that reaches Redis is a line the device sent, whatever bytes the wire
\* loses, wherever the reads cut it and whatever queue is full: a frame is only taken for
\* a request on the word of its last byte, and that is a byte of one line.
THEOREM RequestsStayLines == Spec => []RequestsAreLines
<1>1. SerialInv => RequestsAreLines
  BY DEF SerialInv
<1> QED BY <1>1, SerialInvariance, PTL

\* The serial gateway implements the ordered lossy link, for any number of lines, any
\* frame length and any delimiter: the lines Redis is given are lines the device sent, in
\* their order and none twice, over the bytes the wire loses, the reads a full queue drops,
\* and the reconnections that leave half a line in the buffer.
THEOREM SerialImplementsLink == Spec => LinkSpec
<1>1. Init => Link!Init
  BY DEF Init, InitDevice, Link!Init
<1>2. SerialInv /\ [Next]_vars => [Link!Next]_(Link!vars)
  BY SerialStep
<1> QED BY <1>1, <1>2, SerialInvariance, PTL DEF Spec, LinkSpec, Link!Spec

-----------------------------------------------------------------------------
(* Types.                                                                  *)

\* A sequence whose entries are in S is one over S.
LEMMA SeqWithin ==
  ASSUME NEW T, NEW s \in Seq(T), NEW S, \A i \in 1 .. Len(s) : s[i] \in S
  PROVE  s \in Seq(S)
<1>1. Len(s) \in Nat /\ s \in [1 .. Len(s) -> S]
  OBVIOUS
<1> QED BY <1>1, ListIsSeq

LEMMA PushedLength ==
  ASSUME NEW S, NEW q \in Seq(S), NEW v \in S, Len(q) <= QueueDepth
  PROVE  Len(Pushed(q, v)) <= QueueDepth
  BY SerialAssumption DEF Pushed

\* The variables the other invariants leave out.
PortTypes ==
  /\ device \in {"absent", "unusable", "usable"}
  /\ hung \in BOOLEAN /\ connected \in BOOLEAN /\ garbled \in BOOLEAN
  /\ pc \in {"loop", "reconnect"} /\ fd \in Fds \cup {NoFd}
  /\ openFds \subseteq Fds /\ invokers \subseteq Fds
  /\ Len(incoming) <= QueueDepth /\ Len(outgoing) <= QueueDepth
  /\ answers <= MaxAnswers /\ aliveIn \in 0 .. 1

LEMMA PortTypesStep ==
  ASSUME SerialInv, AnswersOrdered, PortTypes, [Next]_vars
  PROVE  PortTypes'
<1>0. incoming \in Seq(Seq(WireBytes(sent))) /\ tty \in Seq(WireBytes(sent)) /\ outgoing \in Seq(Nat)
  BY DEF SerialInv, LinesInOrder, AnswersOrdered
<1> USE DEF PortTypes
<1>1. CASE DeviceSends \/ DeviceComes \/ DeviceGoes
  BY <1>1 DEF DeviceSends, DeviceComes, DeviceGoes, portVars, inVars, outVars
<1>2. CASE ReadData
  <2>1. Len(incoming') <= QueueDepth
    BY <1>0, <1>2, PushedLength DEF ReadData
  <2> QED BY <1>2, <2>1 DEF ReadData, portVars, outVars, deviceVars
<1>3. CASE ReadFails \/ PublishAlive \/ Tick
  BY <1>3 DEF ReadFails, PublishAlive, Tick, Second, portVars, inVars, outVars, deviceVars
<1>4. CASE ReadNothing \/ OnError
  BY <1>4 DEF ReadNothing, OnError, EnterReconnect, Disconnect, DelAllInvoker, inVars,
     outVars, deviceVars
<1>5. CASE Reconnect
  <2>1. /\ UNCHANGED <<device, hung, garbled, incoming, outgoing, answers>>
        /\ pc' \in {"loop", "reconnect"} /\ aliveIn' = 0
    BY <1>5 DEF Reconnect, Second, inVars, outVars, deviceVars
  <2>2. CASE ConnectSucceeds
    <3>1. PICK f \in Fds : fd' = f /\ openFds' = openFds \cup {f} /\ invokers' = invokers \cup {f}
      BY <2>2 DEF ConnectSucceeds
    <3>2. connected' = TRUE
      BY <2>2 DEF ConnectSucceeds
    <3>3. fd' \in Fds \cup {NoFd} /\ openFds' \subseteq Fds /\ invokers' \subseteq Fds
      BY <3>1
    <3> QED BY <2>1, <3>2, <3>3
  <2>3. CASE ConnectFails
    <3>1. openFds' = openFds /\ invokers' = invokers /\ fd' = NoFd /\ connected' = connected
      BY <2>3 DEF ConnectFails, AfterFailure
    <3> QED BY <2>1, <3>1
  <2> QED BY <1>5, <2>2, <2>3 DEF Reconnect
<1>6. CASE RunIncoming
  <2>1. incoming' = Tail(incoming) /\ Len(incoming') <= QueueDepth
    <3>1. incoming # << >> /\ incoming' = Tail(incoming)
      BY <1>6 DEF RunIncoming, Served
    <3>2. Len(Tail(incoming)) = Len(incoming) - 1 /\ Len(incoming) \in Nat /\ Len(incoming) <= QueueDepth
      BY <1>0, <3>1, HeadTailProperties
    <3> QED BY <3>1, <3>2, SerialAssumption
  <2> QED BY <1>6, <2>1 DEF RunIncoming, portVars, outVars, deviceVars
<1>7. CASE RedisAnswers
  <2>1. answers \in Nat /\ answers' = answers + 1 /\ answers < MaxAnswers
    BY <1>7 DEF RedisAnswers, AnswersOrdered
  <2>2. answers' <= MaxAnswers
    BY <2>1, SerialAssumption
  <2>3. Len(outgoing') <= QueueDepth
    <3>1. outgoing' = Pushed(outgoing, answers + 1) /\ answers + 1 \in Nat
      BY <1>7, <2>1 DEF RedisAnswers
    <3>2. Len(outgoing) <= QueueDepth
      OBVIOUS
    <3> QED BY <1>0, <3>1, <3>2, PushedLength
  <2> QED BY <1>7, <2>2, <2>3 DEF RedisAnswers, portVars, inVars, deviceVars
<1>8. CASE RunOutgoing
  <2>1. outgoing' = Tail(outgoing) /\ Len(outgoing') <= QueueDepth
    <3>1. outgoing # << >> /\ outgoing' = Tail(outgoing)
      BY <1>8 DEF RunOutgoing, Served
    <3>2. Len(Tail(outgoing)) = Len(outgoing) - 1 /\ Len(outgoing) \in Nat /\ Len(outgoing) <= QueueDepth
      BY <1>0, <3>1, HeadTailProperties
    <3> QED BY <3>1, <3>2, SerialAssumption
  <2> QED BY <1>8, <2>1 DEF RunOutgoing, portVars, inVars, deviceVars
<1>9. CASE UNCHANGED vars
  BY <1>9 DEF vars
<1> QED BY <1>1, <1>2, <1>3, <1>4, <1>5, <1>6, <1>7, <1>8, <1>9 DEF Next

\* Every variable keeps its type, and no queue exceeds its depth.
THEOREM SerialTypes == Spec => []TypeOK
<1>1. Init => AnswersOrdered /\ PortTypes
  <2> SUFFICES ASSUME Init PROVE AnswersOrdered /\ PortTypes
    OBVIOUS
  <2>1. AnswersOrdered
    BY AnswersInit
  <2>2. Len(incoming) <= QueueDepth /\ Len(outgoing) <= QueueDepth /\ answers <= MaxAnswers
    <3>1. Len(incoming) = 0 /\ Len(outgoing) = 0 /\ answers = 0
      BY DEF Init
    <3> QED BY <3>1, SerialAssumption
  <2>3. /\ device \in {"absent", "unusable", "usable"}
        /\ hung \in BOOLEAN /\ garbled \in BOOLEAN
    BY Zenon DEF Init, InitDevice
  <2>4. aliveIn \in 0 .. 1
    BY DEF Init
  <2>5. /\ pc \in {"loop", "reconnect"} /\ fd \in Fds \cup {NoFd} /\ connected \in BOOLEAN
        /\ openFds \subseteq Fds /\ invokers \subseteq Fds
    BY DEF Init, InitPort
  <2> QED BY <2>1, <2>2, <2>3, <2>4, <2>5 DEF PortTypes
<1>2. SerialInv /\ AnswersOrdered /\ PortTypes /\ [Next]_vars => AnswersOrdered' /\ PortTypes'
  BY AnswersStep, PortTypesStep
<1>3. SerialInv /\ AnswersOrdered /\ PortTypes => TypeOK
  <2> SUFFICES ASSUME SerialInv, AnswersOrdered, PortTypes PROVE TypeOK
    OBVIOUS
  <2>1. linePos \in 0 .. Len(Wire(1))
    BY WireLength DEF SerialInv, DeviceOK
  <2>2. delivered \in Seq(1 .. MaxLines)
    <3>1. /\ delivered \in Seq(Nat) /\ sent \in 0 .. MaxLines
          /\ \A i \in 1 .. Len(delivered) : delivered[i] \in 1 .. sent
      BY DEF SerialInv, DeviceOK, Deliverable
    <3>2. \A i \in 1 .. Len(delivered) : delivered[i] \in 1 .. MaxLines
      BY <3>1, SerialAssumption
    <3> QED BY <3>1, <3>2, SeqWithin
  <2>3. answers \in 0 .. MaxAnswers
    BY SerialAssumption DEF AnswersOrdered, PortTypes
  <2>4. shown \in Seq(1 .. MaxAnswers)
    <3>1. /\ shown \in Seq(Nat)
          /\ \A i \in 1 .. Len(shown) : shown[i] \in 1 .. answers
      BY DEF AnswersOrdered
    <3>2. \A i \in 1 .. Len(shown) : shown[i] \in 1 .. MaxAnswers
      BY <2>3, <3>1, SerialAssumption
    <3> QED BY <3>1, <3>2, SeqWithin
  <2> QED BY <2>1, <2>2, <2>3, <2>4 DEF TypeOK, SerialInv, DeviceOK, PortTypes
<1> QED BY <1>1, <1>2, <1>3, SerialInvariance, PTL DEF Spec
=============================================================================
