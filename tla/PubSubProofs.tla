---------------------------- MODULE PubSubProofs ----------------------------
(***************************************************************************)
(* Proofs about the sketch basicPubSub over gateway and Redis, for any     *)
(* clock and periods, any number of lines on their way, and any losses,    *)
(* noise and restarts; and about the values that Flows.cpp takes from one  *)
(* format to another, for values of every type.                            *)
(***************************************************************************)
EXTENDS MCPubSub, DataLemmas

-----------------------------------------------------------------------------
(* What lines are.                                                         *)

Counts == 0 .. ClockSize - 1
Numbers == {Uint(n) : n \in Counts}

\* The frames of the sketch, of Redis' messages, and what noise makes of them.
Frames ==
  {Frame("sub", Pattern, Null), NoFrame, Frame("short", << >>, Null)}
  \cup {Frame("pub", t, u) : t \in {Loopback, Latency}, u \in Numbers}

Lines == {Line(f, s) : f \in Frames, s \in Nat \cup {Unknown}}

\* A line that carries a time is the loopback of that time, of a sketch that started
\* at b.
Truthful(l, b) ==
  l.since # Unknown => l.frame = Frame("pub", Loopback, Uint((l.since - b) % ClockSize))

LinesOK(q, b) == q \in Seq(Lines) /\ \A i \in 1 .. Len(q) : Truthful(q[i], b)

LEMMA ClockType ==
  /\ ClockSize \in Nat \ {0} /\ SubPeriod \in Nat \ {0} /\ PubPeriod \in Nat \ {0}
  /\ Blink \in Nat \ {0} /\ MaxLines \in Nat \ {0}
  /\ MaxTime \in Nat /\ MaxNoise \in Nat /\ MaxRestarts \in Nat
  /\ Blink < PubPeriod /\ PubPeriod < SubPeriod
  /\ Int64Limit \in Nat \ {0} /\ ClockSize <= Int64Limit
BY SerialPubSubAssumption, FlowsAssumption

LEMMA LineParts ==
  ASSUME NEW l, l \in Lines
  PROVE  /\ l.frame \in Frames /\ l.since \in Nat \cup {Unknown}
         /\ l = Line(l.frame, l.since)
BY DEF Lines, Line

LEMMA LineMakes ==
  ASSUME NEW f \in Frames, NEW s \in Nat \cup {Unknown}
  PROVE  /\ Line(f, s) \in Lines
         /\ Line(f, s).frame = f /\ Line(f, s).since = s
<1>1. Line(f, s) \in Lines
  BY DEF Lines
<1>2. Line(f, s).frame = f /\ Line(f, s).since = s
  BY DEF Line
<1> QED BY <1>1, <1>2

LEMMA NumberFrame ==
  ASSUME NEW n \in Nat, n < ClockSize, NEW t \in {Loopback, Latency}
  PROVE  Frame("pub", t, Uint(n)) \in Frames
<1>1. n \in Counts
  BY ClockType DEF Counts
<1>2. Uint(n) \in Numbers
  BY <1>1 DEF Numbers
<1> QED BY <1>2 DEF Frames

\* A frame that publishes holds a number.
LEMMA PublishedNumber ==
  ASSUME NEW f, f \in Frames, f.cmd = "pub"
  PROVE  /\ f.value.v \in Nat /\ f.value.v < ClockSize
         /\ f = Frame("pub", f.topic, f.value)
<1>1. \E t \in {Loopback, Latency}, u \in Numbers : f = Frame("pub", t, u)
  BY DEF Frames, Frame, NoFrame
<1>2. PICK t \in {Loopback, Latency}, u \in Numbers : f = Frame("pub", t, u)
  BY <1>1
<1>3. f.topic = t /\ f.value = u
  BY <1>2 DEF Frame
<1>4. u.v \in Counts
  BY DEF Numbers, Uint, Integer, Value
<1>5. u.v \in Nat /\ u.v < ClockSize
  BY <1>4, ClockType DEF Counts
<1> QED BY <1>2, <1>3, <1>5

\* A number of the sketch is within 64 bits.
LEMMA NumberParsed ==
  ASSUME NEW f, f \in Frames, f.cmd = "pub"
  PROVE  Parsed(Text(f.value)) = f.value
<1>1. PICK t \in {Loopback, Latency}, u \in Numbers : f = Frame("pub", t, u)
  BY DEF Frames, Frame, NoFrame
<1>2. f.value = u
  BY <1>1 DEF Frame
<1>3. PICK n \in Counts : u = [type |-> "integer", v |-> n]
  BY DEF Numbers, Uint, Integer, Value
<1>4. u.type = "integer" /\ u.v = n
  BY <1>3
<1>5. n \in -Int64Limit .. 2 * Int64Limit - 1
  BY ClockType DEF Counts
<1>6. InMemory(u) = u
  BY <1>4, <1>5 DEF InMemory
<1>7. Parsed(Text(u)) = InMemory(Text(u).json)
  BY <1>4 DEF Parsed, Each, Text
<1>8. Text(u).json = u
  BY DEF Text
<1> QED BY <1>2, <1>6, <1>7, <1>8

-----------------------------------------------------------------------------
(* The queues of lines.                                                    *)

LEMMA SentOK ==
  ASSUME NEW b, NEW q, LinesOK(q, b), Len(q) <= MaxLines,
         NEW l \in Lines, Truthful(l, b),
         NEW r \in Sent(q, l)
  PROVE  LinesOK(r, b) /\ Len(r) <= MaxLines
<1>1. CASE r = q
  BY <1>1
<1>2. CASE r = Append(q, l) /\ Len(q) < MaxLines
  <2>1. /\ r \in Seq(Lines) /\ Len(r) = Len(q) + 1
        /\ \A i \in 1 .. Len(q) : r[i] = q[i]
        /\ r[Len(q) + 1] = l /\ Len(q) \in Nat
    BY <1>2, AppendProperties, LenProperties DEF LinesOK
  <2>2. \A i \in 1 .. Len(r) : Truthful(r[i], b)
    BY <2>1 DEF LinesOK
  <2> QED BY <1>2, <2>1, <2>2, ClockType DEF LinesOK
<1> QED BY <1>1, <1>2 DEF Sent

LEMMA TailOK ==
  ASSUME NEW b, NEW q, LinesOK(q, b), Len(q) <= MaxLines, q # << >>
  PROVE  /\ LinesOK(Tail(q), b) /\ Len(Tail(q)) <= MaxLines
         /\ Head(q) \in Lines /\ Truthful(Head(q), b)
<1>1. /\ Tail(q) \in Seq(Lines) /\ Len(Tail(q)) = Len(q) - 1
      /\ \A i \in 1 .. Len(Tail(q)) : Tail(q)[i] = q[i + 1]
      /\ Head(q) = q[1] /\ Len(q) \in Nat /\ Len(q) > 0 /\ q[1] \in Lines
  BY HeadTailProperties, LenProperties, EmptySeq DEF LinesOK
<1>2. \A i \in 1 .. Len(Tail(q)) : i + 1 \in 1 .. Len(q)
  BY <1>1
<1>3. 1 \in 1 .. Len(q)
  BY <1>1
<1> QED BY <1>1, <1>2, <1>3, ClockType DEF LinesOK

\* After a reset no line carries a time.
LEMMA ForgottenOK ==
  ASSUME NEW q, q \in Seq(Lines), NEW n \in Nat, NEW k \in Nat, n + k <= Len(q),
         NEW r, r = [i \in 1 .. n |-> [q[i + k] EXCEPT !.since = Unknown]]
  PROVE  Len(r) = n /\ \A b : LinesOK(r, b)
<1>1. ASSUME NEW i \in 1 .. n
      PROVE  r[i] \in Lines /\ r[i].since = Unknown
  <2>1. i + k \in 1 .. Len(q)
    BY LenProperties
  <2>2. q[i + k] \in Lines
    BY <2>1, ElementOfSeq
  <2>3. PICK f \in Frames, s \in Nat \cup {Unknown} : q[i + k] = Line(f, s)
    BY <2>2 DEF Lines
  <2>4. [Line(f, s) EXCEPT !.since = Unknown] = Line(f, Unknown)
    BY DEF Line
  <2>5. r[i] = Line(f, Unknown)
    BY <2>3, <2>4
  <2>6. Line(f, Unknown) \in Lines /\ Line(f, Unknown).since = Unknown
    BY LineMakes
  <2> QED BY <2>5, <2>6
<1>2. r \in [1 .. n -> Lines]
  BY <1>1
<1>3. r \in Seq(Lines) /\ Len(r) = n
  BY <1>2
<1> QED BY <1>1, <1>3 DEF LinesOK, Truthful

-----------------------------------------------------------------------------
(* What gateway and Redis make of a line.                                  *)

LEMMA Published ==
  ASSUME NEW f, f \in Frames
  PROVE  LET request == ToRequest("crlf", f) IN
         /\ f.cmd = "pub" =>
              /\ request.topic = f.topic
              /\ ToFrame("crlf", Reply("pmessage", request.topic, request.text)) = f
         /\ request.cmd = "publish" => f.cmd = "pub"
<1>1. CASE f.cmd = "pub"
  <2> DEFINE reply == Reply("pmessage", f.topic, Text(f.value))
  <2>1. f = Frame("pub", f.topic, f.value)
    BY <1>1, PublishedNumber
  <2>2. Parsed(Text(f.value)) = f.value
    BY <1>1, NumberParsed
  <2>3. ToRequest("crlf", f) = Request("publish", f.topic, Text(f.value))
    BY <1>1, <2>2 DEF ToRequest, CrlfToRequest, Publish
  <2>4. reply.kind = "pmessage" /\ reply.topic = f.topic /\ reply.text = Text(f.value)
    BY DEF Reply
  <2> HIDE DEF reply
  <2>5. ToFrame("crlf", reply) = Frame("pub", f.topic, f.value)
    BY <2>2, <2>4 DEF ToFrame, ResponseToCrlf
  <2> QED BY <1>1, <2>1, <2>3, <2>5 DEF Request, reply
<1>2. CASE f.cmd # "pub"
  <2>1. ToRequest("crlf", f) = SubOrLog(f)
    BY <1>2 DEF ToRequest, CrlfToRequest
  <2>2. SubOrLog(f).cmd # "publish"
    BY DEF SubOrLog, Request, NoRequest
  <2> QED BY <1>2, <2>1, <2>2
<1> QED BY <1>1, <1>2

-----------------------------------------------------------------------------
(* The times of the sketch.                                                *)

\* A time of the sketch is d milliseconds after something was last done, and has not
\* been missed: it is noticed in the first turn of loop() that may notice it.
Due(next, last, d) ==
  /\ next = ((last - boot) + d) % ClockSize
  /\ Missable(next) \/ now - last <= IF looped THEN d ELSE d + 1

SubDue == \E d \in {0, SubPeriod + Blink} : Due(nextSub, lastSub, d)
PubDue == \E d \in {0, PubPeriod} : Due(nextPub, lastPub, d)

\* A turn of loop() at time t that finds nothing to do, though it blinked.
LEMMA NothingDue ==
  ASSUME NEW b \in Int, NEW last \in Int, NEW t \in Int, NEW d \in Nat, NEW next \in Int,
         next = ((last - b) + d) % ClockSize, ~Missable(next),
         t - last <= d + 1 + Blink, ~((t - b) % ClockSize > next)
  PROVE  t - last <= d
<1> SUFFICES ASSUME t - last > d PROVE FALSE
  OBVIOUS
<1> DEFINE k == (t - last) - d
           a == (last - b) + d
<1>1. k \in Nat /\ k > 0 /\ k <= 1 + Blink /\ a \in Int /\ a + k = t - b
  BY ClockType
<1>2. next = a % ClockSize
  OBVIOUS
<1> HIDE DEF k, a
<1>3. next + k < ClockSize
  BY <1>1, ClockType DEF Missable
<1>4. (a + k) % ClockSize = next + k
  <2>1. ClockSize \in Nat \ {0} /\ a \in Int /\ k \in Nat /\ (a % ClockSize) + k < ClockSize
    BY <1>1, <1>2, <1>3, ClockType
  <2> QED BY <2>1, <1>2, NoWrap
<1> QED BY <1>1, <1>4

\* A time that is set at t lies d milliseconds ahead.
LEMMA SetAhead ==
  ASSUME NEW b \in Int, NEW t \in Int, NEW d \in Int
  PROVE  /\ (((t - b) % ClockSize) + d) % ClockSize = ((t - b) + d) % ClockSize
         /\ (((t - b) % ClockSize) + d) % ClockSize \in Nat
         /\ (((t - b) % ClockSize) + d) % ClockSize < ClockSize
         /\ (t - b) % ClockSize \in Nat /\ (t - b) % ClockSize < ClockSize
<1>1. t - b \in Int
  OBVIOUS
<1>2. (((t - b) % ClockSize) + d) % ClockSize = ((t - b) + d) % ClockSize
  BY <1>1, ClockType, ReducedSum
<1>3. (t - b) % ClockSize \in 0 .. ClockSize - 1
  BY <1>1, ClockType, DivRange
<1>4. ((t - b) % ClockSize) + d \in Int
  BY <1>3, ClockType
<1>5. (((t - b) % ClockSize) + d) % ClockSize \in 0 .. ClockSize - 1
  BY <1>4, ClockType, DivRange
<1> QED BY <1>2, <1>3, <1>5, ClockType

-----------------------------------------------------------------------------
(* The inductive invariant.                                                *)

\* loop() runs late only by its blinking.
InTime == ~looped => now <= MaxTime \/ (boot = now /\ nextSub = 0)

Truth ==
  /\ LinesOK(up, boot) /\ LinesOK(down, boot)
  /\ latency.true \in Int /\ LatencyExact

PubSubInv == PubSubTypeOK /\ InTime /\ Truth /\ SubDue /\ PubDue

LEMMA Numeric ==
  ASSUME PubSubTypeOK
  PROVE  /\ now \in Nat /\ boot \in Nat /\ boot <= now /\ now <= MaxTime + Blink
         /\ nextSub \in Nat /\ nextPub \in Nat
         /\ lastSub \in Nat /\ lastPub \in Nat /\ lastSub <= now /\ lastPub <= now
BY ClockType DEF PubSubTypeOK

LEMMA PubSubStart == PubSubInit => PubSubInv
<1> SUFFICES ASSUME PubSubInit PROVE PubSubInv
  OBVIOUS
<1>1. 0 \in 0 .. ClockSize - 1 /\ 0 % ClockSize = 0
  BY ClockType, SmallRemainder
<1>2. PubSubTypeOK
  <2>1. Len(up) = 0 /\ Len(down) = 0
    BY DEF PubSubInit
  <2>2. latency.said \in 0 .. ClockSize - 1
    BY <1>1 DEF PubSubInit
  <2>3. now \in 0 .. MaxTime + Blink /\ boot \in 0 .. now /\ lastSub \in 0 .. now
        /\ lastPub \in 0 .. now /\ noise \in 0 .. MaxNoise /\ restarts \in 0 .. MaxRestarts
        /\ nextSub \in 0 .. ClockSize - 1 /\ nextPub \in 0 .. ClockSize - 1
    BY ClockType DEF PubSubInit
  <2>4. looped \in BOOLEAN /\ subscribed \in BOOLEAN
    BY DEF PubSubInit
  <2> QED BY <2>1, <2>2, <2>3, <2>4, ClockType DEF PubSubTypeOK
<1>3. InTime
  BY ClockType DEF PubSubInit, InTime
<1>4. Truth
  <2>1. ASSUME NEW q, q = << >> PROVE LinesOK(q, boot)
    <3>1. q \in Seq(Lines) /\ Len(q) = 0
      BY <2>1
    <3> QED BY <3>1 DEF LinesOK
  <2>2. latency.true = 0 /\ latency.said = 0
    BY DEF PubSubInit
  <2> QED BY <1>1, <2>1, <2>2 DEF PubSubInit, Truth, LatencyExact
<1>5. SubDue /\ PubDue
  <2>1. Due(nextSub, lastSub, 0) /\ Due(nextPub, lastPub, 0)
    BY <1>1 DEF PubSubInit, Due
  <2> QED BY <2>1 DEF SubDue, PubDue
<1> QED BY <1>2, <1>3, <1>4, <1>5 DEF PubSubInv

-----------------------------------------------------------------------------
(* A turn of loop().                                                       *)

Subscribes == millis(now) > nextSub
Later == IF Subscribes THEN now + Blink ELSE now
Publishes == millis(Later) > nextPub

LEMMA LoopDoes ==
  ASSUME PubSubInv, Loop
  PROVE  /\ ~looped /\ looped' = TRUE /\ boot' = boot /\ now' = Later
         /\ nextSub' = (IF Subscribes THEN NextSub(Later) ELSE nextSub)
         /\ lastSub' = (IF Subscribes THEN now ELSE lastSub)
         /\ nextPub' = (IF Publishes THEN NextPub(Later) ELSE nextPub)
         /\ lastPub' = (IF Publishes THEN Later ELSE lastPub)
         /\ Later \in Nat /\ now <= Later /\ Later <= now + Blink
         /\ Later <= MaxTime + Blink
<1>1. /\ ~looped /\ looped' = TRUE /\ boot' = boot /\ now' = Later
      /\ nextSub' = (IF Subscribes THEN NextSub(Later) ELSE nextSub)
      /\ lastSub' = (IF Subscribes THEN now ELSE lastSub)
      /\ nextPub' = (IF Publishes THEN NextPub(Later) ELSE nextPub)
      /\ lastPub' = (IF Publishes THEN Later ELSE lastPub)
  BY DEF Loop, Subscribes, Later, Publishes
<1>2. Later \in Nat /\ now <= Later /\ Later <= now + Blink
  BY Numeric, ClockType DEF PubSubInv, Later
<1>3. Subscribes => now <= MaxTime
  <2> SUFFICES ASSUME boot = now, nextSub = 0 PROVE ~Subscribes
    BY <1>1 DEF PubSubInv, InTime
  <2>1. 0 % ClockSize = 0
    BY ClockType, SmallRemainder
  <2>2. now - boot = 0
    BY Numeric DEF PubSubInv
  <2> QED BY <2>1, <2>2 DEF Subscribes, millis
<1>4. Later <= MaxTime + Blink
  BY <1>3, Numeric, ClockType DEF PubSubInv, Later
<1> QED BY <1>1, <1>2, <1>4

LEMMA LoopSubDue ==
  ASSUME PubSubInv, Loop
  PROVE  SubDue'
<1>1. /\ now \in Nat /\ boot \in Nat /\ lastSub \in Nat /\ nextSub \in Nat
      /\ Blink \in Nat /\ SubPeriod \in Nat
  BY Numeric, ClockType DEF PubSubInv
<1>2. CASE Subscribes
  <2>1. Later = now + Blink /\ lastSub' = now /\ now' = now + Blink /\ boot' = boot
        /\ looped' /\ nextSub' = NextSub(now + Blink)
    BY <1>2, LoopDoes DEF Later
  <2>2. nextSub' = (((now + Blink) - boot) + SubPeriod) % ClockSize
    <3>1. now + Blink \in Int /\ boot \in Int /\ SubPeriod \in Int
      BY <1>1
    <3> QED BY <2>1, <3>1, SetAhead DEF NextSub, millis
  <2>3. ((now + Blink) - boot) + SubPeriod = (now - boot) + (SubPeriod + Blink)
    BY <1>1
  <2>4. now' - lastSub' <= SubPeriod + Blink
    BY <1>1, <2>1
  <2>5. Due(nextSub, lastSub, SubPeriod + Blink)'
    BY <2>1, <2>2, <2>3, <2>4 DEF Due
  <2> QED BY <2>5 DEF SubDue
<1>3. CASE ~Subscribes
  <2>1. UNCHANGED <<now, boot, nextSub, lastSub>> /\ ~looped /\ looped'
    BY <1>3, LoopDoes DEF Later
  <2>2. PICK d \in {0, SubPeriod + Blink} : Due(nextSub, lastSub, d)
    BY DEF PubSubInv, SubDue
  <2>3. /\ nextSub = ((lastSub - boot) + d) % ClockSize
        /\ Missable(nextSub) \/ now - lastSub <= d + 1
    BY <2>1, <2>2 DEF Due
  <2>4. d \in Nat /\ now \in Int /\ boot \in Int /\ lastSub \in Int /\ nextSub \in Int
    BY <1>1
  <2>5. ~((now - boot) % ClockSize > nextSub)
    BY <1>3 DEF Subscribes, millis
  <2>6. ~Missable(nextSub) => now - lastSub <= d
    <3> SUFFICES ASSUME ~Missable(nextSub) PROVE now - lastSub <= d
      OBVIOUS
    <3>1. now - lastSub <= d + 1 + Blink
      BY <1>1, <2>3, <2>4
    <3> QED BY <2>3, <2>4, <2>5, <3>1, NothingDue
  <2>7. Due(nextSub, lastSub, d)'
    BY <2>1, <2>3, <2>6 DEF Due, Missable
  <2> QED BY <2>7 DEF SubDue
<1> QED BY <1>2, <1>3

LEMMA LoopPubDue ==
  ASSUME PubSubInv, Loop
  PROVE  PubDue'
<1>1. /\ now \in Nat /\ boot \in Nat /\ lastPub \in Nat /\ nextPub \in Nat
      /\ Blink \in Nat /\ PubPeriod \in Nat /\ Later \in Nat /\ Later <= now + Blink
      /\ now' = Later /\ boot' = boot /\ ~looped /\ looped'
  BY Numeric, ClockType, LoopDoes DEF PubSubInv
<1>2. CASE Publishes
  <2>1. lastPub' = Later /\ nextPub' = NextPub(Later)
    BY <1>2, LoopDoes
  <2>2. nextPub' = ((Later - boot) + PubPeriod) % ClockSize
    <3>1. Later \in Int /\ boot \in Int /\ PubPeriod \in Int
      BY <1>1
    <3> QED BY <2>1, <3>1, SetAhead DEF NextPub, millis
  <2>3. now' - lastPub' <= PubPeriod
    BY <1>1, <2>1
  <2>4. Due(nextPub, lastPub, PubPeriod)'
    BY <1>1, <2>1, <2>2, <2>3 DEF Due
  <2> QED BY <2>4 DEF PubDue
<1>3. CASE ~Publishes
  <2>1. UNCHANGED <<nextPub, lastPub>>
    BY <1>3, LoopDoes
  <2>2. PICK d \in {0, PubPeriod} : Due(nextPub, lastPub, d)
    BY DEF PubSubInv, PubDue
  <2>3. /\ nextPub = ((lastPub - boot) + d) % ClockSize
        /\ Missable(nextPub) \/ now - lastPub <= d + 1
    BY <1>1, <2>2 DEF Due
  <2>4. d \in Nat /\ Later \in Int /\ boot \in Int /\ lastPub \in Int /\ nextPub \in Int
    BY <1>1
  <2>5. ~((Later - boot) % ClockSize > nextPub)
    BY <1>3 DEF Publishes, millis
  <2>6. ~Missable(nextPub) => Later - lastPub <= d
    <3> SUFFICES ASSUME ~Missable(nextPub) PROVE Later - lastPub <= d
      OBVIOUS
    <3>1. Later - lastPub <= d + 1 + Blink
      BY <1>1, <2>3, <2>4
    <3> QED BY <2>3, <2>4, <2>5, <3>1, NothingDue
  <2>7. Due(nextPub, lastPub, d)'
    BY <1>1, <2>1, <2>3, <2>6 DEF Due, Missable
  <2> QED BY <2>7 DEF PubDue
<1> QED BY <1>2, <1>3

LEMMA LoopLines ==
  ASSUME PubSubInv, Loop
  PROVE  LinesOK(up', boot) /\ Len(up') <= MaxLines
<1> DEFINE subLine == Line(Frame("sub", Pattern, Null), Unknown)
           pubLine == Line(Frame("pub", Loopback, Uint(millis(Later))), Later)
<1>1. subLine \in Lines /\ Truthful(subLine, boot)
  <2>1. Frame("sub", Pattern, Null) \in Frames
    BY DEF Frames
  <2> QED BY <2>1, LineMakes DEF Truthful
<1>2. pubLine \in Lines /\ Truthful(pubLine, boot)
  <2>1. Later \in Int /\ boot \in Int /\ 0 \in Int
    BY Numeric, LoopDoes DEF PubSubInv
  <2>2. millis(Later) \in Nat /\ millis(Later) < ClockSize
    BY <2>1, SetAhead DEF millis
  <2>3. Frame("pub", Loopback, Uint(millis(Later))) \in Frames
    BY <2>2, NumberFrame
  <2>4. Later \in Nat \cup {Unknown}
    BY LoopDoes
  <2> QED BY <2>3, <2>4, LineMakes DEF Truthful, millis
<1>3. LinesOK(up, boot) /\ Len(up) <= MaxLines
  BY DEF PubSubInv, Truth, PubSubTypeOK
<1>4. \E q \in IF Subscribes THEN Sent(up, subLine) ELSE {up} :
        up' \in IF Publishes THEN Sent(q, pubLine) ELSE {q}
  BY DEF Loop, Subscribes, Later, Publishes
<1> HIDE DEF subLine, pubLine
<1>5. PICK q \in IF Subscribes THEN Sent(up, subLine) ELSE {up} :
        up' \in IF Publishes THEN Sent(q, pubLine) ELSE {q}
  BY <1>4
<1>6. LinesOK(q, boot) /\ Len(q) <= MaxLines
  BY <1>1, <1>3, SentOK
<1> QED BY <1>2, <1>5, <1>6, SentOK

LEMMA LoopStep ==
  ASSUME PubSubInv, Loop
  PROVE  PubSubInv'
<1>1. /\ now' = Later /\ boot' = boot /\ looped' = TRUE
      /\ UNCHANGED <<down, subscribed, latency, noise, restarts>>
  BY LoopDoes DEF Loop
<1>2. /\ now' \in 0 .. MaxTime + Blink /\ boot' \in 0 .. now'
      /\ lastSub' \in 0 .. now' /\ lastPub' \in 0 .. now'
  BY <1>1, LoopDoes, Numeric, ClockType DEF PubSubInv
<1>3. nextSub' \in 0 .. ClockSize - 1 /\ nextPub' \in 0 .. ClockSize - 1
  <2>1. Later \in Int /\ boot \in Int /\ SubPeriod \in Int /\ PubPeriod \in Int
    BY LoopDoes, Numeric, ClockType DEF PubSubInv
  <2>2. NextSub(Later) \in Nat /\ NextSub(Later) < ClockSize
    BY <2>1, SetAhead DEF NextSub, millis
  <2>3. NextPub(Later) \in Nat /\ NextPub(Later) < ClockSize
    BY <2>1, SetAhead DEF NextPub, millis
  <2>4. nextSub \in 0 .. ClockSize - 1 /\ nextPub \in 0 .. ClockSize - 1
    BY DEF PubSubInv, PubSubTypeOK
  <2>5. NextSub(Later) \in 0 .. ClockSize - 1 /\ NextPub(Later) \in 0 .. ClockSize - 1
    BY <2>2, <2>3, ClockType
  <2> QED BY <2>4, <2>5, LoopDoes
<1>4. PubSubTypeOK'
  BY <1>1, <1>2, <1>3, LoopLines DEF PubSubInv, PubSubTypeOK
<1>5. InTime'
  BY <1>1 DEF InTime
<1>6. Truth'
  BY <1>1, LoopLines DEF PubSubInv, Truth, LatencyExact
<1> QED BY <1>4, <1>5, <1>6, LoopSubDue, LoopPubDue DEF PubSubInv

-----------------------------------------------------------------------------
(* The other steps.                                                        *)

\* What does not concern the times of the sketch.
LEMMA SketchRests ==
  ASSUME PubSubInv, UNCHANGED <<now, sketch>>
  PROVE  /\ UNCHANGED <<now, boot, looped, nextSub, nextPub, lastSub, lastPub>>
         /\ InTime' /\ SubDue' /\ PubDue'
<1>1. UNCHANGED <<now, boot, looped, nextSub, nextPub, lastSub, lastPub>>
  BY DEF sketch
<1>2. InTime'
  BY <1>1 DEF PubSubInv, InTime
<1>3. SubDue' /\ PubDue'
  BY <1>1 DEF PubSubInv, SubDue, PubDue, Due
<1> QED BY <1>1, <1>2, <1>3

\* The difference of two times of the clock is the time between them, modulo 2^32.
LEMMA Difference ==
  ASSUME NEW b \in Int, NEW t \in Int, NEW s \in Int
  PROVE  LatencyOf((t - b) % ClockSize, (s - b) % ClockSize) = (t - s) % ClockSize
<1> DEFINE r == (s - b) % ClockSize
<1>1. t - b \in Int /\ s - b \in Int
  OBVIOUS
<1>2. r \in Int
  BY <1>1, ClockType, DivRange
<1> HIDE DEF r
<1>3. (((t - b) % ClockSize) - r) % ClockSize = ((t - b) - r) % ClockSize
  BY <1>1, <1>2, ClockType, ReducedSum, ZenonT(30)
<1>4. ((t - b) - ((s - b) % ClockSize)) % ClockSize = ((t - b) - (s - b)) % ClockSize
  BY <1>1, ClockType, ReducedSum
<1>5. (t - b) - (s - b) = t - s
  OBVIOUS
<1> QED BY <1>3, <1>4, <1>5 DEF LatencyOf, r

LEMMA HandleLineStep ==
  ASSUME PubSubInv, HandleLine
  PROVE  PubSubInv'
<1> DEFINE l == Head(down)
           ms == millis(now)
           took == LatencyOf(ms, l.frame.value.v)
<1>1. /\ down # << >> /\ down' = Tail(down)
      /\ UNCHANGED <<now, sketch, subscribed, noise, restarts>>
  BY DEF HandleLine
<1>2. /\ UNCHANGED <<now, boot, looped, nextSub, nextPub, lastSub, lastPub>>
      /\ InTime' /\ SubDue' /\ PubDue'
  BY <1>1, SketchRests
<1>3. /\ LinesOK(up, boot) /\ LinesOK(down, boot) /\ latency.true \in Int /\ LatencyExact
      /\ Len(up) <= MaxLines /\ Len(down) <= MaxLines /\ latency.said \in 0 .. ClockSize - 1
      /\ now \in Nat /\ boot \in Nat
  BY Numeric DEF PubSubInv, Truth, PubSubTypeOK
<1>4. /\ LinesOK(down', boot) /\ Len(down') <= MaxLines
      /\ l \in Lines /\ Truthful(l, boot)
  BY <1>1, <1>3, TailOK
<1>5. CASE l.frame.cmd = "pub" /\ l.frame.topic = Loopback
  <2>1. up' \in Sent(up, Line(Frame("pub", Latency, Uint(took)), Unknown))
        /\ latency' = [said |-> took,
                       true |-> IF l.since = Unknown THEN took ELSE now - l.since]
    BY <1>5 DEF HandleLine
  <2>2. l.frame.value.v \in Nat /\ l.since \in Nat \cup {Unknown}
    BY <1>4, <1>5, LineParts, PublishedNumber
  <2>3. took \in 0 .. ClockSize - 1
    <3>1. ms \in Int
      <4>1. now - boot \in Int
        BY <1>3
      <4>2. (now - boot) % ClockSize \in 0 .. ClockSize - 1
        BY <4>1, ClockType, DivRange
      <4> QED BY <4>2, ClockType DEF millis
    <3>2. ms - l.frame.value.v \in Int
      BY <2>2, <3>1
    <3> QED BY <3>2, ClockType, DivRange DEF LatencyOf
  <2>4. took \in Nat /\ took < ClockSize /\ took % ClockSize = took
    BY <2>3, ClockType, SmallRemainder
  <2>5. LinesOK(up', boot) /\ Len(up') <= MaxLines
    <3>1. Frame("pub", Latency, Uint(took)) \in Frames
      BY <2>4, NumberFrame
    <3> DEFINE answer == Line(Frame("pub", Latency, Uint(took)), Unknown)
    <3>2. answer \in Lines /\ Truthful(answer, boot)
      BY <3>1, LineMakes DEF Truthful
    <3>3. up' \in Sent(up, answer)
      BY <2>1
    <3> HIDE DEF answer
    <3> QED BY <3>2, <3>3, <1>3, SentOK
  <2>6. l.since # Unknown => took = (now - l.since) % ClockSize
    <3> SUFFICES ASSUME l.since # Unknown PROVE took = (now - l.since) % ClockSize
      OBVIOUS
    <3>1. l.since \in Nat /\ l.frame.value.v = (l.since - boot) % ClockSize
      BY <1>4, <2>2 DEF Truthful, Frame, Uint, Integer, Value
    <3>2. LatencyOf((now - boot) % ClockSize, (l.since - boot) % ClockSize)
            = (now - l.since) % ClockSize
      <4>1. now \in Int /\ boot \in Int /\ l.since \in Int
        BY <1>3, <3>1
      <4> HIDE DEF l
      <4> QED BY <4>1, Difference
    <3> QED BY <3>1, <3>2 DEF millis
  <2>7. latency'.true \in Int /\ latency'.said = latency'.true % ClockSize
        /\ latency'.said \in 0 .. ClockSize - 1
    <3>1. latency'.said = took
          /\ latency'.true = IF l.since = Unknown THEN took ELSE now - l.since
      BY <2>1
    <3> HIDE DEF l, took
    <3> QED BY <3>1, <1>3, <2>2, <2>3, <2>4, <2>6
  <2>8. PubSubTypeOK'
    BY <1>1, <1>2, <1>4, <2>5, <2>7 DEF PubSubInv, PubSubTypeOK
  <2>9. Truth'
    BY <1>2, <1>4, <2>5, <2>7 DEF Truth, LatencyExact
  <2> QED BY <1>2, <2>8, <2>9 DEF PubSubInv
<1>6. CASE ~(l.frame.cmd = "pub" /\ l.frame.topic = Loopback)
  <2>1. UNCHANGED <<up, latency>>
    BY <1>6 DEF HandleLine
  <2>2. PubSubTypeOK'
    BY <1>1, <1>2, <1>4, <2>1 DEF PubSubInv, PubSubTypeOK
  <2>3. Truth'
    BY <1>2, <1>3, <1>4, <2>1 DEF Truth, LatencyExact
  <2> QED BY <1>2, <2>2, <2>3 DEF PubSubInv
<1> QED BY <1>5, <1>6

LEMMA AllForgottenOK ==
  ASSUME NEW q, q \in Seq(Lines),
         NEW r, r = [i \in 1 .. Len(q) |-> [q[i] EXCEPT !.since = Unknown]]
  PROVE  Len(r) = Len(q) /\ \A b : LinesOK(r, b)
<1> DEFINE n == Len(q)
<1>1. n \in Nat /\ 0 \in Nat /\ n + 0 <= Len(q)
  BY LenProperties
<1>2. r = [i \in 1 .. n |-> [q[i + 0] EXCEPT !.since = Unknown]]
  BY <1>1
<1> HIDE DEF n
<1>3. Len(r) = n /\ \A b : LinesOK(r, b)
  BY <1>1, <1>2, ForgottenOK
<1> QED BY <1>3 DEF n

\* A reset of the sketch, for whatever reason.
LEMMA RestartedStep ==
  ASSUME PubSubInv, Restarted, restarts' \in 0 .. MaxRestarts,
         LinesOK(down', now), Len(down') <= MaxLines
  PROVE  PubSubInv'
<1>1. /\ boot' = now /\ looped' = FALSE /\ nextSub' = 0 /\ nextPub' = 0
      /\ lastSub' = now /\ lastPub' = now
      /\ up' = [i \in 1 .. Len(up) |-> [up[i] EXCEPT !.since = Unknown]]
      /\ UNCHANGED <<now, subscribed, latency, noise>>
  BY DEF Restarted
<1>2. now \in Nat /\ now - now = 0 /\ 0 % ClockSize = 0 /\ 0 \in 0 .. ClockSize - 1
  BY Numeric, ClockType, SmallRemainder DEF PubSubInv
<1>3. LinesOK(up', now) /\ Len(up') <= MaxLines
  <2>1. up \in Seq(Lines) /\ Len(up) \in Nat /\ Len(up) <= MaxLines
    BY LenProperties DEF PubSubInv, Truth, LinesOK, PubSubTypeOK
  <2>2. Len(up') = Len(up) /\ \A b : LinesOK(up', b)
    BY <1>1, <2>1, AllForgottenOK
  <2> QED BY <2>1, <2>2
<1>4. PubSubTypeOK'
  <2>1. looped' \in BOOLEAN
    BY <1>1
  <2> QED BY <1>1, <1>2, <1>3, <2>1 DEF PubSubInv, PubSubTypeOK
<1>5. InTime'
  BY <1>1 DEF InTime
<1>6. Truth'
  BY <1>1, <1>3 DEF PubSubInv, Truth, LatencyExact
<1>7. Due(nextSub, lastSub, 0)' /\ Due(nextPub, lastPub, 0)'
  BY <1>1, <1>2 DEF Due
<1>8. SubDue' /\ PubDue'
  BY <1>7 DEF SubDue, PubDue
<1> QED BY <1>4, <1>5, <1>6, <1>8 DEF PubSubInv

LEMMA ResetSteps ==
  ASSUME PubSubInv, HandleShortLine \/ Reset
  PROVE  PubSubInv'
<1>1. /\ down \in Seq(Lines) /\ Len(down) \in Nat /\ Len(down) <= MaxLines
      /\ restarts \in 0 .. MaxRestarts
  BY LenProperties DEF PubSubInv, Truth, LinesOK, PubSubTypeOK
<1>2. CASE HandleShortLine
  <2>1. /\ Restarted /\ restarts' = restarts
        /\ Len(down) - 1 \in Nat /\ 1 \in Nat /\ (Len(down) - 1) + 1 <= Len(down)
    <3>1. Len(down) # 0
      BY <1>1, <1>2, EmptySeq DEF HandleShortLine
    <3> QED BY <1>1, <1>2, <3>1 DEF HandleShortLine
  <2>2. down' = [i \in 1 .. Len(down) - 1 |-> [down[i + 1] EXCEPT !.since = Unknown]]
    BY <1>2 DEF HandleShortLine
  <2>3. Len(down') = Len(down) - 1 /\ \A b : LinesOK(down', b)
    BY <1>1, <2>1, <2>2, ForgottenOK
  <2>4. Len(down') <= MaxLines
    BY <1>1, <2>3, ClockType
  <2> QED BY <1>1, <2>1, <2>3, <2>4, RestartedStep
<1>3. CASE Reset
  <2>1. Restarted /\ restarts' \in 0 .. MaxRestarts
    BY <1>1, <1>3, ClockType DEF Reset
  <2>2. down' = [i \in 1 .. Len(down) |-> [down[i] EXCEPT !.since = Unknown]]
    BY <1>3 DEF Reset
  <2>3. Len(down') = Len(down) /\ \A b : LinesOK(down', b)
    BY <1>1, <2>2, AllForgottenOK
  <2> QED BY <1>1, <2>1, <2>3, RestartedStep
<1> QED BY <1>2, <1>3

\* The gateway takes a line, and what Redis sends back holds what was published.
LEMMA ServesStep ==
  ASSUME PubSubInv, GatewayServes
  PROVE  PubSubInv'
<1> DEFINE l == Head(up)
           request == ToRequest("crlf", l.frame)
           answer == ToFrame("crlf", Reply("pmessage", request.topic, request.text))
<1>1. /\ up # << >> /\ up' = Tail(up) /\ subscribed' \in BOOLEAN
      /\ UNCHANGED <<now, sketch, latency, noise, restarts>>
      /\ \/ UNCHANGED down
         \/ request.cmd = "publish" /\ down' \in Sent(down, Line(answer, l.since))
  BY DEF GatewayServes, PubSubInv, PubSubTypeOK, Sent
<1>2. /\ UNCHANGED <<now, boot, looped, nextSub, nextPub, lastSub, lastPub>>
      /\ InTime' /\ SubDue' /\ PubDue'
  BY <1>1, SketchRests
<1>3. /\ LinesOK(up, boot) /\ LinesOK(down, boot) /\ latency.true \in Int /\ LatencyExact
      /\ Len(up) <= MaxLines /\ Len(down) <= MaxLines
  BY DEF PubSubInv, Truth, PubSubTypeOK
<1>4. /\ LinesOK(up', boot) /\ Len(up') <= MaxLines
      /\ l \in Lines /\ Truthful(l, boot)
  BY <1>1, <1>3, TailOK
<1>5. l.frame \in Frames /\ l = Line(l.frame, l.since)
  BY <1>4, LineParts
<1>6. request.cmd = "publish" => Line(answer, l.since) = l
  <2> SUFFICES ASSUME request.cmd = "publish" PROVE answer = l.frame
    BY <1>5
  <2> DEFINE f == l.frame
  <2> HIDE DEF l
  <2>1. f \in Frames
    BY <1>5
  <2> HIDE DEF f
  <2>2. LET r == ToRequest("crlf", f) IN
        r.cmd = "publish" => ToFrame("crlf", Reply("pmessage", r.topic, r.text)) = f
    BY <2>1, Published
  <2> QED BY <2>2 DEF f
<1>7. LinesOK(down', boot) /\ Len(down') <= MaxLines
  <2>1. CASE UNCHANGED down
    BY <1>3, <2>1
  <2>2. CASE request.cmd = "publish" /\ down' \in Sent(down, l)
    <3> HIDE DEF l, request
    <3> QED BY <1>3, <1>4, <2>2, SentOK
  <2> QED BY <1>1, <1>6, <2>1, <2>2
<1>8. PubSubTypeOK'
  BY <1>1, <1>2, <1>4, <1>7 DEF PubSubInv, PubSubTypeOK
<1>9. Truth'
  BY <1>1, <1>2, <1>3, <1>4, <1>7 DEF Truth, LatencyExact
<1> QED BY <1>2, <1>8, <1>9 DEF PubSubInv

LEMMA GatewayRestartsStep ==
  ASSUME PubSubInv, GatewayRestarts
  PROVE  PubSubInv'
<1>1. /\ up' = << >> /\ subscribed' = FALSE /\ restarts' = restarts + 1
      /\ restarts < MaxRestarts
      /\ UNCHANGED <<now, sketch, down, latency, noise>>
  BY DEF GatewayRestarts
<1>2. /\ UNCHANGED <<now, boot, looped, nextSub, nextPub, lastSub, lastPub>>
      /\ InTime' /\ SubDue' /\ PubDue'
  BY <1>1, SketchRests
<1>3. LinesOK(up', boot) /\ Len(up') <= MaxLines
  <2>1. up' \in Seq(Lines) /\ Len(up') = 0
    BY <1>1
  <2> QED BY <2>1, ClockType DEF LinesOK
<1>4. PubSubTypeOK'
  <2>1. restarts' \in 0 .. MaxRestarts
    BY <1>1, ClockType DEF PubSubInv, PubSubTypeOK
  <2> QED BY <1>1, <1>2, <1>3, <2>1 DEF PubSubInv, PubSubTypeOK
<1>5. Truth'
  BY <1>1, <1>2, <1>3 DEF PubSubInv, Truth, LatencyExact
<1> QED BY <1>2, <1>4, <1>5 DEF PubSubInv

\* What noise makes of a line carries no time.
LEMMA NoiseStep ==
  ASSUME PubSubInv, Noise
  PROVE  PubSubInv'
<1>1. /\ down # << >> /\ noise < MaxNoise /\ noise' = noise + 1
      /\ UNCHANGED <<now, sketch, up, subscribed, latency, restarts>>
  BY DEF Noise
<1>2. /\ UNCHANGED <<now, boot, looped, nextSub, nextPub, lastSub, lastPub>>
      /\ InTime' /\ SubDue' /\ PubDue'
  BY <1>1, SketchRests
<1>3. LinesOK(down, boot) /\ Len(down) <= MaxLines /\ Len(down) \in Nat /\ Len(down) # 0
  BY <1>1, LenProperties, EmptySeq DEF PubSubInv, Truth, PubSubTypeOK, LinesOK
<1>4. PICK f \in Frames : down' = <<Line(f, Unknown)>> \o Tail(down)
  <2>1. Frame("pub", Loopback, Uint(0)) \in Frames
    BY NumberFrame, ClockType
  <2>2. NoFrame \in Frames /\ Frame("short", << >>, Null) \in Frames
    BY DEF Frames
  <2> QED BY <2>1, <2>2 DEF Noise
<1> DEFINE l == Line(f, Unknown)
           t == Tail(down)
           one == <<l>>
<1>5. l \in Lines /\ Truthful(l, boot)
  BY LineMakes DEF Truthful
<1>6. LinesOK(t, boot) /\ t \in Seq(Lines) /\ Len(t) \in Nat /\ Len(t) = Len(down) - 1
  BY <1>1, <1>3, TailOK, HeadTailProperties, LenProperties DEF LinesOK
<1>7. one \in Seq(Lines) /\ Len(one) = 1 /\ one[1] = l
  <2> HIDE DEF l
  <2> QED BY <1>5
<1> HIDE DEF l, t, one
<1>8. /\ down' \in Seq(Lines) /\ Len(down') = 1 + Len(t)
      /\ down'[1] = l /\ \A i \in 1 .. Len(t) : down'[1 + i] = t[i]
  <2>1. down' = one \o t
    BY <1>4 DEF l, t, one
  <2> DEFINE v == down'
  <2>2. one \in Seq(Lines) /\ t \in Seq(Lines) /\ v = one \o t
    BY <1>6, <1>7, <2>1
  <2> HIDE DEF v
  <2>3. /\ v \in Seq(Lines) /\ Len(v) = Len(one) + Len(t)
        /\ \A i \in 1 .. Len(one) : v[i] = one[i]
        /\ \A i \in 1 .. Len(t) : v[Len(one) + i] = t[i]
    BY <2>2, Joined
  <2> QED BY <1>7, <2>3 DEF v
<1>9. LinesOK(down', boot) /\ Len(down') <= MaxLines
  <2>1. ASSUME NEW i \in 1 .. Len(down')
        PROVE  Truthful(down'[i], boot)
    <3>1. CASE i = 1
      BY <1>5, <1>8, <3>1
    <3>2. CASE i # 1
      <4>1. i - 1 \in 1 .. Len(t) /\ i = 1 + (i - 1)
        BY <1>6, <1>8, <3>2
      <4>2. down'[i] = t[i - 1]
        BY <1>8, <4>1
      <4> QED BY <1>6, <4>1, <4>2 DEF LinesOK
    <3> QED BY <3>1, <3>2
  <2> QED BY <2>1, <1>3, <1>6, <1>8 DEF LinesOK
<1>10. PubSubTypeOK'
  <2>1. noise' \in 0 .. MaxNoise
    BY <1>1, ClockType DEF PubSubInv, PubSubTypeOK
  <2> QED BY <1>1, <1>2, <1>9, <2>1 DEF PubSubInv, PubSubTypeOK
<1>11. Truth'
  BY <1>1, <1>2, <1>9 DEF PubSubInv, Truth, LatencyExact
<1> QED BY <1>2, <1>10, <1>11 DEF PubSubInv

LEMMA TickStep ==
  ASSUME PubSubInv, Tick
  PROVE  PubSubInv'
<1>1. /\ looped /\ now < MaxTime /\ now' = now + 1 /\ looped' = FALSE
      /\ UNCHANGED <<boot, nextSub, nextPub, lastSub, lastPub, up, down, subscribed,
                     latency, noise, restarts>>
  BY DEF Tick
<1>2. /\ now \in Nat /\ boot \in Nat /\ boot <= now /\ lastSub \in Nat /\ lastPub \in Nat
      /\ lastSub <= now /\ lastPub <= now
  BY Numeric DEF PubSubInv
<1>3. PubSubTypeOK'
  <2>1. /\ now' \in 0 .. MaxTime + Blink /\ boot' \in 0 .. now'
        /\ lastSub' \in 0 .. now' /\ lastPub' \in 0 .. now'
    BY <1>1, <1>2, ClockType
  <2>2. looped' \in BOOLEAN
    BY <1>1
  <2> QED BY <1>1, <2>1, <2>2 DEF PubSubInv, PubSubTypeOK
<1>4. InTime'
  BY <1>1, <1>2, ClockType DEF InTime
<1>5. Truth'
  BY <1>1 DEF PubSubInv, Truth, LatencyExact
<1>6. SubDue'
  <2>1. PICK d \in {0, SubPeriod + Blink} : Due(nextSub, lastSub, d)
    BY DEF PubSubInv, SubDue
  <2>2. Due(nextSub, lastSub, d)'
    BY <1>1, <1>2, <2>1, ClockType DEF Due, Missable
  <2> QED BY <2>2 DEF SubDue
<1>7. PubDue'
  <2>1. PICK d \in {0, PubPeriod} : Due(nextPub, lastPub, d)
    BY DEF PubSubInv, PubDue
  <2>2. Due(nextPub, lastPub, d)'
    BY <1>1, <1>2, <2>1, ClockType DEF Due, Missable
  <2> QED BY <2>2 DEF PubDue
<1> QED BY <1>3, <1>4, <1>5, <1>6, <1>7 DEF PubSubInv

LEMMA PubSubStep ==
  PubSubInv /\ [PubSubNext]_pubSubVars => PubSubInv'
<1> SUFFICES ASSUME PubSubInv, [PubSubNext]_pubSubVars PROVE PubSubInv'
  OBVIOUS
<1>1. CASE UNCHANGED pubSubVars
  BY <1>1
  DEF pubSubVars, sketch, PubSubInv, PubSubTypeOK, InTime, Truth, LatencyExact, SubDue,
      PubDue, Due
<1> QED
  BY <1>1, LoopStep, HandleLineStep, ResetSteps, ServesStep, GatewayRestartsStep,
     NoiseStep, TickStep
  DEF PubSubNext

-----------------------------------------------------------------------------
(* The theorems about the sketch.                                          *)

\* The inductive invariant: types, what the lines say, and when loop() acts next.
THEOREM PubSubInvariance == PubSubSpec => []PubSubInv
BY PubSubStart, PubSubStep, PTL DEF PubSubSpec

\* Every variable of the sketch keeps its type, and now and the lines their bounds.
THEOREM PubSubTypes == PubSubSpec => []PubSubTypeOK
<1>1. PubSubInv => PubSubTypeOK
  BY DEF PubSubInv
<1> QED BY <1>1, PubSubInvariance, PTL

\* A latency that handle_line publishes is how long the loopback took, modulo the size
\* of the clock, for any clock, any periods, any losses and any resets.
THEOREM LatenciesAreExact == PubSubSpec => []LatencyExact
<1>1. PubSubInv => LatencyExact
  BY DEF PubSubInv, Truth
<1> QED BY <1>1, PubSubInvariance, PTL

\* Unless its next time lies at the wrap-around of the clock, loop() subscribes and
\* publishes within a period, its blinking and a millisecond.
THEOREM SilenceIsBounded == PubSubSpec => []SilenceBounded
<1>1. PubSubInv => SilenceBounded
  <2> SUFFICES ASSUME PubSubInv PROVE SilenceBounded
    OBVIOUS
  <2>1. PICK d \in {0, SubPeriod + Blink} : Due(nextSub, lastSub, d)
    BY DEF PubSubInv, SubDue
  <2>2. PICK e \in {0, PubPeriod} : Due(nextPub, lastPub, e)
    BY DEF PubSubInv, PubDue
  <2>3. now \in Nat /\ lastSub \in Nat /\ lastPub \in Nat /\ looped \in BOOLEAN
    BY Numeric DEF PubSubInv, PubSubTypeOK
  <2>4. Missable(nextSub) \/ now - lastSub <= SubPeriod + Blink + 1
    BY <2>1, <2>3, ClockType DEF Due
  <2>5. Missable(nextPub) \/ now - lastPub <= PubPeriod + Blink + 1
    BY <2>2, <2>3, ClockType DEF Due
  <2> QED BY <2>4, <2>5 DEF SilenceBounded
<1> QED BY <1>1, PubSubInvariance, PTL

-----------------------------------------------------------------------------
(* What the conversions keep.                                              *)

\* Scalars are no objects.
Plain(value) ==
  /\ value.type \in CborTypes \ {"object"}
  /\ value.type = "integer" => value = Integer(value.v) /\ value.v \in Int

LEMMA PlainScalar ==
  ASSUME NEW format, NEW value, value \in Scalars(format)
  PROVE  Plain(value) /\ (format # "cbor" => value.type \in JsonTypes)
<1>1. CASE \E n \in Int : value = Integer(n)
  <2>1. PICK n \in Int : value = Integer(n)
    BY <1>1
  <2>2. value.type = "integer" /\ value.v = n
    BY <2>1 DEF Integer, Value
  <2> QED BY <2>1, <2>2 DEF Plain, CborTypes, JsonTypes
<1>2. CASE value = Null
  <2>1. value.type = "null"
    BY <1>2 DEF Null, Value
  <2> QED BY <2>1 DEF Plain, CborTypes, JsonTypes
<1>3. CASE \E t \in CborTypes \ {"integer", "null", "object"} :
             value = Value(t, "x") /\ (format # "cbor" => t \in JsonTypes)
  <2>1. PICK t \in CborTypes \ {"integer", "null", "object"} :
               value = Value(t, "x") /\ (format # "cbor" => t \in JsonTypes)
    BY <1>3
  <2>2. value.type = t
    BY <2>1 DEF Value
  <2> QED BY <2>1, <2>2 DEF Plain
<1>4. (-2) * Int64Limit .. 2 * Int64Limit - 1 \subseteq Int
  BY ClockType
<1>5. (-2) * Int64Limit .. 2 * Int64Limit \subseteq Int
  BY ClockType
<1>6. CASE format = "cbor"
  <2>1. Scalars(format) = {Integer(n) : n \in -2 * Int64Limit .. 2 * Int64Limit - 1}
          \cup Constant(CborTypes \ {"integer", "null", "object"})
    BY <1>6 DEF Scalars
  <2>2. \/ \E n \in Int : value = Integer(n)
        \/ value \in Constant(CborTypes \ {"integer", "null", "object"})
    BY <1>4, <2>1
  <2> QED BY <1>1, <1>2, <1>3, <1>6, <2>2 DEF Constant
<1>7. CASE format # "cbor"
  <2>1. Scalars(format) = {Integer(n) : n \in -2 * Int64Limit .. 2 * Int64Limit}
          \cup Constant(JsonTypes \ {"integer", "null", "object"})
    BY <1>7 DEF Scalars
  <2>2. \/ \E n \in Int : value = Integer(n)
        \/ value \in Constant(JsonTypes \ {"integer", "null", "object"})
    BY <1>5, <2>1
  <2>3. JsonTypes \subseteq CborTypes
    BY DEF CborTypes
  <2> QED BY <1>1, <1>2, <1>3, <2>2, <2>3 DEF Constant
<1> QED BY <1>6, <1>7

\* An integer that tinycbor prints exactly stays itself.
LEMMA PrintedExactly ==
  ASSUME NEW n \in Int, n \in -PrintedExact .. PrintedExact
  PROVE  Printed(n) = n
<1>1. PrintedExact \in Nat
  BY FlowsAssumption
<1>2. Rounded(PrintedExact, n) = n
  BY DEF Rounded
<1>3. CASE n >= 0
  BY <1>2, <1>3 DEF Printed
<1>4. CASE n < 0
  <2>1. -n - 1 \in -PrintedExact .. PrintedExact
    BY <1>1, <1>4
  <2>2. Rounded(PrintedExact, -n - 1) = -n - 1
    BY <2>1 DEF Rounded
  <2>3. -(-n - 1) - 1 = n
    OBVIOUS
  <2> QED BY <1>2, <1>4, <2>2, <2>3 DEF Printed
<1> QED BY <1>3, <1>4

LEMMA ItemKept ==
  ASSUME NEW item, Plain(item), item.type # "broken", PrintedAsIs(item)
  PROVE  ItemToJson(item) = item
<1>1. CASE item.type = "integer"
  <2>1. item.v \in Int /\ item = Integer(item.v) /\ Printed(item.v) = item.v
    BY <1>1, PrintedExactly DEF PrintedAsIs, Plain
  <2> QED BY <1>1, <2>1 DEF ItemToJson
<1>2. CASE item.type # "integer"
  <2>1. /\ item.type # "nan" /\ item.type # "bytes" /\ item.type # "undefined"
        /\ ~(item.type = "quoted" /\ ~TextsEscaped)
    BY DEF PrintedAsIs
  <2> QED BY <1>2, <2>1 DEF ItemToJson
<1> QED BY <1>1, <1>2

LEMMA MemoryKept ==
  ASSUME NEW value, Plain(value), ReadAsIs(value)
  PROVE  InMemory(value) = value /\ Parsed(Text(value)) = value
<1>1. InMemory(value) = value
  BY DEF InMemory, ReadAsIs
<1>2. Text(value).json = value /\ value.type # "object"
  BY DEF Text, Plain
<1>3. Parsed(Text(value)) = InMemory(value)
  BY <1>2 DEF Parsed, Each
<1> QED BY <1>1, <1>3

\* An object is read property by property.
LEMMA ObjectKept ==
  ASSUME NEW format, NEW value, value \in Objects(format),
         \A i \in DOMAIN value.v : ReadAsIs(value.v[i].value)
  PROVE  Parsed(Text(value)) = value
<1>1. PICK e \in SeqOf(Entries(format), 2) : value = Value("object", e)
  BY DEF Objects
<1>2. value.type = "object" /\ value.v = e
  BY <1>1 DEF Value
<1>3. PICK m \in 0 .. 2 : e \in [1 .. m -> Entries(format)]
  BY DEF SeqOf
<1>4. ASSUME NEW i \in DOMAIN e
      PROVE  [key |-> e[i].key, value |-> InMemory(e[i].value)] = e[i]
  <2>1. e[i] \in Entries(format)
    BY <1>3, <1>4
  <2>2. e[i].value \in Scalars(format) /\ e[i] = [key |-> e[i].key, value |-> e[i].value]
    BY <2>1 DEF Entries
  <2>3. ReadAsIs(e[i].value)
    BY <1>2, <1>4
  <2>4. InMemory(e[i].value) = e[i].value
    BY <2>2, <2>3, PlainScalar, MemoryKept
  <2> QED BY <2>2, <2>4
<1>5. [i \in DOMAIN e |-> [key |-> e[i].key, value |-> InMemory(e[i].value)]] = e
  <2>1. e = [i \in DOMAIN e |-> e[i]]
    BY <1>3
  <2> QED BY <1>4, <2>1
<1>6. Text(value).json = value
  BY DEF Text
<1>7. Parsed(Text(value))
        = Value("object", [i \in DOMAIN e |-> [key |-> e[i].key, value |-> InMemory(e[i].value)]])
  BY <1>2, <1>6 DEF Parsed, Each
<1> QED BY <1>1, <1>5, <1>7

-----------------------------------------------------------------------------
(* What a device publishes and another is shown.                           *)

\* The first type a value is asked for and is of.
LEMMA FirstHeld ==
  ASSUME NEW text, NEW value, value = Parsed(text),
         NEW k, k \in 1 .. 6, Is(Tests[k], value),
         \A i \in 1 .. 6 : i < k => ~Is(Tests[i], value)
  PROVE  CborValue(text) = As(Tests[k], value)
<1> DEFINE held == {i \in DOMAIN Tests : Is(Tests[i], value)}
<1>1. DOMAIN Tests = 1 .. 6
  BY DEF Tests
<1>2. k \in held /\ \A i \in held : k <= i
  BY <1>1
<1>3. held \subseteq Int
  BY <1>1
<1>4. CborValue(text) = IF held = {} THEN String(text) ELSE As(Tests[Min(held)], value)
  BY DEF CborValue
<1> HIDE DEF held
<1>5. Min(held) \in held /\ \A i \in held : Min(held) <= i
  BY <1>2 DEF Min
<1>6. Min(held) = k
  <2> DEFINE m == Min(held)
  <2>1. m \in Int /\ k \in Int /\ m <= k /\ k <= m
    BY <1>2, <1>3, <1>5
  <2> HIDE DEF m
  <2>2. m = k
    BY <2>1
  <2> QED BY <2>2 DEF m
<1> QED BY <1>2, <1>4, <1>6

\* The types of a CBOR device's value, one by one.
LEMMA TestsAre ==
  /\ Tests[1] = "string" /\ Tests[2] = "int64" /\ Tests[3] = "uint64"
  /\ Tests[4] = "float" /\ Tests[5] = "string" /\ Tests[6] = "bool"
BY DEF Tests

\* A value that was read is given as the type it is: an integer as a signed one if it can
\* be, as an unsigned one otherwise, and never as a float.
LEMMA ValueGiven ==
  ASSUME NEW value, Plain(value), ReadAsIs(value), value.type \in JsonTypes,
         value.type \notin {"null", "array"}
  PROVE  CborValue(Text(value)) = value
<1>1. value = Parsed(Text(value))
  BY MemoryKept
<1>2. Int64Limit \in Nat \ {0}
  BY ClockType
<1>3. value.type \in {"integer", "string", "quoted", "bool"}
  BY DEF Plain, ReadAsIs, JsonTypes
<1>4. CASE value.type \in {"string", "quoted"}
  <2>1. Is(Tests[1], value) /\ As(Tests[1], value) = value
    BY <1>4, TestsAre DEF Is, As
  <2>2. \A i \in 1 .. 6 : i < 1 => ~Is(Tests[i], value)
    OBVIOUS
  <2>3. 1 \in 1 .. 6
    OBVIOUS
  <2> QED BY <1>1, <2>1, <2>2, <2>3, FirstHeld
<1>5. CASE value.type = "integer"
  <2>1. value.v \in Int /\ value.v \in -Int64Limit .. 2 * Int64Limit - 1
    BY <1>5 DEF Plain, ReadAsIs
  <2>2. ~Is(Tests[1], value)
    BY <1>5, TestsAre DEF Is
  <2>3. CASE value.v < Int64Limit
    <3>1. value.v \in -Int64Limit .. Int64Limit - 1
      BY <1>2, <2>1, <2>3
    <3>2. Is(Tests[2], value) /\ As(Tests[2], value) = value
      BY <1>5, <3>1, TestsAre DEF Is, As
    <3>3. \A i \in 1 .. 6 : i < 2 => ~Is(Tests[i], value)
      BY <2>2
    <3>4. 2 \in 1 .. 6
      OBVIOUS
    <3> QED BY <1>1, <3>2, <3>3, <3>4, FirstHeld
  <2>4. CASE value.v >= Int64Limit
    <3>1. value.v \in 0 .. 2 * Int64Limit - 1 /\ value.v \notin -Int64Limit .. Int64Limit - 1
      BY <1>2, <2>1, <2>4
    <3>2. Is(Tests[3], value) /\ As(Tests[3], value) = value
      BY <1>5, <3>1, TestsAre DEF Is, As
    <3>3. ~Is(Tests[2], value)
      BY <1>5, <3>1, TestsAre DEF Is
    <3>4. \A i \in 1 .. 6 : i < 3 => ~Is(Tests[i], value)
      BY <2>2, <3>3
    <3>5. 3 \in 1 .. 6
      OBVIOUS
    <3> QED BY <1>1, <3>2, <3>4, <3>5, FirstHeld
  <2> QED BY <1>2, <2>1, <2>3, <2>4
<1>6. CASE value.type = "bool"
  <2>1. Is(Tests[6], value) /\ As(Tests[6], value) = value
    BY <1>6, TestsAre DEF Is, As
  <2>2. /\ ~Is(Tests[1], value) /\ ~Is(Tests[2], value) /\ ~Is(Tests[3], value)
        /\ ~Is(Tests[4], value) /\ ~Is(Tests[5], value)
    BY <1>6, TestsAre DEF Is
  <2>3. \A i \in 1 .. 6 : i < 6 => ~Is(Tests[i], value)
    BY <2>2
  <2>4. 6 \in 1 .. 6
    OBVIOUS
  <2> QED BY <1>1, <2>1, <2>3, <2>4, FirstHeld
<1> QED BY <1>3, <1>4, <1>5, <1>6

\* A device is shown the value of a message as far as its format can say it.
LEMMA Answered ==
  ASSUME NEW to, to \in Formats, NEW topic, NEW value,
         to = "crlf" => Parsed(Text(value)) = value,
         to = "cbor" => CborValue(Text(value)) = value
  PROVE  ToFrame(to, Reply("pmessage", topic, Text(value))) = Frame("pub", topic, value)
<1> DEFINE r == Reply("pmessage", topic, Text(value))
<1>1. r.kind = "pmessage" /\ r.topic = topic /\ r.text = Text(value)
  BY DEF Reply
<1>2. Text(value).json = value
  BY DEF Text
<1> HIDE DEF r
<1>3. to = "cbor" => ToFrame(to, r) = Frame("pub", topic, value)
  BY <1>1 DEF ToFrame, ResponseToCbor
<1>4. to = "crlf" => ToFrame(to, r) = Frame("pub", topic, value)
  BY <1>1 DEF ToFrame, ResponseToCrlf
<1>5. to = "json" => ToFrame(to, r) = Frame("pub", topic, value)
  BY <1>1, <1>2 DEF ToFrame, ResponseToJson
<1>6. ToFrame(to, r) = Frame("pub", topic, value)
  BY <1>3, <1>4, <1>5 DEF Formats
<1> QED BY <1>6 DEF r

\* A scalar that is read and asked for without a change is shown.
LEMMA ScalarAnswered ==
  ASSUME NEW from, NEW to, to \in Formats, NEW topic, NEW value, Plain(value),
         from # "json", value.type \in JsonTypes, KeptScalar(from, to, value)
  PROVE  ToFrame(to, Reply("pmessage", topic, Text(value))) = Frame("pub", topic, value)
<1>1. ReadAsIs(value) /\ (to = "cbor" => value.type \notin {"null", "array"})
  BY DEF KeptScalar
<1> QED BY <1>1, MemoryKept, ValueGiven, Answered

\* What a flow publishes is given to the subscriber's flow.
LEMMA Passed ==
  ASSUME NEW from, NEW to, NEW f, NEW topic, NEW value,
         ToRequest(from, f) = Publish(topic, value)
  PROVE  Shown(from, to, f) = ToFrame(to, Reply("pmessage", topic, Text(value)))
<1>1. /\ Publish(topic, value).cmd = "publish" /\ Publish(topic, value).topic = topic
      /\ Publish(topic, value).text = Text(value)
  BY DEF Publish, Request
<1> QED BY <1>1 DEF Shown

\* crlf and json devices publish the value, unless the first changes it.
LEMMA TextRequested ==
  ASSUME NEW from, from \in {"crlf", "json"}, NEW topic, NEW value,
         from = "crlf" => Parsed(Text(value)) = value
  PROVE  ToRequest(from, Frame("pub", topic, value)) = Publish(topic, value)
<1> DEFINE f == Frame("pub", topic, value)
<1>1. f.cmd = "pub" /\ f.topic = topic /\ f.value = value
  BY DEF Frame
<1> HIDE DEF f
<1>2. from = "crlf" => ToRequest(from, f) = Publish(topic, value)
  BY <1>1 DEF ToRequest, CrlfToRequest
<1>3. from = "json" => ToRequest(from, f) = Publish(topic, value)
  BY <1>1 DEF ToRequest, JsonToRequest
<1>4. ToRequest(from, f) = Publish(topic, value)
  BY <1>2, <1>3
<1> QED BY <1>4 DEF f

\* cborToJson keeps command and topic of what it can read.
LEMMA CborRead ==
  ASSUME NEW topic, NEW value, ~Unreadable(value)
  PROVE  CborToJson(Frame("pub", topic, value))
           = Frame("pub", topic, Parsed(Text(Each(ItemToJson, value))))
<1> DEFINE f == Frame("pub", topic, value)
<1>1. f.cmd = "pub" /\ f.topic = topic /\ f.value = value
  BY DEF Frame
<1> HIDE DEF f
<1>2. CborToJson(f) = Frame("pub", topic, Parsed(Text(Each(ItemToJson, value))))
  BY <1>1 DEF CborToJson
<1> QED BY <1>2 DEF f

\* A scalar is published as it is.
LEMMA ItemRequested ==
  ASSUME NEW topic, NEW value, Plain(value), value.type # "broken",
         PrintedAsIs(value), ReadAsIs(value)
  PROVE  ToRequest("cbor", Frame("pub", topic, value)) = Publish(topic, value)
<1> DEFINE f == CborToJson(Frame("pub", topic, value))
<1>1. value.type # "object"
  BY DEF Plain
<1>2. ~Unreadable(value)
  BY <1>1 DEF Unreadable
<1>3. Each(ItemToJson, value) = value
  BY <1>1, ItemKept DEF Each
<1>4. Parsed(Text(value)) = value
  BY MemoryKept
<1>5. f = Frame("pub", topic, value)
  BY <1>2, <1>3, <1>4, CborRead
<1>6. f.cmd = "pub" /\ f.topic = topic /\ f.value = value
  BY <1>5 DEF Frame
<1> HIDE DEF f
<1>7. ToRequest("cbor", Frame("pub", topic, value)) = Publish(f.topic, f.value)
  BY <1>1, <1>6 DEF ToRequest, CborToRequest, f
<1> QED BY <1>6, <1>7

\* The first property of an object is, under its key.
LEMMA FirstRequested ==
  ASSUME NEW topic, NEW value, value.type = "object", ~Unreadable(value),
         NEW e \in Seq(Entries("cbor")), value.v = e, e # << >>,
         PrintedAsIs(e[1].value), ReadAsIs(e[1].value)
  PROVE  ToRequest("cbor", Frame("pub", topic, value))
           = Publish(topic \o e[1].key, e[1].value)
<1> DEFINE f == CborToJson(Frame("pub", topic, value))
           printed == [i \in DOMAIN e |-> [key |-> e[i].key, value |-> ItemToJson(e[i].value)]]
           read == [i \in DOMAIN printed |->
                      [key |-> printed[i].key, value |-> InMemory(printed[i].value)]]
<1>1. /\ 1 \in DOMAIN e /\ e[1] \in Entries("cbor") /\ DOMAIN e = 1 .. Len(e)
      /\ Len(e) \in Nat \ {0}
  BY EmptySeq, LenProperties
<1>2. e[1].value \in Scalars("cbor") /\ e[1].value.type # "broken"
  BY <1>1 DEF Entries, Unreadable
<1>3. Plain(e[1].value)
  BY <1>2, PlainScalar
<1>4. ItemToJson(e[1].value) = e[1].value /\ InMemory(e[1].value) = e[1].value
  BY <1>2, <1>3, ItemKept, MemoryKept
<1>5. /\ DOMAIN printed = 1 .. Len(e)
      /\ printed[1].key = e[1].key /\ printed[1].value = e[1].value
  BY <1>1, <1>4
<1>6. Each(ItemToJson, value) = Value("object", printed)
  BY DEF Each
<1> HIDE DEF printed
<1>7. /\ DOMAIN read = 1 .. Len(e)
      /\ read[1].key = e[1].key /\ read[1].value = e[1].value
  BY <1>1, <1>4, <1>5
<1>8. Parsed(Text(Value("object", printed))) = Value("object", read)
  <2> DEFINE o == Value("object", printed)
  <2>1. Text(o).json = o /\ o.type = "object" /\ o.v = printed
    BY DEF Text, Value
  <2> HIDE DEF o
  <2>2. Parsed(Text(o)) = Value("object", read)
    BY <2>1 DEF Parsed, Each
  <2> QED BY <2>2 DEF o
<1> DEFINE entry(i) == [key |-> printed[i].key, value |-> InMemory(printed[i].value)]
<1>9. read # << >> /\ Head(read) = read[1]
  <2>1. read = [i \in 1 .. Len(e) |-> entry(i)]
    BY <1>5
  <2> HIDE DEF entry, read
  <2>2. read \in Seq({entry(i) : i \in 1 .. Len(e)}) /\ Len(read) = Len(e)
    BY <1>1, <2>1
  <2>3. read # << >>
    BY <1>1, <2>2, EmptySeq
  <2> QED BY <2>2, <2>3, HeadTailProperties
<1> HIDE DEF read, entry
<1>10. f = Frame("pub", topic, Value("object", read))
  BY <1>6, <1>8, CborRead
<1>11. f.cmd = "pub" /\ f.topic = topic /\ f.value.type = "object" /\ f.value.v = read
  BY <1>10 DEF Frame, Value
<1>12. ToRequest("cbor", Frame("pub", topic, value)) = CborToRequest(Frame("pub", topic, value))
  BY DEF ToRequest
<1> HIDE DEF f
<1>13. CborToRequest(Frame("pub", topic, value))
         = Publish(topic \o Head(read).key, Head(read).value)
  BY <1>9, <1>11 DEF CborToRequest, f
<1> QED BY <1>7, <1>9, <1>12, <1>13

\* Of an object without properties, and of what cannot be read, nothing is published.
LEMMA NothingRequested ==
  ASSUME NEW to, NEW topic, NEW value,
         Unreadable(value) \/ (value.type = "object" /\ value.v = << >>)
  PROVE  Shown("cbor", to, Frame("pub", topic, value)) = NoFrame
<1> DEFINE f == Frame("pub", topic, value)
           g == CborToJson(f)
<1>1. f.cmd = "pub" /\ f.topic = topic /\ f.value = value
  BY DEF Frame
<1>2. CborToRequest(f) = NoRequest
  <2>1. CASE Unreadable(value)
    <3>1. g = ErrorFrame
      BY <1>1, <2>1 DEF CborToJson
    <3>2. g.cmd = "error"
      BY <3>1 DEF ErrorFrame, Frame
    <3> HIDE DEF g
    <3>3. SubOrLog(g) = NoRequest
      BY <3>2 DEF SubOrLog
    <3> QED BY <3>2, <3>3 DEF CborToRequest, g
  <2>2. CASE ~Unreadable(value)
    <3>1. value.type = "object" /\ value.v = << >>
      BY <2>2
    <3>2. Each(ItemToJson, value) = Value("object", << >>)
      BY <3>1 DEF Each
    <3> DEFINE o == Value("object", << >>)
    <3>3. Text(o).json = o /\ o.type = "object" /\ o.v = << >>
      BY DEF Text, Value
    <3>4. Parsed(Text(o)) = o
      BY <3>3 DEF Parsed, Each
    <3>5. g = Frame("pub", topic, o)
      BY <2>2, <3>2, <3>4, CborRead
    <3>6. g.cmd = "pub" /\ g.value.type = "object" /\ g.value.v = << >>
      BY <3>3, <3>5 DEF Frame
    <3> HIDE DEF g
    <3> QED BY <3>6 DEF CborToRequest, g
  <2> QED BY <2>1, <2>2
<1> HIDE DEF f
<1>3. ToRequest("cbor", f) = NoRequest
  BY <1>2 DEF ToRequest
<1>4. NoRequest.cmd = "none"
  BY DEF NoRequest, Request
<1>5. Shown("cbor", to, f) = NoFrame
  BY <1>3, <1>4 DEF Shown
<1> QED BY <1>5 DEF f

\* From a device that writes JSON
LEMMA TextShown ==
  ASSUME NEW from, from \in {"crlf", "json"}, NEW to, to \in Formats, NEW topic, NEW value,
         value \in Scalars(from) \cup Objects(from), Kept(from, to, value)
  PROVE  Shown(from, to, Frame("pub", topic, value)) = Frame("pub", topic, value)
<1>1. CASE from = "json" /\ to = "json"
  <2>1. ToRequest(from, Frame("pub", topic, value)) = Publish(topic, value)
    BY <1>1, TextRequested
  <2>2. ToFrame(to, Reply("pmessage", topic, Text(value))) = Frame("pub", topic, value)
    BY <1>1, Answered
  <2> QED BY <2>1, <2>2, Passed
<1>2. CASE ~(from = "json" /\ to = "json")
  <2>1. /\ Parsed(Text(value)) = value
        /\ to = "cbor" => CborValue(Text(value)) = value
    <3>1. CASE value \in Scalars(from)
      <4>1. Plain(value) /\ value.type \in JsonTypes /\ value.type # "object"
        BY <3>1, PlainScalar DEF Plain
      <4>2. KeptScalar(from, to, value)
        BY <4>1 DEF Kept
      <4>3. ReadAsIs(value) /\ (to = "cbor" => value.type \notin {"null", "array"})
        BY <1>2, <4>2 DEF KeptScalar
      <4> QED BY <4>1, <4>3, MemoryKept, ValueGiven
    <3>2. CASE value \in Objects(from)
      <4>1. value.type = "object"
        BY <3>2 DEF Objects, Value
      <4>2. /\ to # "cbor"
            /\ \A i \in DOMAIN value.v : KeptScalar(from, to, value.v[i].value)
        BY <4>1 DEF Kept
      <4>3. \A i \in DOMAIN value.v : ReadAsIs(value.v[i].value)
        BY <1>2, <4>2 DEF KeptScalar
      <4> QED BY <3>2, <4>2, <4>3, ObjectKept
    <3> QED BY <3>1, <3>2
  <2>2. ToRequest(from, Frame("pub", topic, value)) = Publish(topic, value)
    BY <2>1, TextRequested
  <2>3. ToFrame(to, Reply("pmessage", topic, Text(value))) = Frame("pub", topic, value)
    BY <2>1, Answered
  <2> QED BY <2>2, <2>3, Passed
<1> QED BY <1>1, <1>2

\* From a device that writes CBOR, a scalar
LEMMA ItemShown ==
  ASSUME NEW to, to \in Formats, NEW topic, NEW value, value \in Scalars("cbor"),
         value.type # "broken", Kept("cbor", to, value)
  PROVE  Shown("cbor", to, Frame("pub", topic, value)) = Frame("pub", topic, value)
<1>1. Plain(value) /\ value.type # "object"
  BY PlainScalar DEF Plain
<1>2. KeptScalar("cbor", to, value)
  BY <1>1 DEF Kept
<1>3. ReadAsIs(value) /\ PrintedAsIs(value)
  BY <1>2 DEF KeptScalar
<1>4. value.type \in JsonTypes
  BY <1>1, <1>3 DEF Plain, PrintedAsIs, CborTypes
<1>5. ToRequest("cbor", Frame("pub", topic, value)) = Publish(topic, value)
  BY <1>1, <1>3, ItemRequested
<1>6. ToFrame(to, Reply("pmessage", topic, Text(value))) = Frame("pub", topic, value)
  BY <1>1, <1>2, <1>4, ScalarAnswered
<1> QED BY <1>5, <1>6, Passed

\* and an object
LEMMA FirstShown ==
  ASSUME NEW to, to \in Formats, NEW topic, NEW value, value \in Objects("cbor"),
         ~Unreadable(value), value.v # << >>, Kept("cbor", to, value.v[1].value)
  PROVE  Shown("cbor", to, Frame("pub", topic, value))
           = Frame("pub", topic \o value.v[1].key, value.v[1].value)
<1>1. PICK e \in SeqOf(Entries("cbor"), 2) : value = Value("object", e)
  BY DEF Objects
<1>2. value.type = "object" /\ value.v = e /\ e # << >>
  BY <1>1 DEF Value
<1>3. PICK m \in 0 .. 2 : e \in [1 .. m -> Entries("cbor")]
  BY DEF SeqOf
<1>4. e \in Seq(Entries("cbor"))
  BY <1>3
<1>5. e[1] \in Entries("cbor") /\ 1 \in DOMAIN e
  BY <1>2, <1>4, EmptySeq, LenProperties
<1> DEFINE first == e[1].value
<1>6. first \in Scalars("cbor") /\ first.type # "broken"
  BY <1>2, <1>5 DEF Entries, Unreadable
<1>7. Kept("cbor", to, first)
  BY <1>2
<1> HIDE DEF first
<1>8. Plain(first) /\ first.type # "object"
  BY <1>6, PlainScalar DEF Plain
<1>9. KeptScalar("cbor", to, first)
  BY <1>7, <1>8 DEF Kept
<1>10. ReadAsIs(first) /\ PrintedAsIs(first)
  BY <1>9 DEF KeptScalar
<1>11. first.type \in JsonTypes
  BY <1>6, <1>8, <1>10 DEF Plain, PrintedAsIs, CborTypes
<1>12. ToRequest("cbor", Frame("pub", topic, value)) = Publish(topic \o e[1].key, first)
  BY <1>2, <1>4, <1>10, FirstRequested DEF first
<1>13. ToFrame(to, Reply("pmessage", topic \o e[1].key, Text(first)))
         = Frame("pub", topic \o e[1].key, first)
  BY <1>8, <1>9, <1>11, ScalarAnswered
<1>14. Shown("cbor", to, Frame("pub", topic, value)) = Frame("pub", topic \o e[1].key, first)
  BY <1>12, <1>13, Passed
<1> QED BY <1>2, <1>14 DEF first

\* Flows.cpp: what is published in one format is what is shown in another.
LEMMA SampleShown ==
  ASSUME sample \in Samples \cup {NoSample} PROVE ShownAsPublished
<1> SUFFICES ASSUME sample # NoSample PROVE ShownAsPublished
  BY DEF ShownAsPublished
<1> DEFINE from == sample.from
           to == sample.to
           value == sample.value
           shown == Shown(from, to, Frame("pub", MCTopic, value))
<1>1. from \in Formats /\ to \in Formats /\ value \in Scalars(from) \cup Objects(from)
  BY DEF Samples
<1>2. MCTopic \o << >> = MCTopic
  <2>1. MCTopic \in Seq({"t"})
    BY DEF MCTopic
  <2> HIDE DEF MCTopic
  <2> QED BY <2>1, ConcatEmptySeq
<1> HIDE DEF from, to, value
<1>3. ASSUME from # "cbor", Kept(from, to, value)
      PROVE  shown = Frame("pub", MCTopic \o << >>, value)
  <2>1. from \in {"crlf", "json"}
    BY <1>1, <1>3 DEF Formats
  <2> QED BY <1>1, <1>2, <1>3, <2>1, TextShown
<1>4. ASSUME from = "cbor", Unreadable(value) \/ (value.type = "object" /\ value.v = << >>)
      PROVE  shown = NoFrame
  BY <1>4, NothingRequested
<1>5. ASSUME from = "cbor", ~Unreadable(value), value.type # "object", Kept(from, to, value)
      PROVE  shown = Frame("pub", MCTopic \o << >>, value)
  <2>1. value \in Scalars("cbor")
    BY <1>1, <1>5 DEF Objects, Value
  <2>2. value.type # "broken"
    BY <1>5 DEF Unreadable
  <2> QED BY <1>1, <1>2, <1>5, <2>1, <2>2, ItemShown
<1>6. ASSUME from = "cbor", ~Unreadable(value), value.type = "object", value.v # << >>,
             Kept(from, to, value.v[1].value)
      PROVE  shown = Frame("pub", MCTopic \o value.v[1].key, value.v[1].value)
  <2>1. value \in Objects("cbor")
    BY <1>1, <1>6, PlainScalar DEF Plain
  <2> QED BY <1>1, <1>6, <2>1, FirstShown
<1> QED BY <1>3, <1>4, <1>5, <1>6 DEF ShownAsPublished, from, to, value

\* For every format a value is published in and every one it is shown in: it comes out as
\* it was published unless a conversion on the way cannot keep it, whatever the limits
\* of the numbers are and whether tinycbor escapes texts or not.
THEOREM ShownRight == MCSpec => []ShownAsPublished
<1> DEFINE Sampled == sample \in Samples \cup {NoSample}
<1>1. MCInit => Sampled
  BY DEF MCInit
<1>2. Sampled /\ [MCNext]_<<pubSubVars, sample>> => Sampled'
  BY DEF MCNext
<1>3. Sampled => ShownAsPublished
  BY SampleShown
<1> QED BY <1>1, <1>2, <1>3, PTL DEF MCSpec
=============================================================================
