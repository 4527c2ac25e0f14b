---------------------------- MODULE SerialPubSub ----------------------------
(***************************************************************************)
(* The sketch examples/basicPubSub/src/main.cpp over the serial gateway and*)
(* Redis.  It subscribes to its topics every second, publishes the time to *)
(* one of them every 100 ms, and when that comes back publishes how long it*)
(* took.  millis() counts modulo 2^32, and so do the two times of loop().  *)
(*                                                                         *)
(* Lines may be lost in both directions; that they keep their order is what*)
(* Serial2Redis shows of the gateway.  Noise on the way to the sketch may  *)
(* change a line, whose CRC the sketch compares, but does not act upon.    *)
(***************************************************************************)
EXTENDS SequencesExt, Flows

CONSTANTS
  ClockSize,   \* 2^32, the values of millis()
  SubPeriod,   \* 1000
  PubPeriod,   \* 100
  Blink,       \* 20: the two delays around subscribe
  MaxLines,    \* bound: lines on their way in each direction
  MaxTime,     \* bound: milliseconds
  MaxNoise,    \* bound: lines that noise changes
  MaxRestarts  \* bound: resets of the sketch and restarts of the gateway

ASSUME SerialPubSubAssumption ==
  /\ {ClockSize, SubPeriod, PubPeriod, Blink, MaxLines} \subseteq Nat \ {0}
  /\ Blink < PubPeriod /\ PubPeriod < SubPeriod /\ 2 * SubPeriod < ClockSize
  /\ MaxTime \in Nat /\ MaxNoise \in Nat /\ MaxRestarts \in Nat
  /\ ClockSize <= Int64Limit

VARIABLES
  now,         \* time
  boot,        \* when the sketch started
  looped,      \* loop() has run since now changed
  nextSub, nextPub,
  up, down,    \* lines on their way to Redis and to the sketch
  subscribed,  \* the gateway's connection to Redis has the subscription
  lastSub,     \* history: when the sketch last subscribed or started
  lastPub,     \* history: when it last published or started
  latency,     \* history: the last latency it published, and the true one
  noise, restarts

sketch == <<boot, looped, nextSub, nextPub, lastSub, lastPub>>
pubSubVars == <<now, sketch, up, down, subscribed, latency, noise, restarts>>

-----------------------------------------------------------------------------
Loopback == <<"dst", "arduino", "sys", "loopback">>
Latency  == <<"src", "arduino", "sys", "latency">>
Pattern  == <<"dst", "arduino">>

\* publish writes a uint32_t in JSON.
Uint(n) == Integer(n)

\* A line: its frame, and since when a loopback has been on its way.
Unknown == -1
Line(frame, since) == [frame |-> frame, since |-> since]

millis(t) == (t - boot) % ClockSize

\* A mistake: there is always room.
SentUnbounded(q, l) == {q, Append(q, l)}

\* Lines in flight after l was sent: any may be lost, also when there is no room.
Sent(q, l) == {q} \cup (IF Len(q) < MaxLines THEN {Append(q, l)} ELSE {})

PubSubInit ==
  /\ now = 0 /\ boot = 0 /\ looped = FALSE
  /\ nextSub = 0 /\ nextPub = 0
  /\ up = << >> /\ down = << >> /\ subscribed = FALSE
  /\ lastSub = 0 /\ lastPub = 0
  /\ latency = [said |-> 0, true |-> 0]
  /\ noise = 0 /\ restarts = 0

-----------------------------------------------------------------------------
(* The sketch.                                                             *)

\* A mistake: a later start than now is taken for 0.
LatencyClamped(ms, start) == IF ms >= start THEN ms - start ELSE 0

\* millis() - start, a uint64_t, as the uint32_t that publish takes
LatencyOf(ms, start) == (ms - start) % ClockSize

\* A mistake: the period of the subscription is taken.
NextPubAsSub(t) == (millis(t) + SubPeriod) % ClockSize

\* millis() + 100 and millis() + 1000, computed as unsigned long
NextPub(t) == (millis(t) + PubPeriod) % ClockSize
NextSub(t) == (millis(t) + SubPeriod) % ClockSize

\* loop(), which blinks for a while when it subscribes
Loop ==
  /\ ~looped
  /\ looped' = TRUE
  /\ LET subs  == millis(now) > nextSub
         later == IF subs THEN now + Blink ELSE now
         pubs  == millis(later) > nextPub
     IN
     /\ now' = later
     /\ nextSub' = IF subs THEN NextSub(later) ELSE nextSub
     /\ lastSub' = IF subs THEN now ELSE lastSub
     /\ nextPub' = IF pubs THEN NextPub(later) ELSE nextPub
     /\ lastPub' = IF pubs THEN later ELSE lastPub
     /\ \E q \in IF subs THEN Sent(up, Line(Frame("sub", Pattern, Null), Unknown)) ELSE {up} :
          up' \in IF pubs
                  THEN Sent(q, Line(Frame("pub", Loopback, Uint(millis(later))), later))
                  ELSE {q}
  /\ UNCHANGED <<boot, down, subscribed, latency, noise, restarts>>

\* handle_line: the CRC is compared, but a line that fails is handled all the same
HandleLine ==
  /\ down # << >>
  /\ Head(down).frame.cmd # "short"
  /\ down' = Tail(down)
  /\ LET f  == Head(down).frame
         ms == millis(now)
         took == LatencyOf(ms, f.value.v)
     IN
     IF f.cmd = "pub" /\ f.topic = Loopback
     THEN /\ up' \in Sent(up, Line(Frame("pub", Latency, Uint(took)), Unknown))
          /\ latency' = [said |-> took,
                         true |-> IF Head(down).since = Unknown THEN took
                                  ELSE now - Head(down).since]
     ELSE UNCHANGED <<up, latency>>
  /\ UNCHANGED <<now, sketch, subscribed, noise, restarts>>

Restarted ==
  /\ boot' = now /\ looped' = FALSE
  /\ nextSub' = 0 /\ nextPub' = 0
  /\ lastSub' = now /\ lastPub' = now
  /\ up' = [i \in 1 .. Len(up) |-> [up[i] EXCEPT !.since = Unknown]]
  /\ UNCHANGED <<now, subscribed, latency, noise>>

\* handle_line on fewer than four characters: substr throws, and the sketch resets.
HandleShortLine ==
  /\ down # << >>
  /\ Head(down).frame.cmd = "short"
  /\ down' = [i \in 1 .. Len(down) - 1 |-> [down[i + 1] EXCEPT !.since = Unknown]]
  /\ Restarted
  /\ UNCHANGED restarts

\* The sketch is reset.
Reset ==
  /\ restarts < MaxRestarts
  /\ restarts' = restarts + 1
  /\ down' = [i \in 1 .. Len(down) |-> [down[i] EXCEPT !.since = Unknown]]
  /\ Restarted

-----------------------------------------------------------------------------
(* The gateway, Redis, the line and time.                                  *)

Matches(topic) == IsPrefix(Pattern, topic)

\* A line reaches the gateway, Redis executes it, and what it answers goes back.
GatewayServes ==
  /\ up # << >>
  /\ up' = Tail(up)
  /\ LET request == ToRequest("crlf", Head(up).frame)
         answer  == ToFrame("crlf", Reply("pmessage", request.topic, request.text))
     IN
     \/ /\ request.cmd = "psubscribe"
        /\ subscribed' = TRUE
        /\ UNCHANGED down
     \/ /\ request.cmd = "publish"
        /\ down' \in IF subscribed /\ Matches(request.topic)
                     THEN Sent(down, Line(answer, Head(up).since)) ELSE {down}
        /\ UNCHANGED subscribed
  /\ UNCHANGED <<now, sketch, latency, noise, restarts>>

\* Its connection to Redis is a new one, without the subscription.
GatewayRestarts ==
  /\ restarts < MaxRestarts
  /\ restarts' = restarts + 1
  /\ subscribed' = FALSE
  /\ up' = << >>
  /\ UNCHANGED <<now, sketch, down, latency, noise>>

\* Another number is read, something that is no JSON, or hardly anything.
Noise ==
  /\ noise < MaxNoise
  /\ down # << >>
  /\ noise' = noise + 1
  /\ \E f \in {Frame("pub", Loopback, Uint(0)), NoFrame, Frame("short", << >>, Null)} :
       down' = <<Line(f, Unknown)>> \o Tail(down)
  /\ UNCHANGED <<now, sketch, up, subscribed, latency, restarts>>

\* A millisecond passes, in which loop() runs at least once.
Tick ==
  /\ looped
  /\ now < MaxTime
  /\ now' = now + 1
  /\ looped' = FALSE
  /\ UNCHANGED <<boot, nextSub, nextPub, lastSub, lastPub, up, down, subscribed,
                 latency, noise, restarts>>

PubSubNext ==
  \/ Loop \/ HandleLine \/ HandleShortLine \/ Reset
  \/ GatewayServes \/ GatewayRestarts \/ Noise \/ Tick

PubSubSpec == PubSubInit /\ [][PubSubNext]_pubSubVars

-----------------------------------------------------------------------------
(* Properties.                                                             *)

PubSubTypeOK ==
  /\ now \in 0 .. MaxTime + Blink /\ boot \in 0 .. now
  /\ looped \in BOOLEAN /\ subscribed \in BOOLEAN
  /\ nextSub \in 0 .. ClockSize - 1 /\ nextPub \in 0 .. ClockSize - 1
  /\ lastSub \in 0 .. now /\ lastPub \in 0 .. now
  /\ Len(up) <= MaxLines /\ Len(down) <= MaxLines
  /\ latency.said \in 0 .. ClockSize - 1
  /\ noise \in 0 .. MaxNoise /\ restarts \in 0 .. MaxRestarts

\* A latency that is published is how long the loopback really took, modulo 2^32,
\* over every gap in the lines and every wrap-around of millis(): only lines that
\* noise changed, and those from before a reset, give another one.
LatencyExact == latency.said = latency.true % ClockSize

\* loop() may only fail to see the time pass when that lies at the wrap-around of
\* millis(): nothing exceeds 2^32 - 1, and a turn that blinks may skip what is near
\* it.  Then the sketch is silent for 2^32 ms or for ever.
Missable(next) == next + 1 + Blink >= ClockSize

\* Otherwise the sketch subscribes and publishes in time, over every wrap-around, so
\* a gateway that restarts has the subscription again soon.
SilenceBounded ==
  /\ Missable(nextSub) \/ now - lastSub <= SubPeriod + Blink + 1
  /\ Missable(nextPub) \/ now - lastPub <= PubPeriod + Blink + 1
=============================================================================
