---------------------------- MODULE Serial2Redis ----------------------------
(***************************************************************************)
(* The serial gateway: main() of src/serial2redis.cpp in its default set-up*)
(* (CR/LF frames, JSON with a CRC), over src/SessionSerial.cpp,            *)
(* src/serial.cpp, src/Framing.cpp and the CRC flows of src/Flows.cpp.     *)
(*                                                                         *)
(* One worker thread runs one handler at a time.  SessionSerial::reconnect *)
(* does not return to the thread's loop before the port is open again: it  *)
(* sleeps and retries inside the handler, and while it does, no timer and  *)
(* no invoker runs.  pc tells the two situations apart.                    *)
(*                                                                         *)
(* The device sends numbered lines.  A line is a body, the CRC of the body *)
(* and a delimiter; on the wire any byte of it may be lost.  The CRC is    *)
(* taken to tell every two bodies apart.                                   *)
(***************************************************************************)
EXTENDS Framing, FiniteSets

CONSTANTS
  Fds,           \* descriptors the kernel may return from open
  NoFd,          \* -1
  QueueDepth,    \* depth of _incomingFrame and _outgoingFrame (10)
  DeviceAddsCrc, \* whether the device ends its lines with a CRC
  MaxLines,      \* bound: lines the device sends
  MaxAnswers     \* bound: messages Redis has for the device

ASSUME SerialAssumption ==
  /\ NoFd \notin Fds
  /\ QueueDepth \in Nat \ {0}
  /\ DeviceAddsCrc \in BOOLEAN
  /\ MaxLines \in Nat /\ MaxAnswers \in Nat

VARIABLES
  device,     \* "absent", "unusable" (opens, but cannot be set up), "usable"
  lineNo,     \* number of the line the device is sending
  linePos,    \* how many bytes of it were sent
  tty,        \* bytes received by the kernel for the open descriptor
  hung,       \* the device behind the open descriptor went away

  pc,         \* "loop", or "reconnect" inside SessionSerial::reconnect
  fd,         \* Serial::_fd
  connected,  \* Serial::_connected
  openFds,    \* descriptors of the port that are open
  invokers,   \* descriptors with read and error invokers in the thread
  incoming,   \* queue of _incomingFrame: reads
  outgoing,   \* queue of _outgoingFrame: numbers of answers
  buffer,     \* Deframer::_buffer

  requests,   \* history: bodies the last read gave to Redis
  sent,       \* history: lines begun by the device
  delivered,  \* history: numbers of the lines given to Redis
  answers,    \* history: answers Redis gave
  shown,      \* history: numbers of the answers the device received whole
  garbled,    \* history: the device holds the beginning of a cut answer
  aliveIn     \* seconds before the alive timer expires

deviceVars == <<device, lineNo, linePos>>
portVars   == <<fd, connected, openFds, invokers>>
inVars     == <<incoming, buffer, requests, delivered>>
outVars    == <<outgoing, answers, shown, garbled>>
vars == <<device, lineNo, linePos, tty, hung, pc, fd, connected, openFds,
          invokers, incoming, outgoing, buffer, requests, sent, delivered,
          answers, shown, garbled, aliveIn>>

\* What the gateway is to the lines of the device.
Link == INSTANCE LossyFifo

-----------------------------------------------------------------------------
(* Lines and their CRC.                                                    *)

Body(k) == <<[kind |-> "body", of |-> k]>>
Crc16(body) == [kind |-> "crc", of |-> body]
Line(k) == IF DeviceAddsCrc THEN Append(Body(k), Crc16(Body(k))) ELSE Body(k)
Wire(k) == Frame(Line(k))

\* A mistake: a CRC is looked for, but not compared.
CrcPresent(frame) == Len(frame) >= 2 /\ Last(frame).kind = "crc"

\* crlfCrcToRequest: long enough, and ends in the CRC of what precedes it.
CrcMatches(frame) ==
  /\ Len(frame) >= 2
  /\ Last(frame) = Crc16(Front(frame))

\* A mistake: a queue without its bound.
PushedUnbounded(q, v) == Append(q, v)

\* QueueFlow::on: a full queue drops the value.
Pushed(q, v) == IF Len(q) < QueueDepth THEN Append(q, v) ELSE q

\* A mistake: the value that is served stays in the queue.
ServedAgain(q) == q

\* The queue without the value that its invoker takes out and serves.
Served(q) == Tail(q)

-----------------------------------------------------------------------------
(* The device and the wire.                                                *)

InitDevice ==
  /\ device \in {"absent", "unusable", "usable"}
  /\ lineNo = 1 /\ linePos = 0
  /\ tty = << >>
  /\ hung = FALSE
  /\ sent = 0

\* The next byte of the line reaches the open port, or is lost.
DeviceSends ==
  /\ device = "usable"
  /\ lineNo <= MaxLines
  /\ sent' = lineNo
  /\ \/ openFds # {} /\ ~hung /\ tty' = Append(tty, Wire(lineNo)[linePos + 1])
     \/ UNCHANGED tty
  /\ IF linePos + 1 < Len(Wire(lineNo))
     THEN linePos' = linePos + 1 /\ UNCHANGED lineNo
     ELSE linePos' = 0 /\ lineNo' = lineNo + 1
  /\ UNCHANGED <<device, hung, pc, portVars, inVars, outVars, aliveIn>>

\* The device is plugged in, or set up by the operating system.
DeviceComes ==
  /\ device' \in {"unusable", "usable"} \ {device}
  /\ UNCHANGED <<lineNo, linePos, sent, tty, hung, pc, portVars, inVars,
                 outVars, aliveIn>>

\* The device is unplugged or resets: the line it was sending stays unfinished
\* and what it was receiving is gone.  An open descriptor is hung up.
DeviceGoes ==
  /\ device # "absent"
  /\ device' = "absent"
  /\ lineNo' = IF linePos = 0 THEN lineNo ELSE lineNo + 1
  /\ linePos' = 0
  /\ tty' = << >>
  /\ hung' = (openFds # {})
  /\ garbled' = FALSE
  /\ UNCHANGED <<sent, pc, portVars, inVars, outgoing, answers, shown,
                 aliveIn>>

-----------------------------------------------------------------------------
(* Serial::connect, Serial::disconnect and SessionSerial around them.      *)

\* Mistakes: a descriptor is left open when its set-up fails; the invokers are
\* removed after the port was closed, when fd is -1 already.
LeakOnFailure(f) == openFds \cup {f}
DelAllInvokerLate == invokers \ {NoFd}

\* What a failed set-up leaves open: each failing branch closes what it opened.
AfterFailure(f) == openFds

\* open fails, or the set-up of the opened descriptor does.
ConnectFails ==
  /\ \/ device = "absent" /\ UNCHANGED openFds
     \/ device = "unusable" /\ \E f \in Fds \ openFds : openFds' = AfterFailure(f)
  /\ fd' = NoFd
  /\ UNCHANGED <<connected, invokers>>

\* The port is open in raw mode, and the thread watches it.
ConnectSucceeds ==
  /\ device = "usable"
  /\ \E f \in Fds \ openFds :
       /\ openFds' = openFds \cup {f}
       /\ fd' = f
       /\ invokers' = invokers \cup {f}
  /\ connected' = TRUE

\* thread().delAllInvoker(_serialPort.fd()), before the port is closed.
DelAllInvoker == invokers \ {fd}

\* SessionSerial::disconnect, the first thing reconnect() does.
Disconnect ==
  /\ invokers' = DelAllInvoker
  /\ openFds' = openFds \ {fd}
  /\ fd' = NoFd
  /\ connected' = FALSE

InitPort ==
  \* main ignores the result of serial.connect()
  /\ \/ /\ device = "usable"
        /\ \E f \in Fds : fd = f /\ openFds = {f} /\ invokers = {f}
        /\ connected = TRUE
     \/ /\ device # "usable"
        /\ fd = NoFd /\ openFds = {} /\ invokers = {}
        /\ connected = FALSE
  /\ pc = "loop"

EnterReconnect ==
  /\ Disconnect
  /\ pc' = "reconnect"
  /\ tty' = << >>
  /\ hung' = FALSE
  /\ UNCHANGED <<deviceVars, sent, inVars, outVars, aliveIn>>

\* A second passes for the alive timer.
Second == aliveIn' = 0

\* One turn of the loop in reconnect(): sleep(1), then connect().
Reconnect ==
  /\ pc = "reconnect"
  /\ Second
  /\ \/ ConnectSucceeds /\ pc' = "loop"
     \/ ConnectFails /\ UNCHANGED pc
  /\ UNCHANGED <<deviceVars, sent, tty, hung, inVars, outVars>>

-----------------------------------------------------------------------------
(* SessionSerial: read and error invokers of the open descriptor.          *)

Watched == pc = "loop" /\ fd \in invokers

\* rxd reads until nothing is left, and the bytes go to _incomingFrame.
ReadData ==
  /\ Watched
  /\ tty # << >>
  /\ incoming' = Pushed(incoming, tty)
  /\ tty' = << >>
  /\ UNCHANGED <<deviceVars, sent, hung, pc, portVars, buffer, requests,
                 delivered, outVars, aliveIn>>

\* A read fails: the bytes read before it are dropped, and nothing else is done.
ReadFails ==
  /\ Watched
  /\ tty # << >>
  /\ tty' = << >>
  /\ UNCHANGED <<deviceVars, sent, hung, pc, portVars, inVars, outVars,
                 aliveIn>>

\* "0 data => connection lost": the end of a hung up port, or a read that found
\* nothing yet (EAGAIN).
ReadNothing ==
  /\ Watched
  /\ tty = << >>
  /\ EnterReconnect

OnError == Watched /\ EnterReconnect

-----------------------------------------------------------------------------
(* The invokers of the two flows.                                          *)

\* incoming >> deframe >> crlfCrcToRequest >> redis.request.  Of the lines whose
\* CRC is right, those that are no pub, sub or log command are dropped.
RunIncoming ==
  /\ pc = "loop"
  /\ incoming # << >>
  /\ incoming' = Served(incoming)
  /\ LET d     == Deframe(buffer, Head(incoming))
         valid == {i \in 1 .. Len(d.frames) : CrcMatches(d.frames[i])}
     IN
     /\ buffer' = d.buffer
     /\ \E commands \in {c \in SeqOf(valid, Len(d.frames)) : Link!Ascending(c)} :
          /\ requests' = {Front(d.frames[i]) : i \in ToSet(commands)}
          /\ delivered' = delivered \o
               [i \in DOMAIN commands |-> Front(d.frames[commands[i]])[1].of]
  /\ UNCHANGED <<deviceVars, sent, tty, hung, pc, portVars, outVars, aliveIn>>

\* redis.response >> responseToCrlfCrc >> frame >> outgoing
RedisAnswers ==
  /\ pc = "loop"
  /\ answers < MaxAnswers
  /\ answers' = answers + 1
  /\ outgoing' = Pushed(outgoing, answers + 1)
  /\ UNCHANGED <<deviceVars, sent, tty, hung, pc, portVars, inVars, shown,
                 garbled, aliveIn>>

\* Serial::txd on the oldest answer.  It is lost when the port is not connected
\* and when no byte of it gets out, and it is cut when a write fails half-way or
\* tcflush discards its tail: then the device takes the cut answer and the next
\* one for a single line, whose CRC is wrong.
RunOutgoing ==
  /\ pc = "loop"
  /\ outgoing # << >>
  /\ outgoing' = Served(outgoing)
  /\ \/ UNCHANGED <<shown, garbled>>
     \/ /\ connected /\ ~hung
        /\ garbled' \in BOOLEAN
        /\ shown' = IF garbled \/ garbled' THEN shown
                    ELSE Append(shown, Head(outgoing))
  /\ UNCHANGED <<deviceVars, sent, tty, hung, pc, portVars, inVars, answers,
                 aliveIn>>

-----------------------------------------------------------------------------
(* The 1 s timer, and time.                                                *)

\* timer >> publishAlive >> redis.request
PublishAlive ==
  /\ pc = "loop"
  /\ aliveIn = 0
  /\ aliveIn' = 1
  /\ UNCHANGED <<deviceVars, sent, tty, hung, pc, portVars, inVars, outVars>>

\* A second in the thread's loop, which serves a timer that is due within it.
Tick ==
  /\ pc = "loop"
  /\ aliveIn > 0
  /\ Second
  /\ UNCHANGED <<deviceVars, sent, tty, hung, pc, portVars, inVars, outVars>>

-----------------------------------------------------------------------------
Init ==
  /\ InitDevice
  /\ InitPort
  /\ incoming = << >> /\ outgoing = << >> /\ buffer = << >>
  /\ requests = {} /\ delivered = << >>
  /\ answers = 0 /\ shown = << >> /\ garbled = FALSE
  /\ aliveIn = 1

Next ==
  \/ DeviceSends \/ DeviceComes \/ DeviceGoes
  \/ ReadData \/ ReadFails \/ ReadNothing \/ OnError \/ Reconnect
  \/ RunIncoming \/ RedisAnswers \/ RunOutgoing
  \/ PublishAlive \/ Tick

Spec == Init /\ [][Next]_vars

\* The reconnect loop goes on, and the thread reads a descriptor that stays
\* readable, as one that was hung up does.  Nothing is assumed of the device.
Fairness == WF_vars(Reconnect) /\ WF_vars(ReadNothing)

FairSpec == Spec /\ Fairness

-----------------------------------------------------------------------------
(* Properties.                                                             *)

\* Every variable has its type, and no queue exceeds its depth.
TypeOK ==
  /\ device \in {"absent", "unusable", "usable"}
  /\ lineNo \in 1 .. MaxLines + 1 /\ sent \in 0 .. MaxLines
  /\ linePos \in 0 .. Len(Wire(1))
  /\ hung \in BOOLEAN /\ connected \in BOOLEAN /\ garbled \in BOOLEAN
  /\ pc \in {"loop", "reconnect"}
  /\ fd \in Fds \cup {NoFd}
  /\ openFds \subseteq Fds /\ invokers \subseteq Fds
  /\ Len(incoming) <= QueueDepth /\ Len(outgoing) <= QueueDepth
  /\ delivered \in Seq(1 .. MaxLines) /\ shown \in Seq(1 .. MaxAnswers)
  /\ answers \in 0 .. MaxAnswers
  /\ aliveIn \in 0 .. 1

\* The session, the kernel and the thread agree on the port: whatever fails and
\* however often the device comes and goes, no descriptor stays open but the
\* one in use, the thread watches exactly that one, and the port is closed and
\* unwatched for as long as the session is reconnecting.
PortConsistent ==
  /\ openFds = IF fd = NoFd THEN {} ELSE {fd}
  /\ invokers = openFds
  /\ connected <=> fd # NoFd
  /\ pc = "reconnect" => fd = NoFd

\* Every request that reaches Redis is a line the device sent: neither the
\* pieces of two lines nor the bytes of two connections are taken for one.
RequestsAreLines ==
  \A body \in requests : \E k \in 1 .. sent : body = Body(k)

\* The gateway is an ordered lossy link: over full queues, reads cut anywhere and
\* reconnections, the lines given to Redis are some of the lines the device sent, in
\* their order, and none is given twice.
LinkSpec == Link!Spec

\* The device never sees an answer after a later one, and never one twice, whether the
\* two follow each other or not.
AnswersInOrder == Link!Ascending(shown)

\* A port that was lost is found lost and opened again once it is usable,
\* whatever failed in between.
PortRecovers ==
  pc = "reconnect" \/ hung
    ~> (pc = "loop" /\ ~hung /\ connected) \/ device # "usable"

\* README.MD:75 "Serial UART with CR/LF framing without CRC ( Arduino )": a
\* command line of the device that is received whole is given to Redis.
WholeLinesAccepted ==
  [][RunIncoming =>
       \A k \in 1 .. sent :
         Body(k) \in ToSet(Deframe(buffer, Head(incoming)).frames)
           => Body(k) \in requests']_vars
=============================================================================
