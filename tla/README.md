# serial2redis: TLA+ models, model checks and proofs

serial2redis lets small devices talk to Redis: a device writes commands as JSON
lines on a serial port, as UDP datagrams or as web socket messages, and one of
three gateway processes turns them into Redis requests and sends the replies
back. This directory holds TLA+ models of these gateways, the TLC
configurations that check them on small instances, and theorems about them that
TLAPS proves for all values of the constants. `PROJECT.json` lists the
components, the runs, the mutants (small mistakes that each property must
notice), the source lines behind every definition, the findings, the hazards and
the theorems.

Paths below are relative to the repository.

## 1. The system

| part | state | operations | talks to |
|---|---|---|---|
| UDP gateway, `src/udp2redis.cpp` | map of clients, a `RedisProxy` per client with two queues, a Redis connection and the time of its last message | recv lambda, proxy flows, 3 s cleanup timer | UDP session; Redis client |
| UDP session and socket, `src/SessionUdp.cpp`, `src/Udp.cpp` | descriptor, one received datagram, queue of 10 to send | connect, read invoker, error invoker, send | socket; gateway's flows |
| client addresses, `src/Udp.h` | none | `operator<` under `std::map` | UDP gateway |
| serial gateway, `src/serial2redis.cpp` | the wiring of one device, 1 s timer | pipelines, alive message | serial session; Redis client |
| serial session and port, `src/SessionSerial.cpp`, `src/serial.cpp` | descriptor, connected flag, two queues of 10 | connect, read, write, error, reconnect | tty; thread |
| framing, `src/Framing.cpp` | `_buffer`: the line under way | `deframe`, `frame` | serial gateway |
| JSON, CBOR and CRC flows, `src/Flows.cpp` | none | requests from frames, frames from responses, `crc16` | both gateways |
| web socket gateway, `src/ws2redis.cpp` | map of connections, a `WsProxy` with a Redis connection each, lambdas collected by the server | connect, data, disconnect, deferred send, pinger | seasocks; Redis client |
| firmware: WiFi, `Wifi.cpp` | access point, `connected` | handlers of the driver's events | the driver; `UdpFrame` |
| firmware: UDP link, `UdpFrame.cpp` | `_socket`, shared by three threads | open, close, send, receive | WiFi events; UDP gateway |
| firmware: serial link, `Hardware.cpp` (UART), `SerialFrame.cpp` | ring, event queue, frame under way, escape flag | event task, `rxdByte` | driver's interrupt; worker thread |
| firmware: semaphores, `Sema.cpp` | semaphore, counter | `wait`, `release` per platform | all threads |
| firmware: telemetry, `main.cpp`, `Poller.h`, `As5600.cpp`, I2C | index of the round robin | two timers of one thread | Redis through the link |
| firmware: distance, `HCSR04.cpp`, `UltraSonic.cpp` | time of the echo, two averages | interrupt, timer | a thread |
| Arduino examples, `examples/basic*` | a line buffer, two times | subscribe, publish, check lines | serial gateway |
| `web/`, configuration, unit files, scripts | none | | |

limero (threads, flows, the Redis client), hiredis, ArduinoJson, tinycbor, the
PPP class and seasocks are git submodules whose code is not in the repository.
What is modelled of them is how the gateways use them, and is marked external in
the map: a worker thread runs one handler at a time; a `ValueFlow` keeps one
value and posts an invoker to its thread; a `QueueFlow` keeps up to its depth of
values, drops what does not fit and posts an invoker for each it stored; Redis
answers the requests of one connection in order; seasocks goes through its events
in a poll, then deletes the connections that closed, and runs the functions given
to `execute` at the end of the poll.

**What is hard in it.** There is no preemption inside a gateway, but a flow with a
queue hands its values on in a *later* handler, and between the two any other may
run: the cleanup timer, another client's datagram, a lost port. Objects are
deleted while invokers or lambdas that point to them are still queued. Queues are
bounded and drop. The tty loses bytes, is hung up and comes back in the middle of a
line. A reconnect blocks the only thread. Firmware has real threads and
interrupts: a socket closed under the thread that waits on it, a ring buffer
flushed while bytes come in, a counter without a lock, times that wrap around.
`PROJECT.json` lists these places as hazards, line by line.

**What makes each part correct**

- UDP gateway: map and heap agree; a client gets what belongs to it and in order;
  requests are neither invented nor reordered; a silent client is removed, an
  active one is not.
- client map: a strict total order; found exactly if there; each client is served
  by its own proxy.
- serial gateway: one descriptor at most, watched exactly while it is open; a
  request is a line the device sent; each at most once, in order; so are answers;
  a lost port is recovered.
- framing: frames depend on the stream alone, not on how it was cut; nothing of a
  line stays for the next one.
- CRC: both versions agree; changes on the line are noticed.
- formats: what one device publishes is what another is shown, whatever the two
  formats are, unless a conversion on the way cannot keep it.
- web sockets: an answer goes to the browser that asked, in order, and to no later
  user of the same memory.
- firmware link: the station never stops trying; one socket, the one the receiver
  waits on; damage on the serial line stays local, and no reader waits for bytes
  that do not come.
- semaphores: one thread inside, and a known price for a wait that fails.
- sketch: a latency is exact and a silence bounded although the clock wraps around.

## 2. The modules

### OrderedLink, LossyFifo
The abstract promises of the two device gateways, which `Udp2Redis` and
`Serial2Redis` implement through a refinement mapping (`LinkSpec`). In both, losses
are allowed (UDP, full queues, noise), inventions and reordering are not. The UDP
gateway may hand a datagram over twice, since its one-value slot can be overwritten
before the first of two invokers ran; `OrderedLink` allows that, with the number of
the last request as its state. The serial gateway may not: `LossyFifo` keeps the
sequence of all lines that were delivered, which only grows and whose numbers are
strictly ascending, so that no line is there twice.

### Udp2Redis (`MCUdp2Redis`, `Udp2RedisProofs`)
One action per handler of the worker thread. `recvd` is the slot of `_recv`,
`work` the thread's queue of posted invokers, `clients` the map, and
`udpSource`, `idle`, `toRedis`, `fromRedis`, `atRedis` the contents of the heap
blocks proxies are allocated in; a block with `NoAddress` is free, and blocks are
reused, which is what makes a stale invoker dangerous. `Readable` is
`SessionUdp::invoke`, `SocketError` is `onError`, `RunRecv` the recv lambda
(`OnKnownClient`, `OnNewClient`), `RunToRedis`, `RunFromRedis` and `RunSend` the
flows' invokers, `Cleanup` the timer, `Tick` the clock. `RunDangling` is an
invoker of a deleted proxy: undefined behaviour, after which the process may be
dead; the properties hold up to there, and `RunEmpty` and the
ordinary actions are what the same invoker does if the block was reused.
Times saturate just above the timeout, as the code only compares with it.

### ClientMap (`MCClientMap`, `AlgorithmProofs`)
`UdpAddress::operator<` and `find`, `insert`, `erase` of the search tree it
orders. `MemcmpIsSign` tells the two kinds of C library apart. Udp2Redis finds
clients by equality; `FindIsMembership` is what justifies that.

### Framing, Deframer (`MCLine`, `FramingProofs`, `AlgorithmProofs`)
`Framing` has the two flows as operators, a fold over the bytes; `Deframer` is a
stream of lines cut into reads in every way. Its reference, `CompleteLines`, knows
nothing of a buffer: it takes a text apart by the positions of its delimiters.

### Crc16 (`MCLine`, `AlgorithmProofs`)
Both `crc16` functions, bit by bit: a word is the set of its bits. A line is
written character by character, noise changes one character or two in a row, and
`frameCrc`, `lineCrc`, `readCrc` are the CRC over bytes, the CRC over chars, and the
one of the line as read. Lost or added characters and changed CRC digits are not
modelled here.

### Flows, SerialPubSub (`MCPubSub`, `PubSubProofs`)
`Flows` has the functions of `Flows.cpp` as operators over frames, requests and
replies: `CborToRequest`, `CrlfToRequest`, `JsonToRequest`, `ResponseToCbor`,
`ResponseToCrlf`, `ResponseToJson`. A value has a type and, if it is an integer or an
object, what is in it; a text is the JSON of a value. The conversions are what they do:

- `CborToJson` is `cborToJson`: tinycbor prints each item (`ItemToJson`), integers
  through a double (`Printed`, `Rounded`: nearest, ties to even; a negative one as
  `-n - 1`), NaN as null, bytes as base64, `undefined` as a text; it fails on a map with
  a key that is no text and on what is no CBOR (`Unreadable`), and the flow then gets
  `{"error": "Failed"}` (`ErrorFrame`). If tinycbor does not escape texts
  (`TextsEscaped`; its version is not in the repository), ArduinoJson stops at a
  quotation mark, and the flow goes on with what has been read.
- `InMemory` is what ArduinoJson keeps of JSON it reads and writes again: integers
  from -2^63 to 2^64 - 1, other numbers as doubles, which are written with fewer
  digits (`About`).
- `CborValue` is the chain of overlapping tests in `responseToCbor`: `Tests` in their
  order, `Is` for `is<T>` (a float is any number), `As` for `as<T>` (an integer taken as
  a float is rounded to 24 bits); what passes none is given as its text.

A fraction has no digits in the model, and a whole CBOR float counts as the integer it is
printed as. An object's properties are scalars. The capacity of a JSON document is not
modelled.

`SerialPubSub` is the sketch `basicPubSub`
with the gateway (through `Flows`) and Redis around it: `Loop` is `loop()` with the
blinking that takes time, `HandleLine` and `HandleShortLine` are `handle_line`,
`Reset` and `GatewayRestarts` are the crashes. `millis()` is taken modulo
`ClockSize`. A line carries the time its loopback was sent as a history.

### Serial2Redis (`MCSerial2Redis`, `Serial2RedisProofs`)
The default set-up. The device may be absent, unusable (it opens, but set-up
fails) or usable; it sends numbered lines byte by byte and may go and come at any
byte. `delivered` and `shown` are the histories of all lines Redis was given and of
all answers the device was shown, in that order; `Served` is how a queue's invoker takes
a value out. `pc = "reconnect"` is the inside of `SessionSerial::reconnect`, where no other
handler runs. `Disconnect`, `ConnectFails` and `ConnectSucceeds` are the parts of
it; `ReadData`, `ReadFails`, `ReadNothing`, `OnError` are the invokers of the port;
`RunIncoming` the pipeline deframe, CRC, request; `RunOutgoing` is `Serial::txd`,
which may lose an answer or cut it; `PublishAlive` is the alive timer. Here a CRC is
taken to tell bodies apart; what it really detects is Crc16's subject. One delimiter
byte stands for the two of `"\r\n"`, which the deframer does not tell apart.

### Ws2Redis (`MCWs2Redis`, `Ws2RedisProofs`)
`phase` says where in `server.poll` the thread is. `OnConnect`, `OnData`,
`OnDisconnect` are the methods of `Handler`; `RedisAnswers` and `RedisPublishes`
the response lambda, which defers to `server.execute`; `RunExecutables` runs what
was deferred, through a pointer to a proxy that may be gone. WebSockets and
proxies live in blocks that are reused.

### Wifi, UdpFrame, UdpLink (`MCFirmware`, `MCReconnect`, `FirmwareProofs`)
`Wifi` is the station: the driver (external) scans, connects, loses and leases, and
posts events; `OnStaStart`, `OnScanDone`, `OnStaDisconnected`, `OnGotIp` and
`OnLostIp` are the cases of the two handlers. `UdpFrame` is the socket: `SetOnline`
with `CreateSocket`, `BindSocket`, `CloseSocket` in the task of the events,
`SendData` in the worker thread, `ReceiverTimer`, `WaitForData` and `RecvFrom` in
the receiver thread. Sockets are numbers that are used again, `bound` is the one
with port 9999. `UdpLink` joins them as `main.cpp` does: `connected` sets `online`
inside the handler, and the next event waits until the socket is open or closed.

### SerialLink (`MCFirmware`, `FirmwareProofs`)
The receiving side of a stuffed frame: the interrupt fills `ring` and announces
bytes in `uartEvents`; `ReadBytes`, `FlushInput` and `QueueReset` are the event
task; `RxdByte` is the state machine of `SerialFrame`; `WorkerTakes` the queue behind
it. Bytes are lost on the wire, in an overflow, or because the event queue is full.
A byte carries the number of its frame and its place in it as a history.
`DamageIsLocal` speaks of frames that fit `FRAME_MAX`: of a longer one
`SerialFrame` emits the tail.

### Sema (`MCFirmware`, `FirmwareProofs`)
`wait()` and `release()` with a step for each access to the semaphore and the
counter, on Linux, Mac and ESP32, with waits that fail and a crash.

### UltraSonic, Telemetry (`MCFirmware`, `FirmwareProofs`)
`UltraSonic` has the echo's interrupt between any two steps of the timer that reads,
averages and triggers. `Telemetry` has the two timers of the spine thread: `Poll`
asks the next source, `StartReading`, `Written`, `AngleRead` and `ReadingFails` are
a reading of the angle over I2C, which blocks the thread.

## 3. The runs

| run | bounds | shows |
|---|---|---|
| `udp_clients` | 2 clients, 2 blocks, depth 1, 1 datagram each | map and heap agree; clients are kept apart |
| `udp_order` | 1 client, 1 block, depth 2, 3 datagrams | nothing is stranded, order, the link, clean-up in the end |
| `udp_cleanup` (violation) | 1 client, 1 datagram | a client that just came is deleted |
| `client_map` | nine clients, up to 3 entries | the map works where memcmp gives -1, 0, 1 |
| `client_map_difference` (violation) | clients of one subnet | and fails where it gives differences |
| `line` | lines up to 5 bytes, maximum 1 (`>`: 2), reads up to 3; up to 4 of 5 signed characters | frames are lines or their tails, however cut; CRCs agree on ASCII, every change is noticed |
| `serial` | 2 lines, 2 answers, 2 descriptors, depth 2 | port, requests, order, link, recovery |
| `serial_plain` (violation) | 1 line without a CRC | it never reaches Redis |
| `ws` | 3 sessions of 2 requests, 2 and 2 blocks, 2 lambdas | every browser gets its own answers, in order |
| `pubsub` | clock of 12, periods 5 and 2, 2 lines each way, 21 ticks, 1 restart, 1 noise; values of each type, objects of two, limits of 16, 8 and 4 for 2^63, 2^53 and 2^24 | latencies are exact, silence is bounded, formats agree |
| `firmware` | 2 threads, 2 failed waits, 1 crash; 3 frames, ring 4, queues 2, 1 loss; 3 access points, 2 drops, 2 sockets; 8 times; 3 sources, index modulo 8 | one socket, a station that goes on, local damage, no blocked reader, exclusion, averages, turns |
| `firmware_reconnect` (violation) | 1 access point, 1 drop, 2 sockets | a response that nobody waits for |

*Why the bounds are enough.* Every hazard of the UDP gateway needs at most two
clients (one to be confused with the other) and one block to be reused; a queue
must be able to be full (depth 1 and 2) and three datagrams of one client pass the
overwritten slot, a full queue and a deleted proxy. In the serial gateway two lines
are what it takes to glue pieces together, two descriptors what it takes to
confuse one with the next. In the web socket gateway a third session meets
memory of two earlier ones. The clock of `pubsub` wraps around once within the
run, with each of the sketch's times on either side; its values have every integer
from twice the limit of 64 bits below zero to twice that above, so that each limit is met
and crossed in both directions. In the firmware three frames
are a damaged one, its neighbour and one that must be unharmed; a ring of 4 bytes
and queues of 2 overflow; two drops are a lost access point and its return; two
sockets are what it takes to leak one; `_idx` wraps around in the middle of a
round (8 is no multiple of 3). The theorems remove the bounds where they apply.

*Parts that run alone.* `line` and `firmware` hold parts that share no variable;
`pubsub` holds the sketch, and beside it values that go from one format to another.
Each behaviour picks one of them (`part`) and the others keep their initial state;
since no property speaks of two parts, interleaving them would add states and no
case. A part that does not run has none of its fair actions enabled, so fairness
asks nothing of it.

*Deadlock* is checked in `client_map` and `serial`. In Udp2Redis and Ws2Redis the
call through a deleted proxy may end the process, and the bounds end the traffic;
the line of Crc16 and the time of SerialPubSub end; in the firmware the semaphore
of a Mac may stay taken, and the peer falls silent.

*Fairness.* Udp2Redis: the clock ticks, and the thread's loop serves its work queue
and its timers (`WF` of each): it never blocks in a handler. Nothing is assumed of
clients, the network or Redis. Serial2Redis: the reconnect loop goes on, and the
thread reads a descriptor that stays readable, as a hung up one does; nothing is
assumed of the device, so `PortRecovers` only asks for something while the device is
usable. It rests on a hung-up tty giving reads of 0 bytes, which end in a reconnect: a
read that fails with nothing read only returns its error (`serial.cpp:156-159`), changes
nothing and is a stuttering step here. SerialLink: bytes on the wire arrive, the event task and the worker thread
run; nothing is assumed of the peer. UdpLink: the driver ends a scan or an attempt it
began, the event task and the receiver thread run (`WF`), and an attempt to connect
to an access point in range succeeds if it is made often enough (`SF`: each attempt
may fail, and Wifi.cpp tries for ever because of it). Nothing is assumed of access
points and of the gateway.

*Symmetry* is used in `udp_clients` and `ws` over model values that only name
memory blocks and addresses; both runs check safety only.

## 4. Findings

- `udp2redis.cpp:112`: a new proxy counts as inactive until its first datagram has
  been drained, and the 3 s timer may delete it before (`OnlyInactiveCleaned`); the
  posted invoker then runs on freed memory.
- `Udp.h:33`: `memcmp(...) == -1` is no order where memcmp returns another negative
  number; `assert(res.second)` fails with three clients of a subnet
  (`InsertSucceeds`).
- `Flows.cpp:228` against `README.MD:75`: lines without a CRC are announced as
  supported and dropped (`WholeLinesAccepted`).
- `UdpFrame.cpp:59` against `README.MD:74` "UDP with each datagram a request and
  response": a station that is associated again while the stack still keeps its
  address gets a second GOT_IP without a LOST_IP. A second socket is made, which
  cannot have the port; requests leave through it, their responses come back to it,
  and the receiver waits on the first (`ResponseIsAwaited`).

Seen in the code, with nothing in the repository that says otherwise: an angle that
could not be read is published as -180 degrees (`As5600.cpp:54`); of an object in
CBOR only the first property is published (`Flows.cpp:45`); the sketch handles a
line whose CRC it has just reported as wrong (`basicPubSub/src/main.cpp:24`), and
falls silent for good when one of its times is set to the last values of a 32 bit
clock (`Missable` in SerialPubSub); the serial gateway serves nothing while it
reconnects (`SessionSerial.cpp:62`).

## 5. The proofs

Every safety invariant, every action property and both refinements that the passing
runs check are theorems as well. Each is proved for all values of the constants that
satisfy the ASSUMEs of the modules, which the runs evaluate, too; what these ask is
what the code fixes (a queue has room for one value, byte values are below 256,
`uint64_t` is a multiple of twice `int32_t`, the sketch's periods are shorter than
half its clock). The theorems about the client map also take `MemcmpIsSign`, the
library for which the map works; for the other kind the run `client_map_difference`
shows that it does not. Each property was checked by TLC first, and the runs' mutants
show that it can fail.

**DataLemmas, FramingProofs.** Facts about sequences, counts and remainders that
several proofs need. Predicates cannot be passed to a lemma here, so the induction
principle (`Induction`) is about sets of numbers; `FoldTrace` uses it to show that a
fold of the community modules visits its elements in order. `DeframeTrace` says so of
the deframer: deframing a read is feeding it byte by byte, through deframers of
the right type.

**Udp2RedisProofs**, for any number of clients and blocks, any depth and any times.
`TypeCorrect`, `NoProxyLeaks`, `ClientsApart` and `ImplementsLink` follow from one
inductive invariant, `IInv`: types and queue bounds; the one to one correspondence of
map and heap; the owner of everything queued; and, for the link, that between the
socket and Redis the datagrams of a client are sorted, none older than the last
delivered and none newer than the one in the slot. The correspondence is needed for
the owners (a proxy that was not in the map could be given another's datagram), and
the owners for the order. That a deleted block is emptied carries it over `Cleanup`
and the reuse of the block. `NothingIsStranded` counts: each live flow has at least as
many invokers posted as values (`Covered`), and the send flow exactly as many, since
nothing can leave invokers behind in it. An invoker of a deleted proxy only adds to
the flow of the block's next one. `AnswersAreInOrder` needs one chain over three
queues (`Answering`): the last answer a client got, its answers on the way to the
socket, those in its proxy, the requests at Redis and the last request delivered
are in order. Of the send queue, which all clients share, only the client's own count
(`Going`); they stay when its proxy is deleted, which is why the chain has a form
without a proxy.

**Serial2RedisProofs**, for any lines, delimiter, frame length, depths and number of
descriptors. `PortStaysConsistent`: at most one descriptor is open, it is the one in
use, and it alone is watched. `AnswersStayInOrder`: the answers shown and those
queued follow each other in strictly ascending order, so none is shown twice either. `SerialTypes`. `RequestsStayLines` and `SerialImplementsLink`
are about bytes: each byte on its way belongs to a line that was begun
(`LineBytes`), and there are cuts (`LinesInOrder`) such that the last line delivered,
the buffer, the reads that wait and the bytes at the port follow each other in the
order of their lines. A frame may be glued of pieces of several lines, but the
CRC is one byte of one line, so that a frame with the right CRC is that line
(`FrameBytes`); and it is the newest of the pieces, newer than every line delivered before: that makes
the whole history ascend, as `LossyFifo` asks, and not only its last two entries.
The order is carried through a read byte by byte, along `DeframeTrace`.

**Ws2RedisProofs**, for any number of connections, proxies, sessions and requests.
`MapMatchesProxies` and `RepliesReachTheirOwner`: a lambda of a deleted proxy exists
only between the deletion and the end of that poll (`StaleOnlyInPoll`), a span in
which no proxy is made; that is why a reused block never sends an old answer. `WsTypes`.
`AnswersComeInOrder` rests on `Queued`: of the answers to one session, those in
`server.execute` come before those still at Redis, both in the order of their
numbers. It takes that a session has one web socket and so one proxy
(`OneSocket`), since different proxies answer in no particular order. For this
`WsAssumption` tells the number of no session from those of sessions.

**AlgorithmProofs**, the parts that only compute.
*Client map.* `LessIsTotalOrder`: with a memcmp that returns -1, 0 or 1 the order is
strict, total and transitive over all addresses and ports. So the keys stay sorted
and the tree balanced (`MapInv`), both searches end between the right neighbours
(`Searches`), and `FindsMembers` and `InsertionSucceeds` follow, for any set of
clients; the tree itself has at most three nodes (`MaxNodes`).
*CRC.* `NoiseIsNoticed`: one changed character, or two in a row, change the CRC of a
line of any length, over any characters, with signed or unsigned chars;
`BothFunctionsAgree`. A turn of the loop can be undone, because bit 15 of its
result is bit 0 of its argument, so CRCs that differ stay different while equal
characters follow. A turn is linear, so the first changed character leaves a
difference that is eight turns of the difference of two characters. Undone eight
times, no such difference has the form of two characters' difference again
(`EightTurnsOfAByte`), so the second change cannot make up for the first.
*Deframer.* `EachLineIsAFrame`, `DeframerTypes`, `FramesRoundTrip`, for any bytes,
delimiters, maximum, lines and reads. The reference is shown to grow with a text as
the deframer does (`OpenGrows`, `CompleteGrow`, `KeptGrows`), so that both agree after
each byte (`Right`); what is kept of an overlong line is arithmetic modulo the size
of the buffer.

**PubSubProofs**, for any clock and periods, any number of lines under way, and any
noise and restarts. The invariant has the types; that a line with a time on it is the
loopback of that time and of this run of the sketch (`Truth`), which gives
`LatenciesAreExact`; and that each of the sketch's times was set so many milliseconds
ahead and has not been missed (`SubDue`, `PubDue`): it is noticed in the first turn of
`loop()` that may notice it, which gives `SilenceIsBounded`. `PubSubTypes`. `ShownRight`
is proved for any limits of the numbers, with and without escaped texts: a value that a
conversion keeps is unchanged by it (`ItemKept`, `MemoryKept`, and `ObjectKept` property
by property), and the first test of the chain that holds is the one of its type
(`FirstHeld`, `ValueGiven`).

**FirmwareProofs**, one part of the firmware after the other.
*Semaphores.* `SemaExclusion`, `SemaNoFalseAlarm`, `SemaPermits`, for any finite number
of threads, failed waits and crashes, on all three platforms. `Permits` counts: the
threads inside and the value of the semaphore add up to one more than the failures. It
is inductive with the types alone; for the other two `Exact` says that, as long as no
wait failed, the one thread inside has the only permit and the counter, also as it was
loaded, follows from the place that thread is at.
*WiFi and UDP link.* `NeverStranded`: the driver works, or one queued event will make it
work; it needs what a handler consumes and the driver posts, event by event.
`NoSocketLeaks`: until `online` is set twice in a row, either no socket is open, or the
one in `_socket` is, with the port, and a receiver in `recvfrom` waits on it (`Sound`,
with a disjunct for each place the event task may be at).
*Serial link.* `ReaderNeverBlocks`: the bytes announced and those the event task is
about to read add up to no more than the ring holds (`Waiting`), for each of the
reading, flushing and resetting steps. `DamageStaysLocal` has two halves. Bytes under
way are in the order they were sent in, and of frames that are not damaged none is
missing (`Follows`); losses and overflows keep that, since they damage the frames whose
bytes they take. And what `rxdByte` keeps and has made agrees with the bytes it was
given (`Faithful`): of a frame that is not damaged, and does not follow one that is,
it holds exactly what the bytes so far stand for (`Parses` describes how the stuffed
bytes of a body are read back), and has made it once after its last flag.
*Telemetry.* `SourcesAskedInTurn`: the source asked last is that of the index before
(`AskedInTurn`), and 0 comes after the last index.
*Distance.* `AveragesMoveTowards`: an `int32_t` keeps a number modulo its size, and half
of a difference that wrapped around in 64 bits is, modulo 32 bits, half of the
difference; so the new average lies between the old one and what was read.
*All of it.* `FirmwareTypes`: the parts share no variable, so the type invariant of each,
with what its proof needs, holds of the composition that the run checks.

*Only model-checked*: liveness (`InactiveClientsCleaned`, `PortRecovers`,
`FrameArrives`, `Reassociates`, `DatagramHeard`), as fairness and ENABLED are out of
this prover's reach; and the four properties that the code violates, which are not
theorems.

## 6. Not modelled, and the plan

Configuration, deployment, the web page and generated files are not modelled:
they have no behaviour of their own. Neither is what depends on code that is not
in the repository (the PPP set-ups of the serial gateway and of `basicPubSubPPP`),
what is compiled out of the firmware (Neo6m, the current sensor), and register
access (SPI, ADC, digital pins). `UltraSonic` is commented out of the firmware's
`main.cpp`, too (lines 106-109 and 201-202); its class is complete, and is modelled as it
would run there. `getMillimeters` converts a float to `uint32_t`, which is undefined
out of range; the model wraps there, and no plausible time of an echo is affected.
An error of `esp_wifi_connect` is ignored and one of `esp_wifi_scan_start` only logged
(`Wifi.cpp:93` and 152); both are left out: in the model the driver always begins what
it is asked for. The alive message of the web socket gateway is
left out: it is a publish on a Redis connection of its own.

Next would be what is bounded in the models themselves: a client map of any size,
which needs a search tree of any depth in place of the three nodes, and a CRC of
lines that lose or gain characters.
