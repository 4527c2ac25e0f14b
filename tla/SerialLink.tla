----------------------------- MODULE SerialLink -----------------------------
(***************************************************************************)
(* The serial link of the firmware, receiving: the event task of a UART    *)
(* (class UART_ESP32 of examples/espUdp/components/limero/Hardware.cpp) and*)
(* the byte-stuffed frames it carries (components/spine/SerialFrame.cpp).  *)
(*                                                                         *)
(* The interrupt handler of the driver stores the bytes that arrive in a   *)
(* ring buffer and announces their number in a queue of events; the event  *)
(* task reads as many as were announced, and waits for them however long   *)
(* it takes.  Whole frames go through a queue to the worker thread.  The   *)
(* peer sends numbered frames, none of them empty; a byte of the model     *)
(* carries the number of its frame and its place there.                    *)
(***************************************************************************)
EXTENDS Integers, SequencesExt

CONSTANTS
  Bodies,      \* what a frame may hold, a sequence of bytes each
  FRAME_MAX,   \* 128
  RingSize,    \* RX_BUF_SIZE (1024)
  EventDepth,  \* depth of the event queue (20)
  FrameDepth,  \* depth of rxdFrame (5)
  MaxChunk,    \* bound: bytes announced together
  MaxFrames,   \* bound: frames the peer sends
  MaxLosses    \* bound: bytes or chunks lost before they are stored

ASSUME SerialLinkAssumption ==
  /\ Bodies \subseteq Seq(0 .. 255) \ {<< >>}
  /\ {FRAME_MAX, RingSize, EventDepth, FrameDepth, MaxChunk} \subseteq Nat \ {0}
  /\ MaxFrames \in Nat /\ MaxLosses \in Nat

VARIABLES
  bodies,     \* what the peer has sent, one body per frame
  wire,       \* bytes on their way
  ring,       \* bytes in the ring buffer
  uartEvents, \* the event queue
  task,       \* what the event task does: "wait", "read", "flush" or "reset"
  size,       \* event.size
  frameRxd,   \* _frameRxd
  escFlag,
  rxdFrame,   \* queue of frames for the worker thread
  emitted,    \* history: the frames made, with the number of the flag that ended each
  last,       \* history: the last byte given to rxdByte
  damaged,    \* history: numbers of the frames that lost bytes
  dropped,    \* history: rxdFrame was full
  losses,     \* history: bytes and chunks lost
  handled     \* history: numbers of the frames the worker has seen

framing == <<frameRxd, escFlag, emitted, last>>
serialLinkVars == <<bodies, wire, ring, uartEvents, task, size, framing, rxdFrame,
                    damaged, dropped, losses, handled>>

-----------------------------------------------------------------------------
(* Frames.                                                                 *)

PPP_MASK_CHAR == 32
PPP_ESC_CHAR  == 125
PPP_FLAG_CHAR == 126

\* c ^ PPP_MASK_CHAR
Masked(c) == IF (c \div PPP_MASK_CHAR) % 2 = 1 THEN c - PPP_MASK_CHAR
                                               ELSE c + PPP_MASK_CHAR

\* addEscaped
Escaped(c) == IF c \in {PPP_ESC_CHAR, PPP_FLAG_CHAR}
              THEN <<PPP_ESC_CHAR, Masked(c)>> ELSE <<c>>

\* frame
Stuffed(body) ==
  <<PPP_FLAG_CHAR>> \o FlattenSeq([i \in 1 .. Len(body) |-> Escaped(body[i])])
    \o <<PPP_FLAG_CHAR>>

\* The wire form of the n-th frame.
WireFrame(n, body) ==
  [i \in 1 .. Len(Stuffed(body)) |->
     [c |-> Stuffed(body)[i], n |-> n, at |-> i, end |-> i = Len(Stuffed(body))]]

\* What rxdByte keeps, and the frames it has made so far.
Receiver == [rxd |-> frameRxd, esc |-> escFlag, out |-> emitted]

\* A mistake: the buffer is not cleared after a frame.
RxdFlagKeeps(r, b) ==
  [r EXCEPT !.out = IF r.rxd # << >> THEN Append(@, [n |-> b.n, body |-> r.rxd]) ELSE @]

\* A mistake: a frame of one byte is taken for none.
RxdFlagLong(r, b) ==
  [r EXCEPT !.out = IF Len(r.rxd) > 1 THEN Append(@, [n |-> b.n, body |-> r.rxd]) ELSE @,
            !.rxd = << >>]

\* rxdByte on a flag: a frame that is not empty is complete.
RxdFlag(r, b) ==
  [r EXCEPT !.out = IF r.rxd # << >> THEN Append(@, [n |-> b.n, body |-> r.rxd]) ELSE @,
            !.rxd = << >>]

\* rxdByte on another byte than a flag and an escape.
RxdData(r, b) ==
  CASE r.esc -> [r EXCEPT !.rxd = Append(@, Masked(b.c)), !.esc = FALSE]
    [] ~r.esc /\ Len(r.rxd) < FRAME_MAX -> [r EXCEPT !.rxd = Append(@, b.c)]
    [] ~r.esc /\ Len(r.rxd) >= FRAME_MAX -> [r EXCEPT !.rxd = << >>]

\* rxdByte
RxdByte(r, b) ==
  CASE b.c = PPP_ESC_CHAR  -> [r EXCEPT !.esc = TRUE]
    [] b.c = PPP_FLAG_CHAR -> RxdFlag(r, b)
    [] OTHER               -> RxdData(r, b)

\* onRxd, over hasData and read
OnRxd(r, bytes) == FoldLeft(RxdByte, r, bytes)

-----------------------------------------------------------------------------
SerialLinkInit ==
  /\ bodies = << >> /\ wire = << >> /\ ring = << >> /\ uartEvents = << >>
  /\ task = "wait" /\ size = 0
  /\ frameRxd = << >> /\ escFlag = FALSE /\ rxdFrame = << >>
  /\ emitted = << >> /\ last = [c |-> PPP_FLAG_CHAR, n |-> 0, at |-> 1, end |-> TRUE]
  /\ damaged = {} /\ dropped = FALSE /\ losses = 0 /\ handled = {}

\* The peer sends a frame.
PeerSends ==
  /\ Len(bodies) < MaxFrames
  /\ wire = << >>
  /\ \E body \in Bodies :
       /\ bodies' = Append(bodies, body)
       /\ wire' = WireFrame(Len(bodies) + 1, body)
  /\ UNCHANGED <<ring, uartEvents, task, size, framing, rxdFrame, damaged, dropped,
                 losses, handled>>

Numbers(bytes) == {bytes[i].n : i \in 1 .. Len(bytes)}

\* A mistake: the queue has no bound.
PostedUnbounded(e) == Append(uartEvents, e)

\* xQueueSendFromISR: an event that finds the queue full is lost.
Posted(e) == IF Len(uartEvents) < EventDepth THEN Append(uartEvents, e) ELSE uartEvents

\* The interrupt handler stores bytes and announces them.
BytesArrive(k) ==
  /\ Len(wire) >= k /\ Len(ring) + k <= RingSize
  /\ ring' = ring \o SubSeq(wire, 1, k)
  /\ uartEvents' = Posted(k)
  /\ wire' = SubSeq(wire, k + 1, Len(wire))
  /\ UNCHANGED <<bodies, task, size, framing, rxdFrame, damaged, dropped, losses,
                 handled>>

\* A byte is lost on the wire.
WireLoses ==
  /\ wire # << >> /\ losses < MaxLosses
  /\ losses' = losses + 1
  /\ damaged' = damaged \cup {Head(wire).n}
  /\ wire' = Tail(wire)
  /\ UNCHANGED <<bodies, ring, uartEvents, task, size, framing, rxdFrame, dropped,
                 handled>>

\* The bytes find no room in the fifo or in the ring: they are lost and
\* UART_FIFO_OVF or UART_BUFFER_FULL, here 0, is announced.
BytesOverflow(k) ==
  /\ Len(wire) >= k /\ losses < MaxLosses
  /\ losses' = losses + 1
  /\ damaged' = damaged \cup Numbers(SubSeq(wire, 1, k))
  /\ uartEvents' = Posted(0)
  /\ wire' = SubSeq(wire, k + 1, Len(wire))
  /\ UNCHANGED <<bodies, ring, task, size, framing, rxdFrame, dropped, handled>>

-----------------------------------------------------------------------------
(* event_task.                                                             *)

\* A mistake: the queue is emptied before the ring.
EventResetFirst == [data |-> "read", full |-> "reset", flush |-> "wait", reset |-> "flush"]

\* The order in which the task handles an event.
EventSteps == [data |-> "read", full |-> "flush", flush |-> "reset", reset |-> "wait"]

\* xQueueReceive
NextEvent ==
  /\ task = "wait"
  /\ uartEvents # << >>
  /\ uartEvents' = Tail(uartEvents)
  /\ size' = Head(uartEvents)
  /\ task' = IF Head(uartEvents) > 0 THEN EventSteps.data ELSE EventSteps.full
  /\ UNCHANGED <<bodies, wire, ring, framing, rxdFrame, damaged, dropped, losses,
                 handled>>

\* UART_DATA: uart_read_bytes waits for size bytes; onRxd gives them to rxdByte one
\* by one, and the frames they complete to rxdFrame.
ReadBytes ==
  /\ task = "read"
  /\ Len(ring) >= size
  /\ LET r     == OnRxd(Receiver, SubSeq(ring, 1, size))
         fresh == SubSeq(r.out, Len(emitted) + 1, Len(r.out))
         room  == FrameDepth - Len(rxdFrame)
     IN
     /\ frameRxd' = r.rxd /\ escFlag' = r.esc /\ emitted' = r.out
     /\ rxdFrame' = rxdFrame \o SubSeq(fresh, 1, IF Len(fresh) < room THEN Len(fresh) ELSE room)
     /\ dropped' = (dropped \/ Len(fresh) > room)
  /\ last' = ring[size]
  /\ ring' = SubSeq(ring, size + 1, Len(ring))
  /\ task' = "wait" /\ size' = 0
  /\ UNCHANGED <<bodies, wire, uartEvents, damaged, losses, handled>>

\* uart_flush_input
FlushInput ==
  /\ task = "flush"
  /\ damaged' = damaged \cup Numbers(ring)
  /\ ring' = << >>
  /\ task' = EventSteps.flush
  /\ UNCHANGED <<bodies, wire, uartEvents, size, framing, rxdFrame, dropped, losses,
                 handled>>

\* xQueueReset
QueueReset ==
  /\ task = "reset"
  /\ uartEvents' = << >>
  /\ task' = EventSteps.reset
  /\ UNCHANGED <<bodies, wire, ring, size, framing, rxdFrame, damaged, dropped,
                 losses, handled>>

\* Other events are only logged.
EventTask == NextEvent \/ ReadBytes \/ FlushInput \/ QueueReset

\* The worker thread takes a frame from rxdFrame.
WorkerTakes ==
  /\ rxdFrame # << >>
  /\ rxdFrame' = Tail(rxdFrame)
  /\ handled' = handled \cup {Head(rxdFrame).n}
  /\ UNCHANGED <<bodies, wire, ring, uartEvents, task, size, framing, damaged, dropped,
                 losses>>

SerialLinkNext ==
  \/ PeerSends \/ WireLoses
  \/ \E k \in 1 .. MaxChunk : BytesArrive(k) \/ BytesOverflow(k)
  \/ EventTask \/ WorkerTakes

\* The interrupt handler and the two tasks run; nothing is assumed of the peer.
SerialLinkFairness ==
  /\ WF_serialLinkVars(\E k \in 1 .. MaxChunk : BytesArrive(k))
  /\ WF_serialLinkVars(EventTask)
  /\ WF_serialLinkVars(WorkerTakes)

SerialLinkSpec ==
  SerialLinkInit /\ [][SerialLinkNext]_serialLinkVars /\ SerialLinkFairness

-----------------------------------------------------------------------------
(* Properties.                                                             *)

Announced == FoldLeft(LAMBDA a, b : a + b, 0, uartEvents)

\* Every variable has its type, and no buffer exceeds its limit.
SerialLinkTypeOK ==
  /\ bodies \in Seq(Bodies) /\ Len(bodies) <= MaxFrames
  /\ Len(ring) <= RingSize
  /\ Len(uartEvents) <= EventDepth /\ \A i \in 1 .. Len(uartEvents) : uartEvents[i] \in 0 .. MaxChunk
  /\ task \in {"wait", "read", "flush", "reset"} /\ size \in 0 .. MaxChunk
  /\ escFlag \in BOOLEAN /\ dropped \in BOOLEAN
  /\ Len(rxdFrame) <= FrameDepth
  /\ damaged \subseteq 1 .. MaxFrames /\ handled \subseteq 1 .. MaxFrames
  /\ losses \in 0 .. MaxLosses

\* The event task never waits for bytes that may not come: whatever was flushed,
\* reset, or lost from the event queue, the ring holds what is announced.
ReadNeverBlocks == task \in {"wait", "read"} => size + Announced <= Len(ring)

\* Frames whose last byte rxdByte was given.
Received == {n \in 1 .. Len(bodies) : n < last.n \/ (n = last.n /\ last.end)}

\* Lost bytes damage the frame they belonged to and the next one, no more: every
\* other frame that is not too long comes out once and as it was sent, even when an
\* escape that lost its byte leaves escFlag set.
DamageIsLocal ==
  \A n \in Received :
    {n - 1, n} \cap damaged = {} /\ Len(bodies[n]) <= FRAME_MAX =>
      \E i \in 1 .. Len(emitted) :
        /\ emitted[i] = [n |-> n, body |-> bodies[n]]
        /\ \A j \in 1 .. Len(emitted) : emitted[j].n = n => j = i

\* Bytes the ring holds though no event announces them: they wait for the next
\* bytes, and the frame they end with them.
Orphans == Len(ring) - Announced - size

\* When the peer falls silent the worker has seen all its frames in the end, unless
\* bytes or frames were lost or an announcement was.
FrameArrives ==
  <>[](handled = 1 .. Len(bodies) \/ damaged # {} \/ dropped \/ Orphans > 0)
=============================================================================
