------------------------------- MODULE Framing -------------------------------
(***************************************************************************)
(* Lines on a serial port: src/Framing.cpp.  The deframer cuts the bytes   *)
(* of a port into frames at any of its delimiter characters; the framer    *)
(* appends the whole delimiter string to a frame.                          *)
(***************************************************************************)
EXTENDS Naturals, Sequences, SequencesExt

CONSTANTS
  Delimiter,       \* _delimiter, the string "\r\n" as a sequence of bytes
  MaxFrameLength   \* _maxFrameLength (10000)

ASSUME FramingAssumption ==
  /\ Delimiter \in Seq(ToSet(Delimiter)) /\ Delimiter # << >>
  /\ MaxFrameLength \in Nat

Delimits(c) == c \in ToSet(Delimiter)

-----------------------------------------------------------------------------
(* Deframer::on.  A deframer d is its _buffer, with the frames emitted     *)
(* since the handler began.                                                *)

\* Mistakes: a byte that does not fit is dropped rather than the buffer; the buffer
\* is not cleared after it was emitted.
StoreOrDrop(buffer, c) ==
  IF Len(buffer) > MaxFrameLength THEN buffer ELSE Append(buffer, c)
EndWithoutClear(d) ==
  IF d.buffer = << >> THEN d ELSE [d EXCEPT !.frames = Append(@, d.buffer)]

\* A byte of a frame: a buffer that is longer than the maximum is cleared first.
Store(buffer, c) ==
  IF Len(buffer) > MaxFrameLength THEN <<c>> ELSE Append(buffer, c)

\* A delimiter: what is buffered, if anything, is a frame.
End(d) ==
  IF d.buffer = << >> THEN d
  ELSE [buffer |-> << >>, frames |-> Append(d.frames, d.buffer)]

Feed(d, c) ==
  IF Delimits(c) THEN End(d) ELSE [d EXCEPT !.buffer = Store(@, c)]

\* The loop over the bytes of one read.
Deframe(buffer, in) == FoldLeft(Feed, [buffer |-> buffer, frames |-> << >>], in)

\* A mistake: the delimiter goes before the frame only.
FrameInFront(in) == Delimiter \o in

\* The frame lambda.
Frame(in) == in \o Delimiter
=============================================================================
