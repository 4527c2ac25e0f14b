------------------------------ MODULE Deframer ------------------------------
(***************************************************************************)
(* A Deframer that is given the bytes of a port in reads of any size, as   *)
(* SessionSerial::onRead hands them over, compared with the lines the      *)
(* sender wrote.                                                           *)
(***************************************************************************)
EXTENDS Framing

CONSTANTS
  Bytes,     \* the bytes a sender uses, delimiters among them
  MaxRead,   \* bound: bytes in one read
  MaxLine    \* bound: bytes of a line

ASSUME DeframerAssumption == MaxRead \in Nat /\ MaxLine \in Nat

VARIABLES
  buffer,    \* Deframer::_buffer
  frames,    \* the frames the last read made it emit
  line,      \* history: what was sent since the last delimiter
  lines      \* history: the lines the last read completed

deframerVars == <<buffer, frames, line, lines>>

-----------------------------------------------------------------------------
(* The reference: lines of a text, by the positions of its delimiters.     *)

Ends(text) == {i \in 1 .. Len(text) : Delimits(text[i])}
LineStart(text, i) ==
  LET before == {j \in Ends(text) : j < i} IN
  IF before = {} THEN 1 ELSE 1 + Max(before)
LineAt(text, i) == SubSeq(text, LineStart(text, i), i - 1)

\* Where the non-empty lines of a text end, and the k-th of these places.
LineEnds(text) == {i \in Ends(text) : LineAt(text, i) # << >>}
Ranked(E, k) == {i \in E : Cardinality({j \in E : j <= i}) = k}
Nth(E, k) == CHOOSE i \in Ranked(E, k) : TRUE

\* The non-empty lines of a text that are complete, and what follows the last.
CompleteLines(text) ==
  [k \in 1 .. Cardinality(LineEnds(text)) |-> LineAt(text, Nth(LineEnds(text), k))]
OpenLine(text) == LineAt(text, Len(text) + 1)

\* What a deframer keeps of a line: all of it up to MaxFrameLength + 1 bytes, and
\* of a longer one the bytes after the last time it overflowed.
Room == MaxFrameLength + 1
Kept(l) ==
  IF l = << >> THEN << >>
  ELSE SubSeq(l, Len(l) - ((Len(l) - 1) % Room), Len(l))

-----------------------------------------------------------------------------
DeframerInit ==
  /\ buffer = << >>
  /\ frames = << >>
  /\ line = << >>
  /\ lines = << >>

\* Deframer::on
On(in) ==
  LET d    == Deframe(buffer, in)
      text == line \o in
  IN
  /\ buffer' = d.buffer
  /\ frames' = d.frames
  /\ line' = OpenLine(text)
  /\ lines' = CompleteLines(text)

DeframerNext ==
  \E in \in BoundedSeq(Bytes, MaxRead) :
    Len(OpenLine(line \o in)) <= MaxLine /\ On(in)

DeframerSpec == DeframerInit /\ [][DeframerNext]_deframerVars

-----------------------------------------------------------------------------
(* Properties.                                                             *)

\* The buffer and the frames hold no delimiter, no frame is empty, and none
\* exceeds MaxFrameLength by more than the one byte the overflow test lets pass.
DeframerTypeOK ==
  /\ Len(buffer) <= Room
  /\ \A i \in 1 .. Len(buffer) : ~Delimits(buffer[i])
  /\ \A k \in 1 .. Len(frames) :
       /\ Len(frames[k]) \in 1 .. Room
       /\ \A i \in 1 .. Len(frames[k]) : ~Delimits(frames[k][i])

\* However the reads cut the text, each line gives one frame, in order: the line
\* itself if it fits, and otherwise its tail.
FramesAreLines == frames = [k \in 1 .. Len(lines) |-> Kept(lines[k])]

\* A frame that is sent is received as it was: the framer undoes the deframer.
RoundTrip ==
  \A l \in BoundedSeq({b \in Bytes : ~Delimits(b)}, Room) :
    l # << >> => Deframe(<< >>, Frame(l)) = [buffer |-> << >>, frames |-> <<l>>]
=============================================================================
