------------------------------- MODULE Crc16 -------------------------------
(***************************************************************************)
(* The CRC of a serial line, src/Flows.cpp: crc16(Bytes), which the gateway*)
(* appends to the lines it writes, and crc16(String), with which it checks *)
(* the lines it reads and which the firmware of examples/basicPubSub uses  *)
(* for both.                                                               *)
(*                                                                         *)
(* A line is written character by character; noise may change one of them  *)
(* or two in a row on the way.  The four hex digits of the CRC stand for   *)
(* the word they print.                                                    *)
(***************************************************************************)
EXTENDS Naturals

CONSTANTS
  Chars,         \* the characters of a line, each the set of its bits
  CharIsSigned,  \* char is signed (on x86; on ARM and ESP32 it is not)
  MaxLength      \* bound: characters of a line

ASSUME CrcAssumption ==
  /\ Chars \subseteq SUBSET (0 .. 7)
  /\ CharIsSigned \in BOOLEAN
  /\ MaxLength \in Nat

VARIABLES
  length,    \* characters written so far
  ascii,     \* none of them has bit 7
  frameCrc,  \* crc16(Bytes) of the line as it was written
  lineCrc,   \* crc16(String) of the line as it was written
  readCrc,   \* crc16(String) of the line as it was read
  damage     \* "none", "fresh" if only the last character was changed, "old"

crcVars == <<length, ascii, frameCrc, lineCrc, readCrc, damage>>

-----------------------------------------------------------------------------
(* A uint16_t is the set of its bits that are 1.                           *)

Word == SUBSET (0 .. 15)
Xor(a, b) == (a \ b) \cup (b \ a)

\* A mistake: crc << 1, in an int.
ShiftLeft(w) == {i + 1 : i \in w}

\* crc >> 1
ShiftRight(w) == {i \in 0 .. 14 : i + 1 \in w}

\* 0xA001
Poly == {0, 13, 15}

\* A mistake: the bit that is shifted out is not fed back.
NoFeedback(w) == ShiftRight(w)

\* One turn of the inner loop.
BitStep(w) == IF 0 \in w THEN Xor(ShiftRight(w), Poly) ELSE ShiftRight(w)

\* The inner loop, its eight turns doubled up.
Twice(w)  == BitStep(BitStep(w))
FourTimes(w)  == Twice(Twice(w))
EightTimes(w) == FourTimes(FourTimes(w))

\* data[i] of a String, a char, is extended to an int by its sign, if it has one.
Promoted(c) == IF CharIsSigned /\ 7 \in c THEN c \cup 8 .. 15 ELSE c

\* A mistake: only seven turns.
SevenTurns(crc, c) == BitStep(Twice(FourTimes(Xor(crc, c))))

\* One turn of the outer loop of crc16(Bytes) and of crc16(String).
BytesStep(crc, c)  == EightTimes(Xor(crc, c))
StringStep(crc, c) == EightTimes(Xor(crc, Promoted(c)))

-----------------------------------------------------------------------------
CrcInit ==
  /\ length = 0
  /\ ascii = TRUE
  /\ frameCrc = 0 .. 15 /\ lineCrc = 0 .. 15 /\ readCrc = 0 .. 15
  /\ damage = "none"

\* The character c is written and d is read.
Transfer(c, d) ==
  /\ length < MaxLength
  /\ length' = length + 1
  /\ ascii' = (ascii /\ 7 \notin c)
  /\ frameCrc' = BytesStep(frameCrc, c)
  /\ lineCrc' = StringStep(lineCrc, c)
  /\ readCrc' = StringStep(readCrc, d)

Arrives(c) ==
  /\ Transfer(c, c)
  /\ damage' = IF damage = "none" THEN "none" ELSE "old"

\* The first character that noise changes, or the one right after it.
Changes(c, d) ==
  /\ c # d
  /\ damage \in {"none", "fresh"}
  /\ Transfer(c, d)
  /\ damage' = IF damage = "none" THEN "fresh" ELSE "old"

CrcNext == \E c, d \in Chars : Arrives(c) \/ Changes(c, d)

CrcSpec == CrcInit /\ [][CrcNext]_crcVars

-----------------------------------------------------------------------------
(* Properties.                                                             *)

\* Every CRC has 16 bits.
CrcTypeOK ==
  /\ length \in 0 .. MaxLength
  /\ ascii \in BOOLEAN
  /\ frameCrc \in Word /\ lineCrc \in Word /\ readCrc \in Word
  /\ damage \in {"none", "fresh", "old"}

\* The two functions of Flows.cpp agree on ASCII text, so that the CRC the gateway
\* appends with the one is the CRC that firmware compares with the other.  (They
\* differ on bytes above 127 where a char is signed.)
CrcsAgree == ascii => frameCrc = lineCrc

\* A line in which one character or two in a row were changed is never accepted:
\* whatever follows, the CRC of what was read differs from the one sent.
DamageDetected == damage # "none" => readCrc # lineCrc
=============================================================================
