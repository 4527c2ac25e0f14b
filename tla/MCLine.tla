------------------------------- MODULE MCLine -------------------------------
(***************************************************************************)
(* A small instance for TLC of the two parts a serial line has: its bytes  *)
(* (Deframer) and its CRC (Crc16).  They share no state, so no property of *)
(* one depends on what the other does meanwhile, and it is enough to let   *)
(* one of them run alone in each behaviour.                                *)
(***************************************************************************)
EXTENDS Deframer, Crc16

CONSTANTS cr, lf

VARIABLE part

CrLf == <<cr, lf>>

\* 'A', 'a', '{', 0x80 and 0xFF.
MCChars == {{0, 6}, {0, 5, 6}, {0, 1, 3, 4, 5, 6}, {7}, 0 .. 7}

MCInit ==
  /\ DeframerInit
  /\ CrcInit
  /\ part \in {"deframer", "crc"}

MCNext ==
  /\ UNCHANGED part
  /\ \/ part = "deframer" /\ DeframerNext /\ UNCHANGED crcVars
     \/ part = "crc" /\ CrcNext /\ UNCHANGED deframerVars

MCSpec == MCInit /\ [][MCNext]_<<deframerVars, crcVars, part>>
=============================================================================
