--------------------------- MODULE MCSerial2Redis ---------------------------
(* Small instances of Serial2Redis for TLC. *)
EXTENDS Serial2Redis

\* One delimiter character for the two of "\r\n": the deframer treats them alike.
MCDelimiter == <<[kind |-> "lf"]>>
=============================================================================
