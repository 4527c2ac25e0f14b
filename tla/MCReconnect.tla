---------------------------- MODULE MCReconnect -----------------------------
(* A small instance of UdpLink for TLC: one access point. *)
EXTENDS UdpLink

MCRssi == [a \in APs |-> -50]
=============================================================================
