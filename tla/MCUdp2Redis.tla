---------------------------- MODULE MCUdp2Redis ----------------------------
(* Small instances of Udp2Redis for TLC. *)
EXTENDS Udp2Redis, TLC

Symmetry == Permutations(Addresses) \cup Permutations(Proxies)
=============================================================================
