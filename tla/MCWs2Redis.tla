----------------------------- MODULE MCWs2Redis -----------------------------
(* Small instances of Ws2Redis for TLC. *)
EXTENDS Ws2Redis, TLC

Symmetry == Permutations(Conns) \cup Permutations(Proxies)
=============================================================================
