----------------------------- MODULE LossyFifo -----------------------------
(***************************************************************************)
(* What the serial gateway promises between the device and Redis: the lines*)
(* that are delivered are some of those that were sent, in their order, and*)
(* none of them twice.  Unlike OrderedLink, a line is never handed over    *)
(* again: the history has every line that was delivered, and only grows.   *)
(***************************************************************************)
EXTENDS Naturals, SequencesExt

VARIABLES sent,       \* how many lines were sent
          delivered   \* the numbers of the lines delivered, in the order they were

vars == <<sent, delivered>>

Ascending(s) == \A i, j \in 1 .. Len(s) : i < j => s[i] < s[j]

Init == sent = 0 /\ delivered = << >>

Send ==
  /\ sent' = sent + 1
  /\ UNCHANGED delivered

\* Lines sent since the last one that was delivered; those left out are lost.
Deliver ==
  /\ IsPrefix(delivered, delivered')
  /\ Ascending(delivered')
  /\ ToSet(delivered') \subseteq 1 .. sent
  /\ UNCHANGED sent

Next == Send \/ Deliver

Spec == Init /\ [][Next]_vars
=============================================================================
