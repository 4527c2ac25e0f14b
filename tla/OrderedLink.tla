---------------------------- MODULE OrderedLink ----------------------------
(***************************************************************************)
(* What the UDP gateway promises between its clients and Redis: the        *)
(* requests of one client reach Redis in the order in which the gateway    *)
(* read them.  Requests may be lost (queues are bounded) and may be handed *)
(* over twice (a value slot is overwritten before its invoker ran), but    *)
(* none is invented and none overtakes an earlier one.                     *)
(*                                                                         *)
(* Requests of a source are numbered in the order they are read.           *)
(***************************************************************************)
EXTENDS Naturals

CONSTANT Sources

VARIABLES sent,       \* sent[a]: how many requests of a were read so far
          delivered   \* delivered[a]: number of the last one Redis was given

vars == <<sent, delivered>>

Init ==
  /\ sent = [a \in Sources |-> 0]
  /\ delivered = [a \in Sources |-> 0]

Read(a) ==
  /\ sent' = [sent EXCEPT ![a] = @ + 1]
  /\ UNCHANGED delivered

\* Some request between the last one delivered (again) and the newest one.
Deliver(a) ==
  \E n \in delivered[a] .. sent[a] :
     /\ n > 0
     /\ delivered' = [delivered EXCEPT ![a] = n]
     /\ UNCHANGED sent

Next == \E a \in Sources : Read(a) \/ Deliver(a)

Spec == Init /\ [][Next]_vars
=============================================================================
