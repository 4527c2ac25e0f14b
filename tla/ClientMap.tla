----------------------------- MODULE ClientMap -----------------------------
(***************************************************************************)
(* The map of clients of src/udp2redis.cpp, std::map<UdpAddress,           *)
(* RedisProxy *>, over the order UdpAddress::operator< of src/Udp.h.       *)
(*                                                                         *)
(* The order is written as                                                 *)
(*     int rc = memcmp(&other.ip, &ip, sizeof ip);                         *)
(*     if (rc) return rc == -1;                                            *)
(*     return other.port < port;                                           *)
(* while C only fixes the SIGN of memcmp.  MemcmpIsSign says which of two  *)
(* kinds of library the gateway runs on: one that returns -1, 0 or 1, or   *)
(* one that returns the difference of the first bytes that differ.         *)
(*                                                                         *)
(* Module Udp2Redis finds clients by equality of their addresses.  This    *)
(* module says when it may.                                                *)
(***************************************************************************)
EXTENDS Integers, Sequences, SequencesExt

CONSTANTS
  Clients,       \* the UdpAddress values that send datagrams
  MaxByte,       \* the largest byte (255)
  MemcmpIsSign   \* TRUE: memcmp returns -1, 0 or 1

IpBytes == 1 .. 4
Ips == [IpBytes -> 0 .. MaxByte]
UdpAddresses == [ip : Ips, port : Nat]

ASSUME ClientsAssumption ==
  /\ MaxByte \in Nat
  /\ Clients \subseteq UdpAddresses
  /\ MemcmpIsSign \in BOOLEAN

MaxNodes == 3   \* bound: entries in the map, see RootAfterInsert

VARIABLES
  keys,     \* the keys of the map in the order of its iteration
  root,     \* index in keys of the root of its search tree, 0 if empty
  inserted  \* res.second of the last clients.insert

vars == <<keys, root, inserted>>

-----------------------------------------------------------------------------
(* The order.                                                              *)

Sign(d) == IF d < 0 THEN -1 ELSE IF d > 0 THEN 1 ELSE 0

\* The library that returns the difference of the bytes, whatever MemcmpIsSign.
MemcmpDifference(x, y) ==
  IF x = y THEN 0
  ELSE LET k == CHOOSE k \in IpBytes :
                  x[k] # y[k] /\ \A j \in 1 .. k - 1 : x[j] = y[j]
       IN x[k] - y[k]

\* memcmp of two IP addresses: decided by the first byte that differs.
Memcmp(x, y) ==
  IF x = y THEN 0
  ELSE LET k == CHOOSE k \in IpBytes :
                  x[k] # y[k] /\ \A j \in 1 .. k - 1 : x[j] = y[j]
       IN IF MemcmpIsSign THEN Sign(x[k] - y[k]) ELSE x[k] - y[k]

\* A mistake: <= for <.
LessOrEqual(a, b) ==
  LET rc == Memcmp(b.ip, a.ip) IN
  IF rc # 0 THEN rc = -1 ELSE b.port <= a.port

\* a < b: UdpAddress::operator< of a, with b as its argument.
Less(a, b) ==
  LET rc == Memcmp(b.ip, a.ip) IN
  IF rc # 0 THEN rc = -1 ELSE b.port < a.port

-----------------------------------------------------------------------------
(* The search tree of std::map with at most three nodes, which is then     *)
(* balanced: a root and at most one child on each side.  Both searches     *)
(* compare the key with the root and then with the child on the side that  *)
(* comparison chose.                                                       *)

Below(k) == IF Less(k, keys[root]) THEN root - 1 ELSE root + 1
HasChild(k) == Below(k) \in 1 .. Len(keys)

\* lower_bound: the last node of the search path that is not less than k;
\* 0 stands for end().
LowerBound(k) ==
  IF keys = << >> THEN 0
  ELSE LET child == IF Less(keys[root], k) THEN root + 1 ELSE root - 1
           best  == IF Less(keys[root], k) THEN 0 ELSE root
       IN IF child \in 1 .. Len(keys) /\ ~Less(keys[child], k)
          THEN child ELSE best

\* clients.find: the lower bound, unless k is less than it.
Find(k) ==
  LET i == LowerBound(k) IN
  IF i # 0 /\ ~Less(k, keys[i]) THEN i ELSE 0

\* Where clients.insert descends to: the new node goes before keys[Place(k)].
Place(k) ==
  IF keys = << >> THEN 1
  ELSE IF HasChild(k)
       THEN IF Less(k, keys[Below(k)]) THEN Below(k) ELSE Below(k) + 1
       ELSE IF Less(k, keys[root]) THEN root ELSE root + 1

\* The new node is rejected as a duplicate unless its predecessor is less.
Fresh(k) == Place(k) = 1 \/ Less(keys[Place(k) - 1], k)

\* The root after inserting at place i, or erasing at place i: three nodes are
\* balanced around the middle one; a root that is erased is replaced by its
\* successor or, if it has none, by its left child.
RootAfterInsert(i) ==
  IF Len(keys) = 2 THEN 2 ELSE IF keys # << >> /\ i <= root THEN root + 1
  ELSE IF keys = << >> THEN 1 ELSE root
RootAfterErase(i) ==
  IF Len(keys) = 1 THEN 0
  ELSE IF i < root THEN root - 1
  ELSE IF i = root /\ root = Len(keys) THEN root - 1
  ELSE root

-----------------------------------------------------------------------------
Init ==
  /\ keys = << >>
  /\ root = 0
  /\ inserted = TRUE

\* Of a client that is found nothing changes here.  A datagram of one that is not: a proxy that answers to it is made
\* and inserted, and assert(res.second).
New(a) ==
  /\ Find(a) = 0
  /\ Len(keys) < MaxNodes
  /\ inserted' = Fresh(a)
  /\ IF Fresh(a)
     THEN /\ keys' = InsertAt(keys, Place(a), a)
          /\ root' = RootAfterInsert(Place(a))
     ELSE UNCHANGED <<keys, root>>

\* clients.erase(itr) in the cleanup timer.
Erase(i) ==
  /\ keys' = RemoveAt(keys, i)
  /\ root' = RootAfterErase(i)
  /\ UNCHANGED inserted

\* assert(res.second) ends the process.
Next ==
  /\ inserted
  /\ \/ \E a \in Clients : New(a)
     \/ \E i \in 1 .. Len(keys) : Erase(i)

Spec == Init /\ [][Next]_vars

-----------------------------------------------------------------------------
(* Properties.                                                             *)

\* udp2redis.cpp:94 assert(res.second): a client that is not found in the map
\* can be inserted into it.
InsertSucceeds == inserted

\* The search tree is the set of its keys: a client is found exactly when it is
\* there.  This is what module Udp2Redis assumes of the map.
FindIsMembership ==
  \A a \in Clients :
    IF a \in ToSet(keys) THEN Find(a) # 0 /\ keys[Find(a)] = a ELSE Find(a) = 0
=============================================================================
