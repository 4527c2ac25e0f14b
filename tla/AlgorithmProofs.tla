-------------------------- MODULE AlgorithmProofs --------------------------
(***************************************************************************)
(* The parts of the gateways that compute and do nothing else: the order   *)
(* of client addresses and the map over it (ClientMap), the CRC of a line  *)
(* (Crc16), and how the bytes of a port become frames (Deframer).          *)
(***************************************************************************)
EXTENDS ClientMap, Crc16, Deframer, FramingProofs

-----------------------------------------------------------------------------
(* UdpAddress::operator< over every IP address and port.                   *)

\* Two different IP addresses have a first byte in which they differ.
LEMMA FirstDifference ==
  ASSUME NEW x \in Ips, NEW y \in Ips,
         x # y
  PROVE  \E k \in IpBytes : x[k] # y[k] /\ \A j \in 1 .. k - 1 : x[j] = y[j]
<1>1. \E k \in IpBytes : x[k] # y[k]
  BY DEF Ips
<1>2. x[1] # y[1] \/ x[2] # y[2] \/ x[3] # y[3] \/ x[4] # y[4]
  BY <1>1 DEF IpBytes
<1>3. CASE x[1] # y[1]
  BY <1>3 DEF IpBytes
<1>4. CASE x[1] = y[1] /\ x[2] # y[2]
  BY <1>4 DEF IpBytes
<1>5. CASE x[1] = y[1] /\ x[2] = y[2] /\ x[3] # y[3]
  BY <1>5 DEF IpBytes
<1>6. CASE x[1] = y[1] /\ x[2] = y[2] /\ x[3] = y[3] /\ x[4] # y[4]
  BY <1>6 DEF IpBytes
<1> QED BY <1>2, <1>3, <1>4, <1>5, <1>6

\* What memcmp returns, on a library that returns -1, 0 or 1.
LEMMA MemcmpValue ==
  ASSUME MemcmpIsSign,
         NEW x \in Ips, NEW y \in Ips
  PROVE  \/ x = y /\ Memcmp(x, y) = 0
         \/ \E k \in IpBytes : /\ \A j \in 1 .. k - 1 : x[j] = y[j]
                               /\ x[k] # y[k]
                               /\ Memcmp(x, y) = IF x[k] < y[k] THEN -1 ELSE 1
<1>1. CASE x = y
  BY <1>1 DEF Memcmp
<1>2. CASE x # y
  <2> DEFINE First(k) == x[k] # y[k] /\ \A j \in 1 .. k - 1 : x[j] = y[j]
             k == CHOOSE i \in IpBytes : First(i)
  <2>1. k \in IpBytes /\ First(k)
    BY <1>2, FirstDifference
  <2>2. Memcmp(x, y) = Sign(x[k] - y[k])
    BY <1>2 DEF Memcmp
  <2> HIDE DEF k
  <2>3. x[k] \in Int /\ y[k] \in Int
    BY <2>1, ClientsAssumption DEF Ips
  <2>4. Sign(x[k] - y[k]) = IF x[k] < y[k] THEN -1 ELSE 1
    BY <2>1, <2>3 DEF Sign
  <2> QED BY <2>1, <2>2, <2>4
<1> QED BY <1>1, <1>2

\* x comes after y: the meaning of Memcmp(y, x) = -1.
After(x, y) ==
  \E k \in IpBytes : y[k] < x[k] /\ \A j \in 1 .. k - 1 : x[j] = y[j]

\* Comparing addresses is comparing IP addresses, later ones first, then ports.
LEMMA LessMeaning ==
  ASSUME MemcmpIsSign, NEW a \in UdpAddresses, NEW b \in UdpAddresses
  PROVE  Less(a, b) <=> \/ After(a.ip, b.ip)
                        \/ a.ip = b.ip /\ b.port < a.port
<1> DEFINE x == a.ip
           y == b.ip
<1>0. x \in Ips /\ y \in Ips
  BY DEF UdpAddresses
<1>1. CASE x = y
  <2>1. Memcmp(y, x) = 0
    BY <1>1 DEF Memcmp
  <2>2. ~ After(x, y)
    BY <1>0, <1>1, ClientsAssumption DEF Ips, After
  <2> QED BY <1>1, <2>1, <2>2 DEF Less
<1>2. CASE x # y
  <2>1. PICK k \in IpBytes : /\ \A j \in 1 .. k - 1 : y[j] = x[j]
                             /\ y[k] # x[k]
                             /\ Memcmp(y, x) = IF y[k] < x[k] THEN -1 ELSE 1
    BY <1>0, <1>2, MemcmpValue
  <2>2. After(x, y) <=> y[k] < x[k]
    <3>1. \A i \in IpBytes : x[i] \in Int /\ y[i] \in Int
      BY <1>0, ClientsAssumption DEF Ips
    <3>2. ASSUME NEW i \in IpBytes, y[i] < x[i],
                 \A j \in 1 .. i - 1 : x[j] = y[j]
          PROVE  i = k
      <4>1. ~ i < k
        BY <2>1, <3>1, <3>2 DEF IpBytes
      <4>2. ~ k < i
        BY <2>1, <3>2 DEF IpBytes
      <4> QED BY <4>1, <4>2 DEF IpBytes
    <3> QED BY <2>1, <3>1, <3>2 DEF After
  <2> QED BY <1>2, <2>1, <2>2 DEF Less
<1> QED BY <1>1, <1>2

LEMMA AfterTransitive ==
  ASSUME NEW x \in Ips, NEW y \in Ips,
         NEW z \in Ips, After(x, y), After(y, z)
  PROVE  After(x, z)
<1>1. \A i \in IpBytes : x[i] \in Int /\ y[i] \in Int /\ z[i] \in Int
  BY ClientsAssumption DEF Ips
<1>2. PICK k \in IpBytes : y[k] < x[k] /\ \A j \in 1 .. k - 1 : x[j] = y[j]
  BY DEF After
<1>3. PICK l \in IpBytes : z[l] < y[l] /\ \A j \in 1 .. l - 1 : y[j] = z[j]
  BY DEF After
<1>4. CASE k < l
  BY <1>1, <1>2, <1>3, <1>4 DEF After, IpBytes
<1>5. CASE l < k
  BY <1>1, <1>2, <1>3, <1>5 DEF After, IpBytes
<1>6. CASE k = l
  BY <1>1, <1>2, <1>3, <1>6 DEF After, IpBytes
<1> QED BY <1>4, <1>5, <1>6 DEF IpBytes

LEMMA AfterTotal ==
  ASSUME NEW x \in Ips, NEW y \in Ips
  PROVE  /\ ~ After(x, x)
         /\ ~ (After(x, y) /\ After(y, x))
         /\ x # y => After(x, y) \/ After(y, x)
<1>1. \A i \in IpBytes : x[i] \in Int /\ y[i] \in Int
  BY ClientsAssumption DEF Ips
<1>2. ~ After(x, x)
  BY <1>1 DEF After
<1>3. ~ (After(x, y) /\ After(y, x))
  BY <1>2, AfterTransitive
<1>4. ASSUME x # y PROVE After(x, y) \/ After(y, x)
  BY <1>1, <1>4, FirstDifference DEF After
<1> QED BY <1>2, <1>3, <1>4

\* On a library whose memcmp returns -1, 0 or 1, UdpAddress::operator< is a
\* strict total order of all addresses: std::map may be used with it, and two
\* clients are equivalent keys only if they are one.
THEOREM LessIsTotalOrder ==
  ASSUME MemcmpIsSign
  PROVE  /\ \A a \in UdpAddresses : ~ Less(a, a)
         /\ \A a, b, c \in UdpAddresses : Less(a, b) /\ Less(b, c) => Less(a, c)
         /\ \A a, b \in UdpAddresses : ~ Less(a, b) /\ ~ Less(b, a) => a = b
<1>0. \A a \in UdpAddresses :
        a.ip \in Ips /\ a.port \in Nat
  BY DEF UdpAddresses
<1>1. ASSUME NEW a \in UdpAddresses PROVE ~ Less(a, a)
  BY <1>0, LessMeaning, AfterTotal
<1>2. ASSUME NEW a \in UdpAddresses, NEW b \in UdpAddresses,
             NEW c \in UdpAddresses, Less(a, b), Less(b, c)
      PROVE  Less(a, c)
  <2>1. After(a.ip, b.ip) \/ (a.ip = b.ip /\ b.port < a.port)
    BY <1>2, LessMeaning
  <2>2. After(b.ip, c.ip) \/ (b.ip = c.ip /\ c.port < b.port)
    BY <1>2, LessMeaning
  <2>3. After(a.ip, c.ip) \/ (a.ip = c.ip /\ c.port < a.port)
    BY <1>0, <2>1, <2>2, AfterTransitive
  <2> QED BY <2>3, LessMeaning
<1>3. ASSUME NEW a \in UdpAddresses, NEW b \in UdpAddresses,
             ~ Less(a, b), ~ Less(b, a)
      PROVE  a = b
  <2>1. /\ ~ After(a.ip, b.ip) /\ ~ (a.ip = b.ip /\ b.port < a.port)
        /\ ~ After(b.ip, a.ip) /\ ~ (b.ip = a.ip /\ a.port < b.port)
    BY <1>3, LessMeaning
  <2>2. a.ip = b.ip
    BY <1>0, <2>1, AfterTotal
  <2>3. a.port = b.port
    <3>1. ~ b.port < a.port /\ ~ a.port < b.port
      BY <2>1, <2>2
    <3>2. a.port \in Nat /\ b.port \in Nat
      BY <1>0
    <3> QED BY <3>1, <3>2
  <2>4. \A c \in UdpAddresses : c = [ip |-> c.ip, port |-> c.port]
    BY DEF UdpAddresses
  <2> QED BY <2>2, <2>3, <2>4
<1> QED BY <1>1, <1>2, <1>3

-----------------------------------------------------------------------------
(* The map: its keys stay strictly sorted and its tree balanced.           *)

\* Each key is less than those after it.
Sorted(s) == \A i, j \in 1 .. Len(s) : i < j => Less(s[i], s[j])

\* The root of a tree of n nodes.
RootOf(n, r) ==
  /\ n = 0 => r = 0
  /\ n = 1 => r = 1
  /\ n = 2 => r \in 1 .. 2
  /\ n = 3 => r = 2

MapInv ==
  /\ keys \in Seq(Clients)
  /\ Len(keys) <= MaxNodes
  /\ Sorted(keys)
  /\ RootOf(Len(keys), root)
  /\ inserted = TRUE

\* Among clients, Less is a strict total order.
LEMMA ClientsOrdered ==
  ASSUME MemcmpIsSign
  PROVE  /\ \A a \in Clients : ~ Less(a, a)
         /\ \A a, b, c \in Clients : Less(a, b) /\ Less(b, c) => Less(a, c)
         /\ \A a, b \in Clients : Less(a, b) => ~ Less(b, a)
         /\ \A a, b \in Clients : ~ Less(a, b) /\ ~ Less(b, a) => a = b
<1>1. \A a \in Clients : a \in UdpAddresses
  BY ClientsAssumption
<1> QED BY <1>1, LessIsTotalOrder

LEMMA KeysRange ==
  ASSUME MapInv
  PROVE  /\ keys \in Seq(Clients) /\ Len(keys) \in 0 .. 3
         /\ \A i \in 1 .. Len(keys) : keys[i] \in Clients
<1>1. keys \in Seq(Clients) /\ Len(keys) <= 3
  BY DEF MapInv, MaxNodes
<1>2. Len(keys) \in Nat
  BY <1>1
<1>3. \A i \in 1 .. Len(keys) : keys[i] \in Clients
  BY <1>1, ElementOfSeq
<1>4. Len(keys) \in 0 .. 3
  <2>1. \A n \in Nat : n <= 3 => n \in 0 .. 3
    OBVIOUS
  <2> QED BY <1>1, <1>2, <2>1
<1> QED BY <1>1, <1>3, <1>4

\* The map by the number of its nodes.
LEMMA Nodes ==
  ASSUME MapInv
  PROVE  \/ keys = << >> /\ root = 0
         \/ Len(keys) = 1 /\ root = 1 /\ keys[1] \in Clients
         \/ /\ Len(keys) = 2 /\ root \in 1 .. 2
            /\ keys[1] \in Clients /\ keys[2] \in Clients /\ Less(keys[1], keys[2])
         \/ /\ Len(keys) = 3 /\ root = 2
            /\ keys[1] \in Clients /\ keys[2] \in Clients /\ keys[3] \in Clients
            /\ Less(keys[1], keys[2]) /\ Less(keys[2], keys[3]) /\ Less(keys[1], keys[3])
<1>1. Len(keys) \in 0 .. 3
  BY KeysRange
<1>2. \A i \in 1 .. Len(keys) : keys[i] \in Clients
  BY DEF MapInv
<1>3. CASE Len(keys) = 0
  BY <1>3 DEF MapInv, RootOf
<1>4. CASE Len(keys) = 1
  BY <1>2, <1>4 DEF MapInv, RootOf
<1>5. CASE Len(keys) = 2
  BY <1>2, <1>5 DEF MapInv, RootOf, Sorted
<1>6. CASE Len(keys) = 3
  BY <1>2, <1>6 DEF MapInv, RootOf, Sorted
<1> QED BY <1>1, <1>3, <1>4, <1>5, <1>6

\* Both searches are right: a key is found where it is, and one that is not there
\* has a place between its neighbours.
LEMMA Searches ==
  ASSUME MemcmpIsSign, MapInv, NEW a \in Clients
  PROVE  /\ \A i \in 1 .. Len(keys) : keys[i] = a => Find(a) = i
         /\ (\A i \in 1 .. Len(keys) : keys[i] # a) =>
              /\ Find(a) = 0
              /\ Place(a) \in 1 .. Len(keys) + 1
              /\ \A i \in 1 .. Len(keys) : i < Place(a) => Less(keys[i], a)
              /\ \A i \in 1 .. Len(keys) : i >= Place(a) => Less(a, keys[i])
<1>0. /\ \A i \in 1 .. Len(keys) : keys[i] \in Clients
      /\ ~ Less(a, a)
      /\ \A b, c \in Clients : Less(a, b) /\ Less(b, c) => Less(a, c)
      /\ \A b, c \in Clients : Less(b, a) /\ Less(a, c) => Less(b, c)
      /\ \A b, c \in Clients : Less(c, b) /\ Less(b, a) => Less(c, a)
      /\ \A b, c \in Clients : Less(b, c) => ~ Less(c, b)
      /\ \A b \in Clients : ~ Less(a, b) /\ ~ Less(b, a) => a = b
  BY ClientsOrdered DEF MapInv
<1>1. CASE keys = << >> /\ root = 0
  BY <1>1 DEF Find, LowerBound, Place
<1>2. CASE Len(keys) = 1 /\ root = 1 /\ keys[1] \in Clients
  <2>1. keys # << >>
    BY <1>2
  <2> QED BY <1>0, <1>2, <2>1 DEF Find, LowerBound, Place, HasChild, Below
<1>3. CASE /\ Len(keys) = 2 /\ root \in 1 .. 2
           /\ keys[1] \in Clients /\ keys[2] \in Clients /\ Less(keys[1], keys[2])
  <2>1. keys # << >>
    BY <1>3
  <2>2. CASE root = 1
    BY <1>0, <1>3, <2>1, <2>2 DEF Find, LowerBound, Place, HasChild, Below
  <2>3. CASE root = 2
    BY <1>0, <1>3, <2>1, <2>3 DEF Find, LowerBound, Place, HasChild, Below
  <2> QED BY <1>3, <2>2, <2>3
<1>4. CASE /\ Len(keys) = 3 /\ root = 2
           /\ keys[1] \in Clients /\ keys[2] \in Clients /\ keys[3] \in Clients
           /\ Less(keys[1], keys[2]) /\ Less(keys[2], keys[3]) /\ Less(keys[1], keys[3])
  <2>1. keys # << >>
    BY <1>4
  <2>2. \A i \in 1 .. Len(keys) : keys[i] = a => Find(a) = i
    BY <1>0, <1>4, <2>1 DEF Find, LowerBound
  <2>3. (\A i \in 1 .. Len(keys) : keys[i] # a) => Find(a) = 0
    BY <1>0, <1>4, <2>1 DEF Find, LowerBound
  <2>4. ASSUME \A i \in 1 .. Len(keys) : keys[i] # a
        PROVE  /\ Place(a) \in 1 .. Len(keys) + 1
               /\ \A i \in 1 .. Len(keys) : i < Place(a) => Less(keys[i], a)
               /\ \A i \in 1 .. Len(keys) : i >= Place(a) => Less(a, keys[i])
    BY <1>0, <1>4, <2>1, <2>4 DEF Place, HasChild, Below
  <2> QED BY <2>2, <2>3, <2>4
<1> QED BY Nodes, <1>1, <1>2, <1>3, <1>4

\* t is s with the element e added at place p.
WithElement(t, s, p, e) ==
  /\ Len(t) = Len(s) + 1
  /\ \A i \in 1 .. p - 1 : t[i] = s[i]
  /\ t[p] = e
  /\ \A i \in p .. Len(s) : t[i + 1] = s[i]

\* InsertAt adds the element at its place and keeps the rest.
LEMMA InsertShape ==
  ASSUME NEW S, NEW s \in Seq(S), NEW e \in S, NEW p \in 1 .. Len(s) + 1,
         NEW t, t = InsertAt(s, p, e)
  PROVE  t \in Seq(S) /\ WithElement(t, s, p, e)
<1> DEFINE f == SubSeq(s, 1, p - 1)
           m == <<e>>
           l == SubSeq(s, p, Len(s))
           fm == f \o m
<1>1. /\ f \in Seq(S) /\ Len(f) = p - 1 /\ \A i \in 1 .. p - 1 : f[i] = s[i]
      /\ l \in Seq(S) /\ Len(l) = Len(s) - p + 1
      /\ \A i \in 1 .. Len(s) - p + 1 : l[i] = s[p + i - 1]
  BY SubSeqShape
<1>2. m \in Seq(S) /\ Len(m) = 1 /\ m[1] = e
  OBVIOUS
<1>3. t = fm \o l
  BY DEF InsertAt
<1> HIDE DEF f, m, l
<1>4. /\ fm \in Seq(S) /\ Len(fm) = p
      /\ \A i \in 1 .. p - 1 : fm[i] = f[i]
      /\ fm[p] = e
  <2> HIDE DEF fm
  <2>0. f \in Seq(S) /\ m \in Seq(S) /\ fm = f \o m
    BY <1>1, <1>2 DEF fm
  <2>1. /\ fm \in Seq(S) /\ Len(fm) = Len(f) + Len(m)
        /\ \A i \in 1 .. Len(f) : fm[i] = f[i]
        /\ \A i \in 1 .. Len(m) : fm[Len(f) + i] = m[i]
    BY <2>0, Joined
  <2> QED BY <1>1, <1>2, <2>1
<1> HIDE DEF fm
<1>5. /\ t \in Seq(S) /\ Len(t) = Len(fm) + Len(l)
      /\ \A i \in 1 .. Len(fm) : t[i] = fm[i]
      /\ \A i \in 1 .. Len(l) : t[Len(fm) + i] = l[i]
  <2>1. fm \in Seq(S) /\ l \in Seq(S) /\ t = fm \o l
    BY <1>1, <1>3, <1>4
  <2> QED BY <2>1, Joined
<1>6. ASSUME NEW i \in p .. Len(s) PROVE t[i + 1] = s[i]
  <2>1. i + 1 - p \in 1 .. Len(l) /\ Len(fm) + (i + 1 - p) = i + 1
    BY <1>1, <1>4
  <2>2. t[i + 1] = l[i + 1 - p]
    BY <1>5, <2>1
  <2>3. l[i + 1 - p] = s[p + (i + 1 - p) - 1]
    BY <1>1, <2>1
  <2> QED BY <2>2, <2>3
<1>7. Len(t) = Len(s) + 1
  BY <1>1, <1>4, <1>5
<1>8. (\A i \in 1 .. p - 1 : t[i] = s[i]) /\ t[p] = e
  BY <1>1, <1>4, <1>5
<1> QED BY <1>5, <1>6, <1>7, <1>8 DEF WithElement

\* t is s with the element at place p taken away.
WithoutElement(t, s, p) ==
  /\ Len(t) = Len(s) - 1
  /\ \A i \in 1 .. p - 1 : t[i] = s[i]
  /\ \A i \in p .. Len(s) - 1 : t[i] = s[i + 1]

\* RemoveAt takes the element at its place away and keeps the rest.
LEMMA RemoveShape ==
  ASSUME NEW S, NEW s \in Seq(S), NEW p \in 1 .. Len(s),
         NEW t, t = RemoveAt(s, p)
  PROVE  t \in Seq(S) /\ WithoutElement(t, s, p)
<1> DEFINE f == SubSeq(s, 1, p - 1)
           l == SubSeq(s, p + 1, Len(s))
<1>1. /\ f \in Seq(S) /\ Len(f) = p - 1 /\ \A i \in 1 .. p - 1 : f[i] = s[i]
      /\ l \in Seq(S) /\ Len(l) = Len(s) - p
      /\ \A i \in 1 .. Len(s) - p : l[i] = s[p + i]
  <2>1. p - 1 \in 0 .. Len(s) /\ 1 \in 1 .. Len(s) + 1 /\ p + 1 \in 1 .. Len(s) + 1
    OBVIOUS
  <2> QED BY <2>1, SubSeqShape
<1>3. t = f \o l
  BY DEF RemoveAt
<1> HIDE DEF f, l
<1>5. /\ t \in Seq(S) /\ Len(t) = Len(f) + Len(l)
      /\ \A i \in 1 .. Len(f) : t[i] = f[i]
      /\ \A i \in 1 .. Len(l) : t[Len(f) + i] = l[i]
  <2>1. f \in Seq(S) /\ l \in Seq(S) /\ t = f \o l
    BY <1>1, <1>3
  <2> QED BY <2>1, Joined
<1>6. ASSUME NEW i \in p .. Len(s) - 1 PROVE t[i] = s[i + 1]
  <2>1. i + 1 - p \in 1 .. Len(l) /\ Len(f) + (i + 1 - p) = i
    BY <1>1
  <2>2. t[i] = l[i + 1 - p]
    BY <1>5, <2>1
  <2>3. l[i + 1 - p] = s[p + (i + 1 - p)]
    BY <1>1, <2>1
  <2> QED BY <2>2, <2>3
<1> QED BY <1>1, <1>5, <1>6 DEF WithoutElement

\* A client that is not found is inserted, where the keys stay sorted.
LEMMA NewKeepsMap ==
  ASSUME MemcmpIsSign, MapInv, NEW a \in Clients, New(a)
  PROVE  MapInv'
<1> DEFINE n == Len(keys)
           p == Place(a)
<1>0. keys \in Seq(Clients) /\ n \in 0 .. 2 /\ \A i \in 1 .. n : keys[i] \in Clients
  <2>1. n < 3
    BY DEF New, MaxNodes
  <2> QED BY <2>1, KeysRange
<1>1. \A i \in 1 .. n : keys[i] # a
  <2>1. \A i \in 1 .. n : i # 0
    BY <1>0
  <2> QED BY <2>1, Searches DEF New
<1>2. /\ p \in 1 .. n + 1
      /\ \A i \in 1 .. n : i < p => Less(keys[i], a)
      /\ \A i \in 1 .. n : i >= p => Less(a, keys[i])
  BY <1>1, Searches
<1> HIDE DEF p
<1>3. Fresh(a)
  <2>1. p # 1 => p - 1 \in 1 .. n /\ p - 1 < p
    BY <1>0, <1>2
  <2> QED BY <1>2, <2>1 DEF Fresh, p
<1>4. inserted' = TRUE /\ keys' = InsertAt(keys, p, a) /\ root' = RootAfterInsert(p)
  <2>1. inserted' = Fresh(a) /\ keys' = InsertAt(keys, p, a) /\ root' = RootAfterInsert(p)
    BY <1>3 DEF New, p
  <2>2. Fresh(a) = TRUE
    BY <1>3 DEF Fresh
  <2> QED BY <2>1, <2>2
<1>5. /\ keys' \in Seq(Clients) /\ Len(keys') = n + 1
      /\ \A i \in 1 .. p - 1 : keys'[i] = keys[i]
      /\ keys'[p] = a
      /\ \A i \in p .. n : keys'[i + 1] = keys[i]
  <2> DEFINE t == keys'
  <2>1. t = InsertAt(keys, p, a)
    BY <1>4
  <2> HIDE DEF t
  <2>2. /\ t \in Seq(Clients) /\ Len(t) = Len(keys) + 1
        /\ \A i \in 1 .. p - 1 : t[i] = keys[i]
        /\ t[p] = a
        /\ \A i \in p .. Len(keys) : t[i + 1] = keys[i]
    <3>1. keys \in Seq(Clients) /\ p \in 1 .. Len(keys) + 1 /\ t = InsertAt(keys, p, a)
      BY <1>0, <1>2, <2>1
    <3>2. t \in Seq(Clients) /\ WithElement(t, keys, p, a)
      BY <3>1, InsertShape
    <3> QED BY <3>2 DEF WithElement
  <2> QED BY <2>2 DEF t
<1>6. ASSUME NEW i \in 1 .. n + 1, NEW j \in 1 .. n + 1, i < j
      PROVE  Less(keys'[i], keys'[j])
  <2>0. Sorted(keys)
    BY DEF MapInv
  <2>1. CASE j < p
    <3>1. i \in 1 .. n /\ j \in 1 .. n /\ i \in 1 .. p - 1 /\ j \in 1 .. p - 1
      BY <1>0, <1>2, <1>6, <2>1
    <3> QED BY <1>5, <1>6, <2>0, <3>1 DEF Sorted
  <2>2. CASE j = p
    <3>1. i \in 1 .. n /\ i \in 1 .. p - 1 /\ i < p
      BY <1>0, <1>2, <1>6, <2>2
    <3> QED BY <1>2, <1>5, <2>2, <3>1
  <2>3. CASE j > p /\ i < p
    <3>1. i \in 1 .. n /\ i \in 1 .. p - 1 /\ j - 1 \in p .. n /\ j - 1 \in 1 .. n
          /\ j = (j - 1) + 1 /\ i < j - 1
      BY <1>0, <1>2, <1>6, <2>3
    <3>2. keys'[i] = keys[i] /\ keys'[j] = keys[j - 1]
      BY <1>5, <3>1
    <3> QED BY <2>0, <3>1, <3>2 DEF Sorted
  <2>4. CASE j > p /\ i = p
    <3>1. j - 1 \in p .. n /\ j - 1 \in 1 .. n /\ j = (j - 1) + 1 /\ j - 1 >= p
      BY <1>0, <1>2, <1>6, <2>4
    <3>2. keys'[i] = a /\ keys'[j] = keys[j - 1]
      BY <1>5, <2>4, <3>1
    <3> QED BY <1>2, <3>1, <3>2
  <2>5. CASE j > p /\ i > p
    <3>1. j - 1 \in p .. n /\ j - 1 \in 1 .. n /\ j = (j - 1) + 1
          /\ i - 1 \in p .. n /\ i - 1 \in 1 .. n /\ i = (i - 1) + 1 /\ i - 1 < j - 1
      BY <1>0, <1>2, <1>6, <2>5
    <3>2. keys'[i] = keys[i - 1] /\ keys'[j] = keys[j - 1]
      BY <1>5, <3>1
    <3> QED BY <2>0, <3>1, <3>2 DEF Sorted
  <2> QED BY <1>0, <1>2, <2>1, <2>2, <2>3, <2>4, <2>5
<1>7. RootOf(n + 1, root')
  <2>1. CASE n = 0
    BY <1>0, <1>4, <2>1 DEF RootAfterInsert, RootOf, MapInv
  <2>2. CASE n = 1
    <3>1. keys # << >> /\ root = 1 /\ p \in 1 .. 2
      <4>1. RootOf(1, root)
        BY <2>2 DEF MapInv
      <4> QED BY <1>2, <2>2, <4>1 DEF RootOf
    <3> QED BY <1>4, <2>2, <3>1 DEF RootAfterInsert, RootOf
  <2>3. CASE n = 2
    BY <1>4, <2>3 DEF RootAfterInsert, RootOf
  <2> QED BY <1>0, <2>1, <2>2, <2>3
<1>8. Sorted(keys')
  BY <1>5, <1>6 DEF Sorted
<1>9. keys' \in Seq(Clients) /\ Len(keys') <= MaxNodes /\ Len(keys') = n + 1
  BY <1>0, <1>5 DEF MaxNodes
<1> HIDE DEF n
<1> QED BY <1>4, <1>7, <1>8, <1>9 DEF MapInv, Sorted, Less, Memcmp, RootOf

\* The cleanup keeps the keys sorted.
LEMMA EraseKeepsMap ==
  ASSUME MapInv, NEW p \in 1 .. Len(keys), Erase(p)
  PROVE  MapInv'
<1> DEFINE n == Len(keys)
<1>0. keys \in Seq(Clients) /\ n \in 1 .. 3 /\ p \in 1 .. n
  <2>1. n \in 0 .. 3
    BY KeysRange
  <2> QED BY <2>1, KeysRange
<1>5. /\ keys' \in Seq(Clients) /\ Len(keys') = n - 1
      /\ \A i \in 1 .. p - 1 : keys'[i] = keys[i]
      /\ \A i \in p .. n - 1 : keys'[i] = keys[i + 1]
  <2> DEFINE t == keys'
  <2>1. t = RemoveAt(keys, p)
    BY DEF Erase
  <2> HIDE DEF t
  <2>2. /\ t \in Seq(Clients) /\ Len(t) = Len(keys) - 1
        /\ \A i \in 1 .. p - 1 : t[i] = keys[i]
        /\ \A i \in p .. Len(keys) - 1 : t[i] = keys[i + 1]
    <3>1. keys \in Seq(Clients) /\ p \in 1 .. Len(keys) /\ t = RemoveAt(keys, p)
      BY <1>0, <2>1
    <3>2. t \in Seq(Clients) /\ WithoutElement(t, keys, p)
      BY <3>1, RemoveShape
    <3> QED BY <3>2 DEF WithoutElement
  <2> QED BY <2>2 DEF t
<1>6. ASSUME NEW i \in 1 .. n - 1, NEW j \in 1 .. n - 1, i < j
      PROVE  Less(keys'[i], keys'[j])
  <2>0. Sorted(keys)
    BY DEF MapInv
  <2> DEFINE k(x) == IF x < p THEN x ELSE x + 1
  <2>1. k(i) \in 1 .. n /\ k(j) \in 1 .. n /\ k(i) < k(j)
    BY <1>0, <1>6
  <2>2. keys'[i] = keys[k(i)] /\ keys'[j] = keys[k(j)]
    <3>1. \A x \in 1 .. n - 1 : x < p => x \in 1 .. p - 1
      BY <1>0
    <3>2. \A x \in 1 .. n - 1 : ~ x < p => x \in p .. n - 1
      BY <1>0
    <3> QED BY <1>5, <3>1, <3>2
  <2> HIDE DEF k
  <2> QED BY <2>0, <2>1, <2>2 DEF Sorted
<1>7. RootOf(Len(keys'), root')
  <2>0. Len(keys') = n - 1
    BY <1>5
  <2>1. RootOf(n, root) /\ root' = RootAfterErase(p)
    BY DEF Erase, MapInv
  <2>2. CASE n = 1
    BY <2>0, <2>1, <2>2 DEF RootAfterErase, RootOf
  <2>3. CASE n = 2
    BY <1>0, <2>0, <2>1, <2>3 DEF RootAfterErase, RootOf
  <2>4. CASE n = 3
    BY <1>0, <2>0, <2>1, <2>4 DEF RootAfterErase, RootOf
  <2> QED BY <1>0, <2>2, <2>3, <2>4
<1>8. Sorted(keys')
  BY <1>5, <1>6 DEF Sorted
<1>9. keys' \in Seq(Clients) /\ Len(keys') <= MaxNodes /\ Len(keys') = n - 1
  BY <1>0, <1>5 DEF MaxNodes
<1>10. inserted' = TRUE
  BY DEF Erase, MapInv
<1> HIDE DEF n
<1> QED BY <1>7, <1>8, <1>9, <1>10 DEF MapInv, Sorted, Less, Memcmp, RootOf

THEOREM MapInvariance ==
  ASSUME MemcmpIsSign
  PROVE  Spec => []MapInv
<1>1. ASSUME Init PROVE MapInv
  BY <1>1 DEF Init, MapInv, Sorted, RootOf, MaxNodes
<1>2. ASSUME MapInv, [Next]_vars PROVE MapInv'
  <2>1. ASSUME NEW a \in Clients, New(a) PROVE MapInv'
    BY <1>2, <2>1, NewKeepsMap
  <2>2. ASSUME NEW i \in 1 .. Len(keys), Erase(i) PROVE MapInv'
    BY <1>2, <2>2, EraseKeepsMap
  <2>3. CASE UNCHANGED vars
    <3>1. keys' = keys /\ root' = root /\ inserted' = inserted
      BY <2>3 DEF vars
    <3>2. keys' \in Seq(Clients) /\ Len(keys') <= MaxNodes /\ inserted' = TRUE
      BY <1>2, <3>1 DEF MapInv
    <3>3. Sorted(keys') /\ RootOf(Len(keys'), root')
      BY <1>2, <3>1 DEF MapInv
    <3> QED BY <3>2, <3>3 DEF MapInv, Sorted, RootOf, Less, Memcmp, MaxNodes
  <2> QED BY <1>2, <2>1, <2>2, <2>3 DEF Next
<1> QED BY <1>1, <1>2, PTL DEF Spec

\* udp2redis.cpp:94 assert(res.second) never fails: a client that clients.find
\* does not find can be inserted, whatever addresses clients have.
THEOREM InsertionSucceeds ==
  ASSUME MemcmpIsSign
  PROVE  Spec => []InsertSucceeds
<1>1. MapInv => InsertSucceeds
  BY DEF MapInv, InsertSucceeds
<1> QED BY <1>1, MapInvariance, PTL

\* clients.find finds a client exactly when it is in the map.
THEOREM FindsMembers ==
  ASSUME MemcmpIsSign
  PROVE  Spec => []FindIsMembership
<1>1. ASSUME MapInv PROVE FindIsMembership
  <2>1. ASSUME NEW a \in Clients, a \in ToSet(keys)
        PROVE  Find(a) # 0 /\ keys[Find(a)] = a
    <3>1. PICK i \in 1 .. Len(keys) : keys[i] = a
      BY <1>1, <2>1 DEF MapInv, ToSet
    <3>2. Find(a) = i
      BY <1>1, <3>1, Searches
    <3>3. i # 0
      BY <1>1 DEF MapInv
    <3> QED BY <3>1, <3>2, <3>3
  <2>2. ASSUME NEW a \in Clients, a \notin ToSet(keys)
        PROVE  Find(a) = 0
    <3>1. \A i \in 1 .. Len(keys) : keys[i] # a
      BY <1>1, <2>2 DEF MapInv, ToSet
    <3> QED BY <1>1, <3>1, Searches
  <2> QED BY <2>1, <2>2 DEF FindIsMembership
<1> QED BY <1>1, MapInvariance, PTL

-----------------------------------------------------------------------------
(* Crc16, for lines of any length over any characters: one changed         *)
(* character, or two in a row, are always detected.                        *)
(*                                                                         *)
(* A turn of the inner loop can be undone: bit 15 of its result is bit 0 of*)
(* its argument, as Poly has bit 15 and a shifted word has not.  So the    *)
(* loops are injective and two CRCs that differ stay different while equal *)
(* characters follow.  What is left is that a second changed character     *)
(* cannot make up for the first: undone eight times, the difference of two *)
(* characters has no two bytes of which one extends the sign of the other. *)

\* The argument of a turn, from its result.
LEMMA Undo ==
  ASSUME NEW w \in Word
  PROVE  /\ BitStep(w) \in Word
         /\ 0 \in w <=> 15 \in BitStep(w)
         /\ \A i \in 0 .. 14 :
              i + 1 \in w <=> (i \in BitStep(w)) # (15 \in BitStep(w) /\ i \in Poly)
<1>1. 0 \in w <=> 15 \in BitStep(w)
  BY DEF Word, BitStep, Xor, ShiftRight, Poly
<1>2. ASSUME NEW i \in 0 .. 14
      PROVE  i + 1 \in w <=>
               (i \in BitStep(w)) # (15 \in BitStep(w) /\ i \in Poly)
  BY <1>1, <1>2 DEF Word, BitStep, Xor, ShiftRight
<1>3. BitStep(w) \in Word
  BY DEF Word, BitStep, Xor, ShiftRight, Poly
<1> QED
  BY <1>1, <1>2, <1>3

\* A turn never maps two words to one.
LEMMA BitStepInjective ==
  ASSUME NEW v \in Word, NEW w \in Word, BitStep(v) = BitStep(w)
  PROVE  v = w
<1>1. 0 \in v <=> 0 \in w
  BY Undo
<1>2. \A i \in 0 .. 14 : i + 1 \in v <=> i + 1 \in w
  BY Undo
<1>3. ASSUME NEW j \in 1 .. 15
      PROVE  j \in v <=> j \in w
  <2>1. j - 1 \in 0 .. 14 /\ j = (j - 1) + 1
    OBVIOUS
  <2> QED
    BY <1>2, <2>1
<1>4. \A j \in 0 .. 15 : j \in v <=> j \in w
  <2>1. \A j \in 0 .. 15 : j = 0 \/ j \in 1 .. 15
    OBVIOUS
  <2> QED
    BY <1>1, <1>3, <2>1
<1>5. v \subseteq 0 .. 15 /\ w \subseteq 0 .. 15
  BY DEF Word
<1>6. v \subseteq w
  BY <1>4, <1>5
<1>7. w \subseteq v
  BY <1>4, <1>5
<1> QED
  BY <1>6, <1>7

\* What exclusive or and a turn do to each bit.
LEMMA XorBit ==
  ASSUME NEW a, NEW b, NEW i
  PROVE  i \in Xor(a, b) <=> ~(i \in a <=> i \in b)
<1>1. i \in Xor(a, b) <=> (i \in a /\ i \notin b) \/ (i \in b /\ i \notin a)
  BY DEF Xor
<1> QED
  BY <1>1

LEMMA TurnBit ==
  ASSUME NEW w \in Word, NEW i \in 0 .. 15
  PROVE  i \in BitStep(w) <=> ~(i + 1 \in w <=> 0 \in w /\ i \in Poly)
<1>1. i \in ShiftRight(w) <=> i + 1 \in w
  BY DEF ShiftRight, Word
<1>2. CASE 0 \in w
  BY <1>1, <1>2, XorBit DEF BitStep
<1>3. CASE 0 \notin w
  BY <1>1, <1>3 DEF BitStep
<1> QED
  BY <1>2, <1>3

\* The turn of a difference is the difference of the turns.
LEMMA BitStepLinear ==
  ASSUME NEW v \in Word, NEW w \in Word
  PROVE  /\ Xor(v, w) \in Word
         /\ BitStep(Xor(v, w)) = Xor(BitStep(v), BitStep(w))
<1>1. Xor(v, w) \in Word
  BY DEF Word, Xor
<1>2. ASSUME NEW i \in 0 .. 15
      PROVE  i \in BitStep(Xor(v, w)) <=> i \in Xor(BitStep(v), BitStep(w))
  <2>1. i \in BitStep(Xor(v, w)) <=>
          ~(i + 1 \in Xor(v, w) <=> 0 \in Xor(v, w) /\ i \in Poly)
    BY <1>1, TurnBit
  <2>2. /\ i + 1 \in Xor(v, w) <=> ~(i + 1 \in v <=> i + 1 \in w)
        /\ 0 \in Xor(v, w) <=> ~(0 \in v <=> 0 \in w)
    BY XorBit
  <2>3. /\ i \in BitStep(v) <=> ~(i + 1 \in v <=> 0 \in v /\ i \in Poly)
        /\ i \in BitStep(w) <=> ~(i + 1 \in w <=> 0 \in w /\ i \in Poly)
    BY TurnBit
  <2>4. i \in Xor(BitStep(v), BitStep(w)) <=>
          ~(i \in BitStep(v) <=> i \in BitStep(w))
    BY XorBit
  <2> QED
    BY <2>1, <2>2, <2>3, <2>4
<1>3. BitStep(Xor(v, w)) \in Word /\ Xor(BitStep(v), BitStep(w)) \in Word
  <2>1. BitStep(v) \in Word /\ BitStep(w) \in Word
    BY Undo
  <2>2. BitStep(Xor(v, w)) \in Word
    BY <1>1, Undo
  <2>3. Xor(BitStep(v), BitStep(w)) \in Word
    BY <2>1 DEF Word, Xor
  <2> QED
    BY <2>2, <2>3
<1> QED
  BY <1>1, <1>2, <1>3 DEF Word

-----------------------------------------------------------------------------
(* Eight turns are injective and linear, as each of them is.               *)

LEMMA TwiceLemma ==
  ASSUME NEW v \in Word, NEW w \in Word
  PROVE  /\ Twice(v) \in Word
         /\ Twice(v) = Twice(w) => v = w
         /\ Twice(Xor(v, w)) = Xor(Twice(v), Twice(w))
<1>1. BitStep(v) \in Word /\ BitStep(w) \in Word
  BY Undo
<1>2. Twice(v) \in Word
  BY <1>1, Undo DEF Twice
<1>3. Twice(v) = Twice(w) => v = w
  BY <1>1, BitStepInjective DEF Twice
<1>4. Twice(Xor(v, w)) = Xor(Twice(v), Twice(w))
  BY <1>1, BitStepLinear DEF Twice
<1> QED
  BY <1>2, <1>3, <1>4

LEMMA FourTimesLemma ==
  ASSUME NEW v \in Word, NEW w \in Word
  PROVE  /\ FourTimes(v) \in Word
         /\ FourTimes(v) = FourTimes(w) => v = w
         /\ FourTimes(Xor(v, w)) = Xor(FourTimes(v), FourTimes(w))
<1>1. Twice(v) \in Word /\ Twice(w) \in Word
  BY TwiceLemma
<1> QED
  BY <1>1, TwiceLemma DEF FourTimes

LEMMA EightTimesLemma ==
  ASSUME NEW v \in Word, NEW w \in Word
  PROVE  /\ EightTimes(v) \in Word
         /\ EightTimes(v) = EightTimes(w) => v = w
         /\ EightTimes(Xor(v, w)) = Xor(EightTimes(v), EightTimes(w))
<1>1. FourTimes(v) \in Word /\ FourTimes(w) \in Word
  BY FourTimesLemma
<1> QED
  BY <1>1, FourTimesLemma DEF EightTimes

-----------------------------------------------------------------------------
(* Eight turns of a sign-extended byte give no sign-extended byte.         *)

SignExtended(w) == w \subseteq 0 .. 7 \/ 7 .. 15 \subseteq w

\* Undone, a turn of a word without its highest bits shifts it back.
LEMMA ShiftedBack ==
  ASSUME NEW w \in Word, NEW k \in 0 .. 14, NEW m \in 0 .. 14,
         BitStep(w) \subseteq k .. m
  PROVE  w \subseteq (k + 1) .. (m + 1)
<1>1. 15 \notin BitStep(w)
  OBVIOUS
<1>2. 0 \notin w
  BY <1>1, Undo
<1>3. ASSUME NEW j \in 1 .. 15, j \in w
      PROVE  j \in (k + 1) .. (m + 1)
  <2>1. j - 1 \in 0 .. 14 /\ j = (j - 1) + 1
    OBVIOUS
  <2>2. j - 1 \in BitStep(w)
    BY <1>1, <1>3, <2>1, Undo
  <2> QED
    BY <2>2
<1> QED
  BY <1>2, <1>3 DEF Word

\* The bits of the argument that the next proof follows, one by one.
LEMMA UndoBits ==
  ASSUME NEW w \in Word
  PROVE  /\ 0 \in w <=> 15 \in BitStep(w)
         /\ 1 \in w <=> ~(0 \in BitStep(w) <=> 15 \in BitStep(w))
         /\ 14 \in w <=> ~(13 \in BitStep(w) <=> 15 \in BitStep(w))
         /\ \A i \in (1 .. 12) \cup {14} : i + 1 \in w <=> i \in BitStep(w)
<1>1. 0 + 1 \in w <=> ~(0 \in BitStep(w) <=> 15 \in BitStep(w))
  BY Undo DEF Poly
<1>2. 13 + 1 \in w <=> ~(13 \in BitStep(w) <=> 15 \in BitStep(w))
  BY Undo DEF Poly
<1>3. ASSUME NEW i \in (1 .. 12) \cup {14}
      PROVE  i + 1 \in w <=> i \in BitStep(w)
  <2>1. i \in 0 .. 14 /\ i \notin Poly
    BY DEF Poly
  <2> QED
    BY <2>1, Undo
<1> QED
  BY <1>1, <1>2, <1>3, Undo

LEMMA EightTurnsOfAByte ==
  ASSUME NEW e \in Word, SignExtended(e), SignExtended(EightTimes(e))
  PROVE  e = {}
<1> DEFINE w1 == BitStep(e)
           w2 == BitStep(w1)
           w3 == BitStep(w2)
           w4 == BitStep(w3)
           w5 == BitStep(w4)
           w6 == BitStep(w5)
           w7 == BitStep(w6)
           w8 == BitStep(w7)
<1>1. /\ w1 \in Word /\ w2 \in Word /\ w3 \in Word /\ w4 \in Word
      /\ w5 \in Word /\ w6 \in Word /\ w7 \in Word
  BY Undo
<1>2. SignExtended(w8)
  BY DEF EightTimes, FourTimes, Twice
<1>3. CASE w8 \subseteq 0 .. 7
  <2> HIDE DEF w1, w2, w3, w4, w5, w6, w7, w8
  <2>1. w7 \subseteq 1 .. 8
    BY <1>1, <1>3, ShiftedBack DEF w8
  <2>2. w6 \subseteq 2 .. 9
    BY <1>1, <2>1, ShiftedBack DEF w7
  <2>3. w5 \subseteq 3 .. 10
    BY <1>1, <2>2, ShiftedBack DEF w6
  <2>4. w4 \subseteq 4 .. 11
    BY <1>1, <2>3, ShiftedBack DEF w5
  <2>5. w3 \subseteq 5 .. 12
    BY <1>1, <2>4, ShiftedBack DEF w4
  <2>6. w2 \subseteq 6 .. 13
    BY <1>1, <2>5, ShiftedBack DEF w3
  <2>7. w1 \subseteq 7 .. 14
    BY <1>1, <2>6, ShiftedBack DEF w2
  <2>8. e \subseteq 8 .. 15
    BY <2>7, ShiftedBack DEF w1
  <2> QED
    BY <2>8 DEF SignExtended
<1>4. CASE 7 .. 15 \subseteq w8
  <2> HIDE DEF w1, w2, w3, w4, w5, w6, w7, w8
  <2>1. 0 \in w7 /\ 11 \in w7 /\ 12 \in w7 /\ 13 \in w7 /\ 14 \notin w7 /\ 15 \in w7
        /\ 8 \in w7 /\ 9 \in w7 /\ 10 \in w7
    BY <1>1, <1>4, UndoBits DEF w8
  <2>2. 1 \notin w6 /\ 9 \in w6 /\ 10 \in w6 /\ 11 \in w6 /\ 12 \in w6 /\ 13 \in w6
        /\ 14 \notin w6 /\ 15 \notin w6
    BY <1>1, <2>1, UndoBits DEF w7
  <2>3. 2 \notin w5 /\ 10 \in w5 /\ 11 \in w5 /\ 12 \in w5 /\ 13 \in w5 /\ 14 \in w5
        /\ 15 \notin w5
    BY <1>1, <2>2, UndoBits DEF w6
  <2>4. 3 \notin w4 /\ 11 \in w4 /\ 12 \in w4 /\ 13 \in w4 /\ 14 \in w4 /\ 15 \in w4
    BY <1>1, <2>3, UndoBits DEF w5
  <2>5. 4 \notin w3 /\ 12 \in w3 /\ 13 \in w3 /\ 14 \notin w3 /\ 15 \in w3
    BY <1>1, <2>4, UndoBits DEF w4
  <2>6. 5 \notin w2 /\ 13 \in w2 /\ 14 \notin w2 /\ 15 \notin w2
    BY <1>1, <2>5, UndoBits DEF w3
  <2>7. 6 \notin w1 /\ 14 \in w1 /\ 15 \notin w1
    BY <1>1, <2>6, UndoBits DEF w2
  <2>8. 7 \notin e /\ 15 \in e
    BY <2>7, UndoBits DEF w1
  <2> QED
    BY <2>8 DEF SignExtended
<1> QED
  BY <1>2, <1>3, <1>4 DEF SignExtended

-----------------------------------------------------------------------------
(* The characters.                                                         *)

\* What they are xored into a CRC as, and what two of them differ by.
LEMMA Characters ==
  ASSUME NEW c \in Chars, NEW d \in Chars
  PROVE  /\ Promoted(c) \in Word
         /\ Xor(Promoted(c), Promoted(d)) \in Word
         /\ SignExtended(Xor(Promoted(c), Promoted(d)))
         /\ Xor(Promoted(c), Promoted(d)) = {} => c = d
<1>1. c \subseteq 0 .. 7 /\ d \subseteq 0 .. 7
  BY CrcAssumption
<1>2. /\ Promoted(c) = c \/ (7 \in c /\ Promoted(c) = c \cup 8 .. 15)
      /\ Promoted(d) = d \/ (7 \in d /\ Promoted(d) = d \cup 8 .. 15)
  BY DEF Promoted
<1>3. Promoted(c) \in Word /\ Promoted(d) \in Word
  <2>1. ASSUME NEW b \in SUBSET (0 .. 7)
        PROVE  b \in Word /\ b \cup 8 .. 15 \in Word
    <3>1. \A i \in b : i \in 0 .. 15
      OBVIOUS
    <3>2. \A i \in 8 .. 15 : i \in 0 .. 15
      OBVIOUS
    <3> QED
      BY <3>1, <3>2 DEF Word
  <2> QED
    BY <1>1, <1>2, <2>1
<1>4. Xor(Promoted(c), Promoted(d)) \in Word
  BY <1>3, BitStepLinear
<1>5. SignExtended(Xor(Promoted(c), Promoted(d)))
  <2>1. CASE CharIsSigned
    <3>1. /\ \A i \in 8 .. 15 : i \in Promoted(c) <=> 7 \in c
          /\ \A i \in 8 .. 15 : i \in Promoted(d) <=> 7 \in d
          /\ 7 \in Promoted(c) <=> 7 \in c
          /\ 7 \in Promoted(d) <=> 7 \in d
      BY <1>1, <2>1 DEF Promoted
    <3>2. CASE 7 \in c <=> 7 \in d
      <4>1. \A i \in 8 .. 15 : i \notin Xor(Promoted(c), Promoted(d))
        BY <3>1, <3>2, XorBit
      <4> QED
        BY <1>4, <4>1 DEF SignExtended, Word
    <3>3. CASE ~(7 \in c <=> 7 \in d)
      <4>1. \A i \in 8 .. 15 : i \in Xor(Promoted(c), Promoted(d))
        BY <3>1, <3>3, XorBit
      <4>2. 7 \in Xor(Promoted(c), Promoted(d))
        BY <3>1, <3>3, XorBit
      <4> QED
        BY <4>1, <4>2 DEF SignExtended
    <3> QED
      BY <3>2, <3>3
  <2>2. CASE ~CharIsSigned
    <3>1. Promoted(c) = c /\ Promoted(d) = d
      BY <2>2 DEF Promoted
    <3> QED
      BY <1>1, <3>1 DEF Xor, SignExtended
  <2> QED
    BY <2>1, <2>2
<1>6. ASSUME Xor(Promoted(c), Promoted(d)) = {}
      PROVE  c = d
  <2>1. Promoted(c) = Promoted(d)
    BY <1>6 DEF Xor
  <2>2. ASSUME NEW b \in SUBSET (0 .. 7)
        PROVE  b = b \cap 0 .. 7 /\ b = (b \cup 8 .. 15) \cap 0 .. 7
    <3>1. \A i \in 8 .. 15 : i \notin 0 .. 7
      OBVIOUS
    <3> QED
      BY <3>1
  <2>3. c = Promoted(c) \cap 0 .. 7
    BY <1>1, <1>2, <2>2
  <2>4. d = Promoted(d) \cap 0 .. 7
    BY <1>1, <1>2, <2>2
  <2> QED
    BY <2>1, <2>3, <2>4
<1> QED
  BY <1>3, <1>4, <1>5, <1>6

\* Xor by itself.
LEMMA XorLaws ==
  ASSUME NEW a, NEW b, NEW c, NEW d
  PROVE  /\ Xor(a, b) = {} <=> a = b
         /\ Xor(a, c) = Xor(b, c) => a = b
         /\ Xor(Xor(a, c), Xor(a, d)) = Xor(c, d)
         /\ Xor(a, c) = Xor(b, d) => Xor(a, b) = Xor(c, d)
  BY DEF Xor

\* A turn of the outer loop: it keeps CRCs apart while the characters are equal,
\* brings a difference of two characters to one that is not such a difference,
\* and so cannot be made up for by the next character.
LEMMA Turn ==
  ASSUME NEW v \in Word, NEW w \in Word, NEW c \in Chars, NEW d \in Chars
  PROVE  /\ StringStep(v, c) \in Word
         /\ StringStep(v, c) = StringStep(w, c) => v = w
         /\ StringStep(v, c) = StringStep(w, d)
              => SignExtended(Xor(v, w))
         /\ SignExtended(Xor(StringStep(v, c), StringStep(v, d))) => c = d
<1> DEFINE vc == Xor(v, Promoted(c))
           vd == Xor(v, Promoted(d))
           wc == Xor(w, Promoted(c))
           wd == Xor(w, Promoted(d))
<1>1. vc \in Word /\ vd \in Word /\ wc \in Word /\ wd \in Word
  BY Characters, BitStepLinear
<1>2. /\ StringStep(v, c) = EightTimes(vc)
      /\ StringStep(v, d) = EightTimes(vd)
      /\ StringStep(w, c) = EightTimes(wc)
      /\ StringStep(w, d) = EightTimes(wd)
  BY DEF StringStep
<1> HIDE DEF vc, vd, wc, wd
<1>3. StringStep(v, c) \in Word
  BY <1>1, <1>2, EightTimesLemma
<1>4. ASSUME StringStep(v, c) = StringStep(w, c)
      PROVE  v = w
  <2>1. vc = wc
    BY <1>1, <1>2, <1>4, EightTimesLemma, ZenonT(30)
  <2> QED
    BY <2>1, XorLaws DEF vc, wc
<1>5. ASSUME StringStep(v, c) = StringStep(w, d)
      PROVE  SignExtended(Xor(v, w))
  <2>1. vc = wd
    BY <1>1, <1>2, <1>5, EightTimesLemma, ZenonT(30)
  <2>2. Xor(v, w) = Xor(Promoted(c), Promoted(d))
    BY <2>1, XorLaws DEF vc, wd
  <2> QED
    BY <2>2, Characters
<1>6. ASSUME SignExtended(Xor(StringStep(v, c), StringStep(v, d)))
      PROVE  c = d
  <2> DEFINE e == Xor(Promoted(c), Promoted(d))
  <2>1. Xor(vc, vd) = e
    BY XorLaws DEF vc, vd
  <2>2. EightTimes(e) = Xor(EightTimes(vc), EightTimes(vd))
    BY <1>1, <2>1, EightTimesLemma
  <2>3. SignExtended(EightTimes(e))
    BY <1>2, <1>6, <2>2
  <2>4. e \in Word /\ SignExtended(e)
    BY Characters
  <2>5. e = {}
    BY <2>3, <2>4, EightTurnsOfAByte
  <2> QED
    BY <2>5, Characters
<1> QED
  BY <1>3, <1>4, <1>5, <1>6

-----------------------------------------------------------------------------
(* The theorems.                                                           *)

\* As long as only the last character was changed, the two CRCs differ by more than
\* another character can make up for.
CrcInv ==
  /\ length \in 0 .. MaxLength
  /\ ascii \in BOOLEAN
  /\ frameCrc \in Word /\ lineCrc \in Word /\ readCrc \in Word
  /\ damage \in {"none", "fresh", "old"}
  /\ ascii => frameCrc = lineCrc
  /\ damage = "none" => readCrc = lineCrc
  /\ damage = "fresh" => ~SignExtended(Xor(readCrc, lineCrc))
  /\ damage = "old" => readCrc # lineCrc

LEMMA CrcInitInv == CrcInit => CrcInv
<1> SUFFICES ASSUME CrcInit PROVE CrcInv
  OBVIOUS
<1>1. 0 \in 0 .. MaxLength
  BY CrcAssumption
<1> QED
  BY <1>1 DEF CrcInit, CrcInv, Word

\* The CRCs of a character that is written and read.
LEMMA TransferInv ==
  ASSUME CrcInv, NEW c \in Chars, NEW d \in Chars, Transfer(c, d)
  PROVE  /\ length' \in 0 .. MaxLength
         /\ ascii' \in BOOLEAN
         /\ frameCrc' \in Word /\ lineCrc' \in Word /\ readCrc' \in Word
         /\ ascii' => frameCrc' = lineCrc'
<1>1. length' \in 0 .. MaxLength
  BY CrcAssumption DEF CrcInv, Transfer
<1>2. ascii' \in BOOLEAN
  BY DEF CrcInv, Transfer
<1>3. lineCrc' \in Word /\ readCrc' \in Word
  BY Turn DEF CrcInv, Transfer
<1>4. frameCrc' \in Word
  <2>1. c \in Word
    BY CrcAssumption DEF Word
  <2>2. Xor(frameCrc, c) \in Word
    BY <2>1, BitStepLinear DEF CrcInv
  <2> QED
    BY <2>2, EightTimesLemma DEF Transfer, BytesStep
<1>5. ascii' => frameCrc' = lineCrc'
  BY DEF CrcInv, Transfer, BytesStep, StringStep, Promoted
<1> QED
  BY <1>1, <1>2, <1>3, <1>4, <1>5

LEMMA ArrivesInv ==
  ASSUME CrcInv, NEW c \in Chars, Arrives(c)
  PROVE  CrcInv'
<1>1. Transfer(c, c)
  BY DEF Arrives
<1>2. CASE damage = "none"
  <2>1. damage' = "none"
    BY <1>2 DEF Arrives
  <2>2. readCrc' = lineCrc'
    BY <1>1, <1>2 DEF CrcInv, Transfer
  <2> QED
    BY <1>1, <2>1, <2>2, TransferInv DEF CrcInv
<1>3. CASE damage # "none"
  <2>1. damage' = "old"
    BY <1>3 DEF Arrives
  <2>2. readCrc # lineCrc
    <3>1. SignExtended(Xor(lineCrc, lineCrc))
      BY DEF Xor, SignExtended
    <3> QED
      BY <1>3, <3>1 DEF CrcInv
  <2>3. readCrc' # lineCrc'
    BY <1>1, <2>2, Turn DEF CrcInv, Transfer
  <2> QED
    BY <1>1, <2>1, <2>3, TransferInv DEF CrcInv
<1> QED
  BY <1>2, <1>3

LEMMA ChangesInv ==
  ASSUME CrcInv, NEW c \in Chars, NEW d \in Chars, Changes(c, d)
  PROVE  CrcInv'
<1>1. Transfer(c, d) /\ c # d
  BY DEF Changes
<1>2. CASE damage = "none"
  <2>1. damage' = "fresh"
    BY <1>2 DEF Changes
  <2>2. /\ readCrc' = StringStep(lineCrc, d)
        /\ lineCrc' = StringStep(lineCrc, c)
    BY <1>1, <1>2 DEF CrcInv, Transfer
  <2>3. ~SignExtended(Xor(readCrc', lineCrc'))
    BY <1>1, <2>2, Turn DEF CrcInv
  <2> QED
    BY <1>1, <2>1, <2>3, TransferInv DEF CrcInv
<1>3. CASE damage = "fresh"
  <2>1. damage' = "old"
    BY <1>3 DEF Changes
  <2>2. ~SignExtended(Xor(readCrc, lineCrc))
    BY <1>3 DEF CrcInv
  <2>3. readCrc' # lineCrc'
    BY <1>1, <2>2, Turn DEF CrcInv, Transfer
  <2> QED
    BY <1>1, <2>1, <2>3, TransferInv DEF CrcInv
<1> QED
  BY <1>2, <1>3 DEF Changes

LEMMA CrcNextInv == CrcInv /\ [CrcNext]_crcVars => CrcInv'
<1> SUFFICES ASSUME CrcInv, [CrcNext]_crcVars PROVE CrcInv'
  OBVIOUS
<1>1. CASE CrcNext
  BY <1>1, ArrivesInv, ChangesInv DEF CrcNext
<1>2. CASE UNCHANGED crcVars
  BY <1>2 DEF CrcInv, crcVars
<1> QED
  BY <1>1, <1>2

THEOREM CrcInvariance == CrcSpec => []CrcInv
  BY CrcInitInv, CrcNextInv, PTL DEF CrcSpec

\* Both CRCs stay words of 16 bits, however long the line.
THEOREM CrcTypes == CrcSpec => []CrcTypeOK
<1>1. CrcInv => CrcTypeOK
  BY DEF CrcInv, CrcTypeOK
<1> QED
  BY <1>1, CrcInvariance, PTL

\* On ASCII text crc16(Bytes) and crc16(String) of Flows.cpp compute the same.
THEOREM BothFunctionsAgree == CrcSpec => []CrcsAgree
<1>1. CrcInv => CrcsAgree
  BY DEF CrcInv, CrcsAgree
<1> QED
  BY <1>1, CrcInvariance, PTL

\* The gateway's check (Flows.cpp, crlfCrcToRequest) never lets a line through of
\* which one character or two in a row were changed, whatever the line and however
\* long it is, on machines where a char is signed and on those where it is not.
THEOREM NoiseIsNoticed == CrcSpec => []DamageDetected
<1>1. CrcInv => DamageDetected
  <2>1. SignExtended(Xor(lineCrc, lineCrc))
    BY DEF Xor, SignExtended
  <2> QED
    BY <2>1 DEF CrcInv, DamageDetected
<1> QED
  BY <1>1, CrcInvariance, PTL

-----------------------------------------------------------------------------
(* Lines of a text that grows by one byte.                                 *)

\* The bytes that do not end a line.
Plain == {b \in Bytes : ~Delimits(b)}

\* A text with one more byte.
LEMMA OneMore ==
  ASSUME NEW S, NEW s \in Seq(S), NEW c \in S, NEW t, t = Append(s, c)
  PROVE  /\ t \in Seq(S) /\ Len(t) = Len(s) + 1 /\ Len(s) \in Nat
         /\ t[Len(s) + 1] = c
         /\ \A i \in 1 .. Len(s) : t[i] = s[i]
         /\ \A a \in 1 .. Len(s) + 1 :
              SubSeq(t, a, Len(s) + 1) = Append(SubSeq(s, a, Len(s)), c)
         /\ \A a \in 1 .. Len(s) + 1, b \in 0 .. Len(s) :
              SubSeq(t, a, b) = SubSeq(s, a, b)
<1>1. /\ t \in Seq(S) /\ Len(t) = Len(s) + 1 /\ Len(s) \in Nat
      /\ t[Len(s) + 1] = c
      /\ \A i \in 1 .. Len(s) : t[i] = s[i]
  OBVIOUS
<1>2. ASSUME NEW a \in 1 .. Len(s) + 1
      PROVE  SubSeq(t, a, Len(s) + 1) = Append(SubSeq(s, a, Len(s)), c)
  OBVIOUS
<1>3. ASSUME NEW a \in 1 .. Len(s) + 1, NEW b \in 0 .. Len(s)
      PROVE  SubSeq(t, a, b) = SubSeq(s, a, b)
  OBVIOUS
<1> QED BY <1>1, <1>2, <1>3

\* Where the line begins that ends before place i.
LEMMA LineStartRange ==
  ASSUME NEW S, NEW text \in Seq(S), NEW i \in Nat \ {0}
  PROVE  /\ LineStart(text, i) \in 1 .. i
         /\ \A j \in Ends(text) : j < i => j < LineStart(text, i)
         /\ LineStart(text, i) # 1 => LineStart(text, i) - 1 \in Ends(text)
<1> DEFINE before == {j \in Ends(text) : j < i}
           n == Len(text)
<1>1. n \in Nat /\ before \in SUBSET (1 .. n) /\ \A j \in before : j < i /\ j \in Nat \ {0}
  BY DEF Ends
<1>2. CASE before = {}
  BY <1>1, <1>2 DEF LineStart
<1>3. CASE before # {}
  <2> DEFINE m == Max(before)
  <2>1. m \in before /\ \A k \in before : k <= m
    <3> HIDE DEF before, n
    <3> QED BY <1>1, <1>3, MaxIn
  <2>2. LineStart(text, i) = 1 + m
    BY <1>3 DEF LineStart
  <2> HIDE DEF m
  <2> QED BY <1>1, <2>1, <2>2
<1> QED BY <1>2, <1>3

\* Where lines end, after one more byte.
LEMMA EndsGrow ==
  ASSUME NEW text \in Seq(Bytes), NEW c \in Bytes, NEW t, t = Append(text, c)
  PROVE  /\ Ends(t) = IF Delimits(c) THEN Ends(text) \cup {Len(text) + 1} ELSE Ends(text)
         /\ Ends(text) \subseteq 1 .. Len(text) /\ Len(text) \in Nat
<1>1. /\ t \in Seq(Bytes) /\ Len(t) = Len(text) + 1 /\ Len(text) \in Nat
      /\ t[Len(text) + 1] = c
      /\ \A i \in 1 .. Len(text) : t[i] = text[i]
  BY OneMore
<1>2. \A i : i \in 1 .. Len(t) <=> i \in 1 .. Len(text) \/ i = Len(text) + 1
  BY <1>1
<1> QED BY <1>1, <1>2 DEF Ends

LEMMA LineAtIs ==
  ASSUME NEW text, NEW i
  PROVE  LineAt(text, i) = SubSeq(text, LineStart(text, i), i - 1)
BY DEF LineAt

LEMMA EndsBefore ==
  ASSUME NEW text \in Seq(Bytes), NEW c \in Bytes, NEW t, t = Append(text, c)
  PROVE  /\ \A i \in 1 .. Len(text) + 1, j \in Ends(t) : j < i => j \in Ends(text)
         /\ Ends(text) \subseteq Ends(t)
         /\ ~Delimits(c) =>
              {j \in Ends(t) : j < Len(text) + 2} = {j \in Ends(text) : j < Len(text) + 1}
<1> DEFINE n == Len(text)
           A == Ends(text)
           B == Ends(t)
<1>1. /\ n \in Nat /\ A \subseteq 1 .. n
      /\ B = IF Delimits(c) THEN A \cup {n + 1} ELSE A
  BY EndsGrow
<1> HIDE DEF n, A, B
<1>2. ASSUME NEW i \in 1 .. n + 1, NEW j \in B, j < i PROVE j \in A
  <2>1. ~ n + 1 < i
    BY <1>1
  <2> QED BY <1>1, <1>2, <2>1
<1>4. A \subseteq B
  BY <1>1
<1>3. ASSUME ~Delimits(c) PROVE {j \in B : j < n + 2} = {j \in A : j < n + 1}
  <2>1. \A j \in 1 .. n : j < n + 2 /\ j < n + 1
    BY <1>1
  <2>2. \A j \in A : j < n + 2 /\ j < n + 1
    BY <1>1, <2>1
  <2>3. A = B
    BY <1>1, <1>3
  <2> QED BY <2>2, <2>3
<1> QED BY <1>2, <1>3, <1>4 DEF n, A, B

\* The lines that were there stay.
LEMMA LinesStay ==
  ASSUME NEW text \in Seq(Bytes), NEW c \in Bytes, NEW t, t = Append(text, c),
         NEW i \in 1 .. Len(text) + 1
  PROVE  LineAt(t, i) = LineAt(text, i) /\ LineStart(t, i) = LineStart(text, i)
<1>1. Len(text) \in Nat /\ i \in Nat \ {0}
  OBVIOUS
<1>2. {j \in Ends(t) : j < i} = {j \in Ends(text) : j < i}
  <2>1. (\A j \in Ends(t) : j < i => j \in Ends(text)) /\ Ends(text) \subseteq Ends(t)
    BY EndsBefore
  <2> QED BY <2>1
<1>3. LineStart(t, i) = LineStart(text, i)
  BY <1>2 DEF LineStart
<1>4. LineStart(text, i) \in 1 .. i
  BY <1>1, LineStartRange
<1>5. LineStart(text, i) \in 1 .. Len(text) + 1 /\ i - 1 \in 0 .. Len(text)
  BY <1>1, <1>4
<1>6. SubSeq(t, LineStart(text, i), i - 1) = SubSeq(text, LineStart(text, i), i - 1)
  <2> HIDE DEF LineStart
  <2> QED BY <1>5, OneMore
<1> QED BY <1>3, <1>6 DEF LineAt

\* What follows the last delimiter.
LEMMA OpenGrows ==
  ASSUME NEW text \in Seq(Bytes), NEW c \in Bytes, NEW t, t = Append(text, c)
  PROVE  OpenLine(t) = IF Delimits(c) THEN << >> ELSE Append(OpenLine(text), c)
<1> DEFINE n == Len(text)
<1>1. n \in Nat /\ Len(t) = n + 1 /\ t \in Seq(Bytes)
  BY OneMore
<1>2. CASE Delimits(c)
  <2>1. n + 1 \in Ends(t)
    <3>1. Ends(t) = IF Delimits(c) THEN Ends(text) \cup {n + 1} ELSE Ends(text)
      BY EndsGrow
    <3> QED BY <1>2, <3>1
  <2>2. n + 2 \in Nat \ {0} /\ n + 1 < n + 2
    BY <1>1
  <2>3. LineStart(t, n + 2) \in 1 .. n + 2 /\ n + 1 < LineStart(t, n + 2)
    BY <1>1, <2>1, <2>2, LineStartRange
  <2>4. LineStart(t, n + 2) = n + 2
    BY <1>1, <2>3
  <2>5. OpenLine(t) = SubSeq(t, n + 2, n + 1)
    <3>1. Len(t) + 1 = n + 2 /\ (n + 2) - 1 = n + 1
      BY <1>1
    <3> QED BY <2>4, <3>1 DEF OpenLine, LineAt
  <2> QED BY <1>1, <1>2, <2>5
<1>3. CASE ~Delimits(c)
  <2>2. {j \in Ends(t) : j < n + 2} = {j \in Ends(text) : j < n + 1}
    BY <1>3, EndsBefore
  <2>3. LineStart(t, n + 2) = LineStart(text, n + 1)
    BY <2>2 DEF LineStart
  <2>4. LineStart(text, n + 1) \in 1 .. n + 1
    BY <1>1, LineStartRange
  <2>5. SubSeq(t, LineStart(text, n + 1), n + 1)
          = Append(SubSeq(text, LineStart(text, n + 1), n), c)
    BY <2>4, OneMore
  <2>6. OpenLine(t) = SubSeq(t, LineStart(text, n + 1), n + 1)
    <3>1. Len(t) + 1 = n + 2 /\ (n + 2) - 1 = n + 1
      BY <1>1
    <3>2. OpenLine(t) = LineAt(t, n + 2)
      BY <3>1 DEF OpenLine
    <3>3. ASSUME NEW i, i = n + 2 PROVE LineAt(t, i) = SubSeq(t, LineStart(t, i), n + 1)
      <4>1. LineAt(t, i) = SubSeq(t, LineStart(t, i), i - 1)
        BY LineAtIs
      <4>2. i - 1 = n + 1
        BY <1>1, <3>3
      <4> QED BY <4>1, <4>2
    <3> QED BY <2>3, <3>1, <3>2, <3>3
  <2>7. OpenLine(text) = SubSeq(text, LineStart(text, n + 1), n)
    <3>1. (n + 1) - 1 = n
      BY <1>1
    <3>2. OpenLine(text) = LineAt(text, n + 1)
      BY DEF OpenLine
    <3>3. LineAt(text, n + 1) = SubSeq(text, LineStart(text, n + 1), (n + 1) - 1)
      BY LineAtIs
    <3> QED BY <3>1, <3>2, <3>3
  <2> QED BY <1>3, <2>5, <2>6, <2>7
<1> QED BY <1>2, <1>3

\* Every place at which a line ends can be asked for.
Listed(text) == \A k \in 1 .. Cardinality(LineEnds(text)) : Ranked(LineEnds(text), k) # {}

\* F is E and a last number: the places of the others stay as they are.
RanksWith(E, F, last) ==
  /\ Cardinality(E) \in Nat /\ Cardinality(F) = Cardinality(E) + 1
  /\ \A k \in 1 .. Cardinality(E) : Ranked(F, k) = Ranked(E, k)
  /\ Ranked(F, Cardinality(E) + 1) = {last}

\* A set of numbers with a larger one added: its places, and the place of that one.
LEMMA RanksGrow ==
  ASSUME NEW l \in Nat, NEW E \in SUBSET (1 .. l), NEW F, F = E \cup {l + 1}
  PROVE  RanksWith(E, F, l + 1)
<1> DEFINE n == Cardinality(E)
           Upto(i) == {j \in E : j <= i}
<1>0. IsFiniteSet(E) /\ n \in Nat /\ l + 1 \notin E
  <2>1. IsFiniteSet(1 .. l)
    BY FS_Interval
  <2>2. IsFiniteSet(E)
    BY <2>1, FS_Subset
  <2>3. n \in Nat
    BY <2>2, FS_CardinalityType
  <2>4. l + 1 \notin E
    OBVIOUS
  <2> QED BY <2>2, <2>3, <2>4
<1>1. Cardinality(F) = n + 1
  BY <1>0, FS_AddElement
<1>2. ASSUME NEW i \in E PROVE {j \in F : j <= i} = Upto(i)
  <2>1. ~ l + 1 <= i
    OBVIOUS
  <2> QED BY <2>1
<1>3. {j \in F : j <= l + 1} = F
  <2>1. \A j \in 1 .. l : j <= l + 1
    OBVIOUS
  <2>2. l + 1 <= l + 1
    OBVIOUS
  <2>3. \A j \in F : j <= l + 1
    BY <2>1, <2>2
  <2> QED BY <2>3
<1>4. ASSUME NEW i \in E PROVE Cardinality(Upto(i)) \in Nat /\ Cardinality(Upto(i)) <= n
  <2>1. Upto(i) \subseteq E
    OBVIOUS
  <2> QED BY <1>0, <2>1, FS_Subset, FS_CardinalityType
<1> HIDE DEF n, Upto
<1>5. ASSUME NEW k \in 1 .. n PROVE Ranked(F, k) = Ranked(E, k)
  <2>1. Cardinality({j \in F : j <= l + 1}) # k
    <3>1. n + 1 # k
      BY <1>0
    <3> QED BY <1>1, <1>3, <3>1
  <2>2. \A i \in E : Cardinality({j \in F : j <= i}) = Cardinality({j \in E : j <= i})
    BY <1>2 DEF Upto
  <2> QED BY <2>1, <2>2 DEF Ranked
<1>6. Ranked(F, n + 1) = {l + 1}
  <2>1. ASSUME NEW i \in E PROVE Cardinality({j \in F : j <= i}) # n + 1
    <3>1. Cardinality({j \in F : j <= i}) = Cardinality(Upto(i))
      BY <1>2
    <3> QED BY <1>0, <1>4, <3>1
  <2>2. Cardinality({j \in F : j <= l + 1}) = n + 1
    BY <1>1, <1>3
  <2> QED BY <2>1, <2>2 DEF Ranked
<1> QED BY <1>0, <1>1, <1>5, <1>6 DEF n, RanksWith

\* Where lines end after one more byte: there too, if it is a delimiter and
\* something precedes it.
LEMMA LineEndsGrow ==
  ASSUME NEW text \in Seq(Bytes), NEW c \in Bytes, NEW t, t = Append(text, c)
  PROVE  /\ LineEnds(t) = IF Delimits(c) /\ OpenLine(text) # << >>
                          THEN LineEnds(text) \cup {Len(text) + 1} ELSE LineEnds(text)
         /\ LineEnds(text) \in SUBSET (1 .. Len(text)) /\ Len(text) \in Nat
<1> DEFINE l == Len(text)
<1>1. /\ Ends(t) = IF Delimits(c) THEN Ends(text) \cup {l + 1} ELSE Ends(text)
      /\ Ends(text) \subseteq 1 .. l /\ l \in Nat
  BY EndsGrow
<1>2. \A i \in 1 .. l + 1 : LineAt(t, i) = LineAt(text, i)
  BY LinesStay
<1>3. LineAt(text, l + 1) = OpenLine(text)
  BY DEF OpenLine
<1> HIDE DEF l
<1>4. (\A i \in Ends(text) : i \in 1 .. l + 1) /\ l + 1 \in 1 .. l + 1
  BY <1>1
<1>5. \A i \in Ends(text) : LineAt(t, i) = LineAt(text, i)
  BY <1>2, <1>4
<1>6. LineAt(t, l + 1) = OpenLine(text)
  BY <1>2, <1>3, <1>4
<1>7. LineEnds(t) = IF Delimits(c) /\ OpenLine(text) # << >>
                    THEN LineEnds(text) \cup {l + 1} ELSE LineEnds(text)
  BY <1>1, <1>5, <1>6 DEF LineEnds
<1>8. LineEnds(text) \in SUBSET (1 .. l)
  BY <1>1 DEF LineEnds
<1> QED BY <1>1, <1>7, <1>8 DEF l

\* t has one more line than text if c is a delimiter and something precedes it.
Longer(text, c, t) ==
  /\ Listed(t)
  /\ Cardinality(LineEnds(text)) \in Nat
  /\ \A k \in 1 .. Cardinality(LineEnds(text)) :
       CompleteLines(t)[k] = CompleteLines(text)[k]
  /\ IF Delimits(c) /\ OpenLine(text) # << >>
     THEN /\ Cardinality(LineEnds(t)) = Cardinality(LineEnds(text)) + 1
          /\ CompleteLines(t)[Cardinality(LineEnds(text)) + 1] = OpenLine(text)
     ELSE Cardinality(LineEnds(t)) = Cardinality(LineEnds(text))

\* The complete lines after one more byte.
LEMMA CompleteGrow ==
  ASSUME NEW text \in Seq(Bytes), NEW c \in Bytes, NEW t, t = Append(text, c),
         Listed(text)
  PROVE  Longer(text, c, t)
<1> DEFINE E == LineEnds(text)
           F == LineEnds(t)
           n == Cardinality(E)
           l == Len(text)
<1>1. /\ F = IF Delimits(c) /\ OpenLine(text) # << >> THEN E \cup {l + 1} ELSE E
      /\ E \in SUBSET (1 .. l) /\ l \in Nat
  BY LineEndsGrow
<1>2. \A k \in 1 .. n : Ranked(E, k) # {}
  BY DEF Listed
<1>3. n \in Nat
  <2> HIDE DEF E
  <2>1. IsFiniteSet(1 .. l)
    BY <1>1, FS_Interval
  <2> QED BY <1>1, <2>1, FS_Subset, FS_CardinalityType
<1>4. \A i \in 1 .. l + 1 : LineAt(t, i) = LineAt(text, i)
  BY LinesStay
<1>5. LineAt(text, l + 1) = OpenLine(text)
  BY DEF OpenLine
<1>a. /\ \A k \in 1 .. n : CompleteLines(text)[k] = LineAt(text, Nth(E, k))
      /\ \A k \in 1 .. Cardinality(F) : CompleteLines(t)[k] = LineAt(t, Nth(F, k))
  BY DEF CompleteLines
<1> HIDE DEF E, F, l
<1>6. ASSUME NEW k \in 1 .. n PROVE Nth(E, k) \in 1 .. l + 1
  <2>1. Nth(E, k) \in Ranked(E, k)
    <3> DEFINE R == Ranked(E, k)
    <3>1. R # {}
      BY <1>2
    <3>2. Nth(E, k) = CHOOSE i \in R : TRUE
      BY DEF Nth
    <3> HIDE DEF R
    <3>3. Nth(E, k) \in R
      BY <3>1, <3>2
    <3> QED BY <3>3 DEF R
  <2>2. Nth(E, k) \in E
    BY <2>1 DEF Ranked
  <2>3. \A x \in 1 .. l : x \in 1 .. l + 1
    BY <1>1
  <2> HIDE DEF n
  <2> QED BY <1>1, <2>2, <2>3
<1>7. CASE Delimits(c) /\ OpenLine(text) # << >>
  <2>1. F = E \cup {l + 1}
    BY <1>1, <1>7
  <2>2. /\ Cardinality(F) = n + 1
        /\ \A k \in 1 .. n : Ranked(F, k) = Ranked(E, k)
        /\ Ranked(F, n + 1) = {l + 1}
    <3>1. l \in Nat /\ E \in SUBSET (1 .. l) /\ F = E \cup {l + 1}
      BY <1>1, <2>1
    <3>2. RanksWith(E, F, l + 1)
      BY <3>1, RanksGrow
    <3> QED BY <3>2 DEF RanksWith
  <2> HIDE DEF n
  <2>3. ASSUME NEW k \in 1 .. n PROVE CompleteLines(t)[k] = CompleteLines(text)[k]
    <3>1. Nth(F, k) = Nth(E, k)
      BY <2>2 DEF Nth
    <3>2. CompleteLines(t)[k] = LineAt(t, Nth(F, k))
      BY <1>3, <1>a, <2>2
    <3>3. CompleteLines(text)[k] = LineAt(text, Nth(E, k))
      BY <1>a
    <3> QED BY <1>4, <1>6, <3>1, <3>2, <3>3
  <2>4. Nth(F, n + 1) = l + 1
    BY <2>2 DEF Nth
  <2>5. CompleteLines(t)[n + 1] = OpenLine(text)
    <3>1. n + 1 \in 1 .. Cardinality(F) /\ l + 1 \in 1 .. l + 1
      BY <1>1, <1>3, <2>2
    <3>2. CompleteLines(t)[n + 1] = LineAt(t, l + 1)
      BY <1>a, <2>4, <3>1
    <3> QED BY <1>4, <1>5, <3>1, <3>2
  <2>6. \A k \in 1 .. n + 1 : Ranked(F, k) # {}
    <3>1. \A k \in 1 .. n + 1 : k \in 1 .. n \/ k = n + 1
      BY <1>3
    <3> QED BY <1>2, <2>2, <3>1
  <2> QED BY <1>3, <1>7, <2>2, <2>3, <2>5, <2>6 DEF Longer, Listed, n, E, F
<1>8. CASE ~ (Delimits(c) /\ OpenLine(text) # << >>)
  <2>1. F = E
    BY <1>1, <1>8
  <2>2. ASSUME NEW k \in 1 .. n PROVE CompleteLines(t)[k] = CompleteLines(text)[k]
    <3>1. CompleteLines(t)[k] = LineAt(t, Nth(E, k))
      BY <1>a, <2>1
    <3>2. CompleteLines(text)[k] = LineAt(text, Nth(E, k))
      BY <1>a
    <3> QED BY <1>4, <1>6, <3>1, <3>2
  <2> QED BY <1>2, <1>3, <1>8, <2>1, <2>2 DEF Longer, Listed, n, E, F
<1> QED BY <1>7, <1>8

-----------------------------------------------------------------------------
(* What a deframer keeps.                                                  *)

LEMMA RoomIs ==
  Room \in Nat \ {0} /\ MaxFrameLength \in Nat /\ Room = MaxFrameLength + 1
BY FramingAssumption DEF Room

LEMMA KeptShape ==
  ASSUME NEW S, NEW l \in Seq(S), l # << >>
  PROVE  LET r == (Len(l) - 1) % Room IN
         /\ r \in 0 .. Room - 1 /\ r < Len(l)
         /\ Kept(l) = SubSeq(l, Len(l) - r, Len(l))
         /\ Kept(l) \in Seq(S) /\ Len(Kept(l)) = r + 1
<1> DEFINE n == Len(l)
           r == (n - 1) % Room
<1>1. n \in Nat /\ n >= 1 /\ n - 1 \in Nat
  OBVIOUS
<1>2. r \in 0 .. Room - 1 /\ r <= n - 1
  BY <1>1, RoomIs, RemainderSmall
<1>3. Kept(l) = SubSeq(l, n - r, n)
  BY DEF Kept
<1>4. n - r \in 1 .. n + 1 /\ n \in 0 .. n /\ n - r <= n + 1
  <2> HIDE DEF n, r
  <2> QED BY <1>1, <1>2, RoomIs
<1>5. SubSeq(l, n - r, n) \in Seq(S) /\ Len(SubSeq(l, n - r, n)) = n - (n - r) + 1
  <2> HIDE DEF r
  <2> QED BY <1>4, SubSeqShape
<1>6. n - (n - r) + 1 = r + 1
  <2> HIDE DEF n, r
  <2> QED BY <1>1, <1>2, RoomIs
<1>7. r < n
  <2> HIDE DEF n, r
  <2> QED BY <1>1, <1>2, RoomIs
<1> QED BY <1>2, <1>3, <1>5, <1>6, <1>7

LEMMA KeptIs ==
  ASSUME NEW l, NEW m, NEW p, l # << >>, Len(l) = m, m - 1 = p
  PROVE  Kept(l) = SubSeq(l, m - (p % Room), m)
<1>1. Kept(l) = SubSeq(l, Len(l) - ((Len(l) - 1) % Room), Len(l))
  BY DEF Kept
<1> QED BY <1>1

\* What is kept of a line follows the rule of Store, byte by byte.
LEMMA KeptGrows ==
  ASSUME NEW S, NEW l \in Seq(S), NEW c \in S, NEW k, k = Append(l, c)
  PROVE  Kept(k) = Store(Kept(l), c)
<1> DEFINE n == Len(l)
<1>1. /\ k \in Seq(S) /\ Len(k) = n + 1 /\ n \in Nat
      /\ \A a \in 1 .. n + 1 : SubSeq(k, a, n + 1) = Append(SubSeq(l, a, n), c)
  BY OneMore
<1>2. k # << >> /\ Len(k) - 1 = n
  BY <1>1
<1>3. Kept(k) = SubSeq(k, (n + 1) - (n % Room), n + 1)
  <2> DEFINE m == n + 1
  <2>1. k # << >> /\ Len(k) = m /\ m - 1 = n
    BY <1>1, <1>2
  <2> HIDE DEF n, m
  <2>2. Kept(k) = SubSeq(k, m - (n % Room), m)
    BY <2>1, KeptIs
  <2> QED BY <2>2 DEF m
<1>4. CASE l = << >>
  <2>1. n = 0 /\ Kept(l) = << >>
    BY <1>4 DEF Kept
  <2>2. n % Room = 0
    <3>1. 0 \in 0 .. Room - 1
      BY RoomIs
    <3> QED BY <2>1, <3>1, RoomIs, SmallRemainder
  <2>3. Kept(k) = Append(SubSeq(l, 1, 0), c)
    <3>1. (n + 1) - (n % Room) = 1 /\ n + 1 = 1 /\ 1 \in 1 .. n + 1
      BY <2>1, <2>2
    <3> QED BY <1>1, <1>3, <2>1, <3>1
  <2>4. Store(<< >>, c) = Append(<< >>, c)
    BY RoomIs DEF Store
  <2>5. SubSeq(l, 1, 0) = << >>
    BY <1>4
  <2> QED BY <2>1, <2>3, <2>4, <2>5
<1>5. CASE l # << >>
  <2> DEFINE r == (n - 1) % Room
  <2>1. /\ r \in 0 .. Room - 1 /\ r < n
        /\ Kept(l) = SubSeq(l, n - r, n) /\ Len(Kept(l)) = r + 1
    BY <1>5, KeptShape
  <2>2. n - 1 \in Nat /\ n - 1 \in Int
    BY <1>1, <1>5
  <2>6. r \in 0 .. Room - 1 /\ r \in Nat /\ Len(Kept(l)) = r + 1
    <3>1. r \in 0 .. Room - 1 /\ Len(Kept(l)) = r + 1
      BY <2>1
    <3>2. \A x \in 0 .. Room - 1 : x \in Nat
      BY RoomIs
    <3> HIDE DEF r
    <3> QED BY <3>1, <3>2
  <2>3. CASE r + 1 < Room
    <3>1. ((n - 1) + 1) % Room = r + 1
      BY <2>2, <2>3, RoomIs, NoWrap
    <3>2. n % Room = r + 1
      <4>1. (n - 1) + 1 = n
        BY <1>1
      <4> QED BY <3>1, <4>1
    <3> HIDE DEF r, n
    <3>3. (n + 1) - (n % Room) = n - r /\ n - r \in 1 .. n + 1
      BY <1>1, <2>1, <3>2, RoomIs
    <3>4. Kept(k) = Append(Kept(l), c)
      BY <1>1, <1>3, <2>1, <3>3
    <3>5. ~ Len(Kept(l)) > MaxFrameLength
      BY <2>3, <2>6, RoomIs
    <3> QED BY <3>4, <3>5 DEF Store
  <2>4. CASE r + 1 = Room
    <3> DEFINE q == (n - 1) \div Room
    <3>1. q \in Int /\ n - 1 = Room * q + r
      BY <2>2, RoomIs, DivRange
    <3> HIDE DEF q, r, n
    <3>2. n = Room * (q + 1) + 0
      <4>1. \A x, y \in Int : x * (y + 1) = x * y + x
        OBVIOUS
      <4>2. Room * (q + 1) = Room * q + Room
        BY <3>1, <4>1, RoomIs
      <4>3. r \in Int /\ Room * q \in Int
        BY <2>1, <3>1, RoomIs
      <4> QED BY <1>1, <2>4, <3>1, <4>2, <4>3, RoomIs
    <3>3. (Room * (q + 1) + 0) % Room = 0
      <4>1. q + 1 \in Int /\ 0 \in 0 .. Room - 1
        BY <3>1, RoomIs
      <4> QED BY <4>1, RoomIs, Remainder
    <3>4. n % Room = 0
      BY <3>2, <3>3
    <3>5. (n + 1) - (n % Room) = n + 1 /\ n + 1 \in 1 .. n + 1
      BY <1>1, <3>4
    <3>6. Kept(k) = Append(SubSeq(l, n + 1, n), c)
      BY <1>1, <1>3, <3>5
    <3>7. SubSeq(l, n + 1, n) = << >>
      BY <1>1 DEF n
    <3>8. Len(Kept(l)) > MaxFrameLength
      <4>1. Len(Kept(l)) = Room
        BY <2>1, <2>4
      <4> QED BY <4>1, RoomIs
    <3>9. Append(<< >>, c) = <<c>>
      OBVIOUS
    <3> QED BY <3>6, <3>7, <3>8, <3>9 DEF Store
  <2>5. r + 1 < Room \/ r + 1 = Room
    <3> HIDE DEF r
    <3> QED BY <2>1, RoomIs
  <2> QED BY <2>3, <2>4, <2>5
<1> QED BY <1>4, <1>5

-----------------------------------------------------------------------------
(* A deframer d that was fed text.                                         *)

Right(d, text) ==
  /\ d \in Deframers(Plain)
  /\ OpenLine(text) \in Seq(Plain)
  /\ Listed(text)
  /\ d.buffer = Kept(OpenLine(text))
  /\ Cardinality(LineEnds(text)) = Len(d.frames)
  /\ \A k \in 1 .. Len(d.frames) :
       /\ CompleteLines(text)[k] \in Seq(Plain) \ {<< >>}
       /\ d.frames[k] = Kept(CompleteLines(text)[k])

\* It stays right with one more byte.
LEMMA FeedRight ==
  ASSUME NEW text \in Seq(Bytes), NEW c \in Bytes, NEW t, t = Append(text, c),
         NEW d, Right(d, text)
  PROVE  Right(Feed(d, c), t)
<1> DEFINE o == OpenLine(text)
           n == Len(d.frames)
           e == Feed(d, c)
<1>1. /\ d \in Deframers(Plain) /\ d.buffer \in Seq(Plain) /\ d.frames \in Seq(Seq(Plain))
      /\ n \in Nat /\ o \in Seq(Plain) /\ d.buffer = Kept(o)
      /\ Cardinality(LineEnds(text)) = n
      /\ \A k \in 1 .. n : /\ CompleteLines(text)[k] \in Seq(Plain) \ {<< >>}
                           /\ d.frames[k] = Kept(CompleteLines(text)[k])
  BY DEF Right, Deframers
<1>2. OpenLine(t) = IF Delimits(c) THEN << >> ELSE Append(o, c)
  BY OpenGrows
<1>3. /\ Listed(t)
      /\ \A k \in 1 .. n : CompleteLines(t)[k] = CompleteLines(text)[k]
      /\ IF Delimits(c) /\ o # << >>
         THEN Cardinality(LineEnds(t)) = n + 1 /\ CompleteLines(t)[n + 1] = o
         ELSE Cardinality(LineEnds(t)) = n
  <2>1. Listed(text)
    BY DEF Right
  <2>2. Longer(text, c, t)
    BY <2>1, CompleteGrow
  <2> HIDE DEF n
  <2> QED BY <1>1, <2>2 DEF Longer
<1>4. e \in Deframers(Plain)
  <2>1. Delimits(c) \/ c \in Plain
    BY DEF Plain
  <2> QED BY <1>1, <2>1, FeedType
<1>5. OpenLine(t) \in Seq(Plain)
  <2>1. CASE Delimits(c)
    BY <1>2, <2>1
  <2>2. CASE ~Delimits(c)
    <3>1. c \in Plain
      BY <2>2 DEF Plain
    <3> QED BY <1>1, <1>2, <2>2, <3>1
  <2> QED BY <2>1, <2>2
<1>6. o # << >> <=> d.buffer # << >>
  <2>1. CASE o = << >>
    BY <1>1, <2>1 DEF Kept
  <2>2. CASE o # << >>
    <3>1. Len(Kept(o)) # 0
      <4> DEFINE r == (Len(o) - 1) % Room
      <4>1. r \in 0 .. Room - 1 /\ Len(Kept(o)) = r + 1
        BY <1>1, <2>2, KeptShape
      <4> HIDE DEF r
      <4> QED BY <4>1, RoomIs
    <3> QED BY <1>1, <2>2, <3>1
  <2> QED BY <2>1, <2>2
<1> HIDE DEF o
<1>7. CASE ~Delimits(c)
  <2>1. e.buffer = Store(d.buffer, c) /\ e.frames = d.frames
    BY <1>1, <1>7 DEF Feed, Deframers
  <2>2. Kept(OpenLine(t)) = Store(Kept(o), c)
    <3>1. c \in Plain /\ OpenLine(t) = Append(o, c)
      BY <1>2, <1>7 DEF Plain
    <3> QED BY <1>1, <3>1, KeptGrows
  <2> HIDE DEF e
  <2>3. Right(e, t)
    BY <1>1, <1>3, <1>4, <1>5, <1>7, <2>1, <2>2 DEF Right
  <2> QED BY <2>3 DEF e
<1>8. CASE Delimits(c) /\ o = << >>
  <2>1. e = d
    BY <1>6, <1>8 DEF Feed, End
  <2>2. d.buffer = Kept(OpenLine(t))
    BY <1>1, <1>2, <1>8
  <2> HIDE DEF e
  <2>3. Right(e, t)
    BY <1>1, <1>3, <1>4, <1>5, <1>8, <2>1, <2>2 DEF Right
  <2> QED BY <2>3 DEF e
<1>9. CASE Delimits(c) /\ o # << >>
  <2>1. e.buffer = << >> /\ e.frames = Append(d.frames, d.buffer)
    BY <1>6, <1>9 DEF Feed, End
  <2>2. e.buffer = Kept(OpenLine(t))
    BY <1>2, <1>9, <2>1 DEF Kept
  <2> HIDE DEF e
  <2>3. /\ Len(e.frames) = n + 1 /\ e.frames[n + 1] = d.buffer
        /\ \A k \in 1 .. n : e.frames[k] = d.frames[k]
    BY <1>1, <2>1
  <2>4. ASSUME NEW k \in 1 .. n + 1
        PROVE  /\ CompleteLines(t)[k] \in Seq(Plain) \ {<< >>}
               /\ e.frames[k] = Kept(CompleteLines(t)[k])
    <3>1. CASE k \in 1 .. n
      BY <1>1, <1>3, <2>3, <3>1
    <3>2. CASE k = n + 1
      <4>1. CompleteLines(t)[n + 1] = o
        BY <1>3, <1>9
      <4>2. o \in Seq(Plain) \ {<< >>} /\ d.buffer = Kept(o)
        BY <1>1, <1>9
      <4>3. CompleteLines(t)[k] = o
        BY <3>2, <4>1
      <4>4. e.frames[k] = Kept(o)
        BY <2>3, <3>2, <4>2
      <4> QED BY <4>2, <4>3, <4>4
    <3>3. k \in 1 .. n \/ k = n + 1
      <4> HIDE DEF n
      <4> QED BY <1>1
    <3> QED BY <3>1, <3>2, <3>3
  <2>5. Cardinality(LineEnds(t)) = n + 1
    BY <1>3, <1>9
  <2> HIDE DEF n
  <2>6. Right(e, t)
    BY <1>3, <1>4, <1>5, <2>2, <2>3, <2>4, <2>5 DEF Right
  <2> QED BY <2>6 DEF e
<1> QED BY <1>7, <1>8, <1>9

\* A text without delimiters is one open line.
LEMMA PlainText ==
  ASSUME NEW l \in Seq(Plain)
  PROVE  Right([buffer |-> Kept(l), frames |-> << >>], l)
<1>1. Ends(l) = {}
  <2>1. ASSUME NEW i \in 1 .. Len(l) PROVE ~Delimits(l[i])
    <3>1. l[i] \in Plain
      BY ElementOfSeq
    <3> QED BY <3>1 DEF Plain
  <2> QED BY <2>1 DEF Ends
<1>2. OpenLine(l) = l
  <2>1. LineStart(l, Len(l) + 1) = 1
    BY <1>1 DEF LineStart
  <2>2. OpenLine(l) = LineAt(l, Len(l) + 1)
    BY DEF OpenLine
  <2>3. ASSUME NEW i, i = Len(l) + 1 PROVE LineAt(l, i) = SubSeq(l, 1, Len(l))
    <3>1. LineAt(l, i) = SubSeq(l, LineStart(l, i), i - 1)
      BY LineAtIs
    <3>2. i - 1 = Len(l)
      BY <2>3
    <3> QED BY <2>1, <2>3, <3>1, <3>2
  <2>4. SubSeq(l, 1, Len(l)) = l
    OBVIOUS
  <2> QED BY <2>2, <2>3, <2>4
<1>3. LineEnds(l) = {} /\ Cardinality({}) = 0
  BY <1>1, FS_EmptySet DEF LineEnds
<1>4. Kept(l) \in Seq(Plain)
  <2>1. CASE l = << >>
    BY <2>1 DEF Kept
  <2>2. CASE l # << >>
    BY <2>2, KeptShape
  <2> QED BY <2>1, <2>2
<1>5. << >> \in Seq(Seq(Plain)) /\ Len(<< >>) = 0
  OBVIOUS
<1> QED BY <1>2, <1>3, <1>4, <1>5 DEF Right, Deframers, Listed

\* What the bytes of a read make of a deframer.
LEMMA DeframeRight ==
  ASSUME NEW l \in Seq(Plain), NEW in \in Seq(Bytes)
  PROVE  Right(Deframe(Kept(l), in), l \o in) /\ l \o in \in Seq(Bytes)
<1> DEFINE n == Len(in)
           start == [buffer |-> Kept(l), frames |-> << >>]
           text(k) == l \o SubSeq(in, 1, k)
<1>1. Right(start, l) /\ start \in Deframers(Plain)
  BY PlainText DEF Right
<1>2. Kept(l) \in Seq(Plain)
  BY <1>1 DEF Deframers
<1>3. PICK t \in [0 .. n -> Deframers(Plain)] :
        /\ t[0] = start
        /\ \A k \in 1 .. n : t[k] = Feed(t[k - 1], in[k])
        /\ Deframe(Kept(l), in) = t[n]
  <2>1. \A c \in Bytes : Delimits(c) \/ c \in Plain
    BY DEF Plain
  <2>2. FedByByte(Plain, Kept(l), in)
    BY <1>2, <2>1, DeframeTrace
  <2> QED BY <2>2 DEF FedByByte
<1>4. n \in Nat /\ l \in Seq(Bytes)
  BY DEF Plain
<1>5. ASSUME NEW k \in 0 .. n PROVE text(k) \in Seq(Bytes)
  BY <1>4
<1>6. ASSUME NEW k \in 1 .. n PROVE text(k) = Append(text(k - 1), in[k])
  BY <1>4
<1>7. text(0) = l /\ text(n) = l \o in
  BY <1>4
<1> HIDE DEF text, start
<1> DEFINE P == {k \in Nat : k <= n => Right(t[k], text(k))}
<1>8. 0 \in P
  BY <1>1, <1>3, <1>4, <1>7
<1>9. ASSUME NEW k \in P PROVE k + 1 \in P
  <2> SUFFICES ASSUME k + 1 <= n PROVE Right(t[k + 1], text(k + 1))
    BY <1>9
  <2> HIDE DEF n
  <2>1. k \in Nat /\ k <= n /\ k + 1 \in 1 .. n /\ (k + 1) - 1 = k /\ k \in 0 .. n
    BY <1>4
  <2>2. Right(t[k], text(k))
    BY <2>1
  <2>3. t[k + 1] = Feed(t[k], in[k + 1]) /\ text(k + 1) = Append(text(k), in[k + 1])
    BY <1>3, <1>6, <2>1
  <2>4. in[k + 1] \in Bytes /\ text(k) \in Seq(Bytes)
    <3>1. k + 1 \in 1 .. Len(in)
      BY <2>1 DEF n
    <3> QED BY <1>5, <2>1, <3>1, ElementOfSeq
  <2> QED BY <2>2, <2>3, <2>4, FeedRight, SMTT(30)
<1>10. P = Nat
  <2> HIDE DEF P
  <2>1. P \in SUBSET Nat
    BY DEF P
  <2> QED BY <1>8, <1>9, <2>1, Induction
<1>11. Right(t[n], text(n))
  BY <1>4, <1>10
<1> QED BY <1>3, <1>5, <1>7, <1>11, <1>4

-----------------------------------------------------------------------------
(* The deframer of a session.                                              *)

DeframerInv ==
  /\ line \in Seq(Plain)
  /\ buffer = Kept(line)
  /\ frames \in Seq(Seq(Plain))
  /\ \A k \in 1 .. Len(frames) : Len(frames[k]) \in 1 .. Room
  /\ FramesAreLines

LEMMA ReadsAreSequences ==
  ASSUME NEW S, NEW n \in Nat, NEW s \in BoundedSeq(S, n)
  PROVE  s \in Seq(S)
<1>1. PICK m \in 0 .. n : s \in [1 .. m -> S]
  BY DEF BoundedSeq, SeqOf
<1>2. m \in Nat
  OBVIOUS
<1> QED BY <1>1, <1>2

LEMMA KeptRange ==
  ASSUME NEW S, NEW l \in Seq(S)
  PROVE  /\ Kept(l) \in Seq(S)
         /\ Len(Kept(l)) \in 0 .. Room
         /\ l # << >> => Len(Kept(l)) \in 1 .. Room
<1>1. CASE l = << >>
  BY <1>1, RoomIs DEF Kept
<1>2. CASE l # << >>
  <2> DEFINE r == (Len(l) - 1) % Room
  <2>1. r \in 0 .. Room - 1 /\ Kept(l) \in Seq(S) /\ Len(Kept(l)) = r + 1
    BY <1>2, KeptShape
  <2> HIDE DEF r
  <2>2. r + 1 \in 1 .. Room /\ r + 1 \in 0 .. Room
    BY <2>1, RoomIs
  <2> QED BY <2>1, <2>2
<1> QED BY <1>1, <1>2

LEMMA OnKeepsInv ==
  ASSUME DeframerInv, NEW in \in BoundedSeq(Bytes, MaxRead), On(in)
  PROVE  DeframerInv'
<1> DEFINE d == Deframe(buffer, in)
           text == line \o in
           n == Cardinality(LineEnds(text))
<1>1. in \in Seq(Bytes) /\ line \in Seq(Plain)
  BY DeframerAssumption, ReadsAreSequences DEF DeframerInv
<1>2. Right(d, text)
  <2>1. Right(Deframe(Kept(line), in), text)
    BY <1>1, DeframeRight
  <2>2. buffer = Kept(line)
    BY DEF DeframerInv
  <2> QED BY <2>1, <2>2
<1>3. /\ buffer' = d.buffer /\ frames' = d.frames
      /\ line' = OpenLine(text) /\ lines' = CompleteLines(text)
  BY DEF On
<1> HIDE DEF d, text
<1>4. /\ line' \in Seq(Plain) /\ buffer' = Kept(line')
      /\ frames' \in Seq(Seq(Plain)) /\ Len(frames') = n
      /\ \A k \in 1 .. n : lines'[k] \in Seq(Plain) \ {<< >>} /\ frames'[k] = Kept(lines'[k])
  BY <1>2, <1>3 DEF Right, Deframers
<1>5. n \in Nat /\ Len(lines') = n
  <2>1. n \in Nat
    BY <1>4
  <2>2. lines' = [k \in 1 .. n |-> LineAt(text, Nth(LineEnds(text), k))]
    BY <1>3 DEF CompleteLines
  <2> HIDE DEF n
  <2> QED BY <2>1, <2>2
<1> HIDE DEF n
<1>6. \A k \in 1 .. Len(frames') : Len(frames'[k]) \in 1 .. Room
  <2>1. \A l \in Seq(Plain) \ {<< >>} : Len(Kept(l)) \in 1 .. Room
    BY KeptRange
  <2> QED BY <1>4, <2>1
<1>7. frames' = [k \in 1 .. Len(lines') |-> Kept(lines'[k])]
  <2>1. frames' = [k \in 1 .. n |-> frames'[k]]
    BY <1>4, <1>5
  <2> QED BY <1>4, <1>5, <2>1
<1> QED BY <1>4, <1>6, <1>7 DEF DeframerInv, FramesAreLines, Plain, Delimits, Kept, Room

LEMMA DeframerInvariance == DeframerSpec => []DeframerInv
<1>1. ASSUME DeframerInit PROVE DeframerInv
  <2>1. << >> \in Seq(Plain) /\ << >> \in Seq(Seq(Plain)) /\ Kept(<< >>) = << >>
    BY DEF Kept
  <2>2. Len(<< >>) = 0 /\ << >> = [k \in 1 .. 0 |-> Kept(<< >>[k])]
    OBVIOUS
  <2> QED BY <1>1, <2>1, <2>2 DEF DeframerInit, DeframerInv, FramesAreLines
<1>2. ASSUME DeframerInv, [DeframerNext]_deframerVars PROVE DeframerInv'
  <2>1. ASSUME NEW in \in BoundedSeq(Bytes, MaxRead), On(in) PROVE DeframerInv'
    BY <1>2, <2>1, OnKeepsInv
  <2>2. CASE UNCHANGED deframerVars
    BY <1>2, <2>2 DEF deframerVars, DeframerInv, FramesAreLines, Plain, Delimits, Kept, Room
  <2> QED BY <1>2, <2>1, <2>2 DEF DeframerNext
<1> QED BY <1>1, <1>2, PTL DEF DeframerSpec

\* However the bytes of a port are cut into reads, Deframer::on emits one frame for
\* each line that is not empty, in order: the line itself if it fits its buffer,
\* and otherwise what followed its last overflow.
THEOREM EachLineIsAFrame == DeframerSpec => []FramesAreLines
<1>1. DeframerInv => FramesAreLines
  BY DEF DeframerInv
<1> QED BY <1>1, DeframerInvariance, PTL

\* What Deframer::on buffers and emits has no delimiter and at most one byte more
\* than MaxFrameLength; it never emits an empty frame.
THEOREM DeframerTypes == DeframerSpec => []DeframerTypeOK
<1>1. ASSUME DeframerInv PROVE DeframerTypeOK
  <2>1. buffer \in Seq(Plain) /\ Len(buffer) \in 0 .. Room
    BY <1>1, KeptRange DEF DeframerInv
  <2>2. \A s \in Seq(Plain) : \A i \in 1 .. Len(s) : ~Delimits(s[i])
    <3>1. ASSUME NEW s \in Seq(Plain), NEW i \in 1 .. Len(s) PROVE ~Delimits(s[i])
      <4>1. s[i] \in Plain
        BY ElementOfSeq
      <4> QED BY <4>1 DEF Plain
    <3> QED BY <3>1
  <2>3. \A k \in 1 .. Len(frames) : frames[k] \in Seq(Plain) /\ Len(frames[k]) \in 1 .. Room
    BY <1>1 DEF DeframerInv
  <2>4. Len(buffer) <= Room
    BY <2>1, RoomIs
  <2> QED BY <2>1, <2>2, <2>3, <2>4 DEF DeframerTypeOK
<1> QED BY <1>1, DeframerInvariance, PTL

-----------------------------------------------------------------------------
(* Framing and deframing.                                                  *)

\* Where the bytes of a framed line are.
LEMMA FrameShape ==
  ASSUME NEW l \in Seq(Plain), NEW in, in = Frame(l)
  PROVE  /\ in \in Seq(Plain \cup ToSet(Delimiter))
         /\ Len(in) = Len(l) + Len(Delimiter) /\ Len(l) \in Nat /\ Len(Delimiter) \in Nat \ {0}
         /\ \A i \in 1 .. Len(l) : in[i] = l[i] /\ ~Delimits(in[i])
         /\ \A i \in 1 .. Len(in) : ~ i <= Len(l) => Delimits(in[i])
<1> DEFINE S == Plain \cup ToSet(Delimiter)
           D == Delimiter
<1>1. l \in Seq(S) /\ D \in Seq(S) /\ in = l \o D /\ D # << >> /\ D \in Seq(ToSet(D))
  BY FramingAssumption DEF Frame
<1> HIDE DEF S, D
<1>2. /\ in \in Seq(S) /\ Len(in) = Len(l) + Len(D)
      /\ \A i \in 1 .. Len(l) : in[i] = l[i]
      /\ \A i \in 1 .. Len(D) : in[Len(l) + i] = D[i]
  BY <1>1, Joined
<1>3. Len(l) \in Nat /\ Len(D) \in Nat \ {0}
  BY <1>1
<1>4. ASSUME NEW i \in 1 .. Len(l) PROVE ~Delimits(l[i])
  <2>1. l[i] \in Plain
    BY ElementOfSeq
  <2> QED BY <2>1 DEF Plain
<1>5. ASSUME NEW i \in 1 .. Len(in), ~ i <= Len(l) PROVE Delimits(in[i])
  <2>1. i - Len(l) \in 1 .. Len(D) /\ Len(l) + (i - Len(l)) = i
    BY <1>2, <1>3, <1>5
  <2>2. in[i] = D[i - Len(l)]
    BY <1>2, <2>1
  <2>3. D[i - Len(l)] \in ToSet(D)
    BY <1>1, <2>1, ElementOfSeq
  <2> QED BY <2>2, <2>3 DEF Delimits, D
<1> QED BY <1>2, <1>3, <1>4, <1>5 DEF S, D

\* A line that Framing's frame lambda writes is read by a fresh Deframer as it was,
\* if it has no delimiter in it and fits the buffer.
THEOREM FramesRoundTrip == RoundTrip
<1> SUFFICES ASSUME NEW l \in BoundedSeq(Plain, Room), l # << >>
             PROVE  Deframe(<< >>, Frame(l)) = [buffer |-> << >>, frames |-> <<l>>]
  BY DEF RoundTrip, Plain
<1> DEFINE in == Frame(l)
           n == Len(l)
           m == Len(in)
           Whole == [buffer |-> << >>, frames |-> <<l>>]
           Part(k) == [buffer |-> SubSeq(l, 1, k), frames |-> << >>]
<1>1. l \in Seq(Plain) /\ n \in 1 .. Room
  <2>1. l \in Seq(Plain)
    BY RoomIs, ReadsAreSequences
  <2>2. PICK i \in 0 .. Room : l \in [1 .. i -> Plain]
    BY DEF BoundedSeq, SeqOf
  <2>3. n = i
    BY <2>2, RoomIs
  <2> QED BY <2>1, <2>2, <2>3, RoomIs
<1>2. /\ in \in Seq(Plain \cup ToSet(Delimiter))
      /\ m \in Nat /\ n \in Nat /\ n < m
      /\ \A i \in 1 .. n : in[i] = l[i] /\ ~Delimits(in[i])
      /\ \A i \in 1 .. m : ~ i <= n => Delimits(in[i])
  <2>1. /\ in \in Seq(Plain \cup ToSet(Delimiter))
        /\ m = n + Len(Delimiter) /\ n \in Nat /\ Len(Delimiter) \in Nat \ {0}
        /\ \A i \in 1 .. n : in[i] = l[i] /\ ~Delimits(in[i])
        /\ \A i \in 1 .. m : ~ i <= n => Delimits(in[i])
    BY <1>1, FrameShape
  <2> HIDE DEF in, n, m
  <2> QED BY <2>1
<1>3. PICK t \in [0 .. m -> Deframers(Plain)] :
        /\ t[0] = [buffer |-> << >>, frames |-> << >>]
        /\ \A k \in 1 .. m : t[k] = Feed(t[k - 1], in[k])
        /\ Deframe(<< >>, in) = t[m]
  <2>1. \A c \in Plain \cup ToSet(Delimiter) : Delimits(c) \/ c \in Plain
    BY DEF Delimits
  <2>2. << >> \in Seq(Plain)
    OBVIOUS
  <2>3. FedByByte(Plain, << >>, in)
    <3> HIDE DEF in
    <3> QED BY <1>2, <2>1, <2>2, DeframeTrace
  <2> QED BY <2>3 DEF FedByByte
<1> HIDE DEF in, m
<1> DEFINE Done(k) == t[k] = IF k <= n THEN Part(k) ELSE Whole
           P == {k \in Nat : k <= m => Done(k)}
<1>4. 0 \in P
  <2>1. SubSeq(l, 1, 0) = << >> /\ 0 <= n
    BY <1>1
  <2> QED BY <1>3, <2>1
<1>5. ASSUME NEW k \in P PROVE k + 1 \in P
  <2> SUFFICES ASSUME k + 1 <= m PROVE Done(k + 1)
    BY <1>5
  <2>1. k \in Nat /\ k + 1 \in 1 .. m /\ (k + 1) - 1 = k /\ k <= m
    BY <1>2
  <2>2. Done(k)
    BY <2>1
  <2>3. t[k + 1] = Feed(t[k], in[k + 1])
    BY <1>3, <2>1
  <2> DEFINE s == SubSeq(l, 1, k)
  <2>4. CASE k + 1 <= n
    <3>1. k <= n /\ k + 1 \in 1 .. n /\ k \in 0 .. n
      BY <1>2, <2>1, <2>4
    <3>2. ~Delimits(in[k + 1]) /\ in[k + 1] = l[k + 1]
      BY <1>2, <3>1
    <3>3. s \in Seq(Plain) /\ Len(s) = k /\ Append(s, l[k + 1]) = SubSeq(l, 1, k + 1)
      BY <1>1, <3>1
    <3>4. ~ Len(s) > MaxFrameLength
      BY <1>1, <2>1, <3>1, <3>3, RoomIs
    <3>5. t[k] = [buffer |-> s, frames |-> << >>]
      BY <2>2, <3>1
    <3> HIDE DEF s
    <3>6. Store(s, l[k + 1]) = SubSeq(l, 1, k + 1)
      BY <3>3, <3>4 DEF Store
    <3>7. t[k + 1] = Part(k + 1)
      <4> DEFINE d == [buffer |-> s, frames |-> << >>]
                 p == SubSeq(l, 1, k + 1)
      <4>1. Feed(d, in[k + 1]) = [d EXCEPT !.buffer = Store(d.buffer, in[k + 1])]
        BY <3>2 DEF Feed
      <4>2. Store(d.buffer, in[k + 1]) = p
        BY <3>2, <3>6
      <4> HIDE DEF p
      <4>3. Feed(d, in[k + 1]) = [buffer |-> p, frames |-> << >>]
        BY <4>1, <4>2
      <4> QED BY <2>3, <3>5, <4>3 DEF p
    <3> QED BY <2>4, <3>7
  <2>5. CASE k = n
    <3>1. Delimits(in[k + 1]) /\ ~ k + 1 <= n /\ k <= n
      BY <1>2, <2>1, <2>5
    <3>2. SubSeq(l, 1, n) = l
      BY <1>1
    <3>3. t[k] = [buffer |-> l, frames |-> << >>]
      BY <2>2, <2>5, <3>1, <3>2
    <3>4. Append(<< >>, l) = <<l>>
      OBVIOUS
    <3>5. t[k + 1] = Whole
      BY <2>3, <3>1, <3>3, <3>4 DEF Feed, End
    <3> QED BY <3>1, <3>5
  <2>6. CASE ~ k <= n
    <3>1. Delimits(in[k + 1]) /\ ~ k + 1 <= n
      BY <1>2, <2>1, <2>6
    <3>2. t[k] = Whole
      BY <2>2, <2>6
    <3>3. t[k + 1] = Whole
      BY <2>3, <3>1, <3>2 DEF Feed, End
    <3> QED BY <3>1, <3>3
  <2> QED BY <1>2, <2>1, <2>4, <2>5, <2>6
<1>6. P = Nat
  <2> HIDE DEF P
  <2>1. P \in SUBSET Nat
    BY DEF P
  <2> QED BY <1>4, <1>5, <2>1, Induction
<1>7. t[m] = Whole
  <2>1. Done(m)
    <3> HIDE DEF Done
    <3>1. m \in P /\ m <= m
      BY <1>2, <1>6
    <3> QED BY <3>1
  <2>2. ~ m <= n
    BY <1>2
  <2> QED BY <2>1, <2>2
<1> QED BY <1>3, <1>7 DEF in
=============================================================================
