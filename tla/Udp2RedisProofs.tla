--------------------------- MODULE Udp2RedisProofs ---------------------------
(* Machine-checked theorems about Udp2Redis, for every number of clients,  *)
(* queue depth, timeout and bound.                                         *)
EXTENDS Udp2Redis, DataLemmas

USE ConstantsAssumption

\* The two shapes a queue takes: what a push returns.
LEMMA PushedType ==
  ASSUME NEW S, NEW q \in Seq(S), NEW v \in S
  PROVE  /\ Pushed(q, v) \in Seq(S)
         /\ Len(q) <= QueueDepth => Len(Pushed(q, v)) <= QueueDepth
         /\ \A i \in 1 .. Len(Pushed(q, v)) :
              Pushed(q, v)[i] = v \/ (i \in 1 .. Len(q) /\ Pushed(q, v)[i] = q[i])
  BY DEF Pushed

\* A push posts an invoker or leaves the work queue alone.
LEMMA PostedType ==
  ASSUME NEW w \in Seq(Invokers), NEW q, NEW i \in Invokers
  PROVE  Posted(w, q, i) \in Seq(Invokers)
  BY DEF Posted

LEMMA PopType ==
  ASSUME NEW S, NEW q \in Seq(S), q # << >>
  PROVE  /\ Head(q) \in S
         /\ Tail(q) \in Seq(S)
         /\ Len(Tail(q)) = Len(q) - 1
         /\ \A i \in 1 .. Len(Tail(q)) : Tail(q)[i] = q[i + 1]
         /\ Head(q) = q[1]
  BY HeadTailProperties

\* A push into, and a pop from, one of the per-proxy queues.
LEMMA PushInto ==
  ASSUME NEW S, NEW f \in [Proxies -> Seq(S)], NEW p \in Proxies, NEW v \in S,
         \A r \in Proxies : Len(f[r]) <= QueueDepth
  PROVE  LET g == [f EXCEPT ![p] = Pushed(@, v)] IN
         /\ g \in [Proxies -> Seq(S)]
         /\ \A r \in Proxies : Len(g[r]) <= QueueDepth
<1>1. Pushed(f[p], v) \in Seq(S) /\ Len(Pushed(f[p], v)) <= QueueDepth
  BY PushedType
<1> QED BY <1>1

LEMMA PopFrom ==
  ASSUME NEW S, NEW f \in [Proxies -> Seq(S)], NEW p \in Proxies,
         f[p] # << >>,
         \A r \in Proxies : Len(f[r]) <= QueueDepth
  PROVE  LET g == [f EXCEPT ![p] = Tail(@)] IN
         /\ g \in [Proxies -> Seq(S)]
         /\ \A r \in Proxies : Len(g[r]) <= QueueDepth
         /\ Head(f[p]) \in S
<1>1. /\ Tail(f[p]) \in Seq(S)
      /\ Len(Tail(f[p])) = Len(f[p]) - 1
      /\ Head(f[p]) \in S
  BY PopType
<1> QED BY <1>1

LEMMA InvokerTypes ==
  /\ Recv \in Invokers
  /\ Send \in Invokers
  /\ \A p \in Proxies : ToRedis(p) \in Invokers /\ FromRedis(p) \in Invokers
  /\ \A p \in Proxies : ToRedis(p) # Recv /\ FromRedis(p) # Recv
  /\ Send # Recv
  BY DEF Recv, Send, ToRedis, FromRedis, Invokers

LEMMA EmptyQueue == \A S : << >> \in Seq(S) /\ Len(<< >>) = 0
  OBVIOUS

LEMMA InitTypeOK == Init => TypeOK
<1> SUFFICES ASSUME Init PROVE TypeOK
  OBVIOUS
<1> USE DEF Init
<1>1. /\ recvd \in Payloads \cup {NoPayload}
      /\ work \in Seq(Invokers)
      /\ sendq \in Seq(UdpMsgs)
      /\ Len(sendq) <= QueueDepth
  BY EmptyQueue
<1>2. /\ toRedis \in [Proxies -> Seq(Payloads)]
      /\ fromRedis \in [Proxies -> Seq(Payloads)]
      /\ atRedis \in [Proxies -> Seq(Payloads)]
  BY EmptyQueue
<1>3. \A p \in Proxies : /\ Len(toRedis[p]) <= QueueDepth
                         /\ Len(fromRedis[p]) <= QueueDepth
  BY EmptyQueue
<1>4. /\ idle \in [Proxies -> 0 .. Never]
      /\ millis \in 0 .. Never
      /\ untilTimer \in 0 .. TimerPeriod
  BY DEF Never
<1>5. /\ sent \in [Addresses -> 0 .. MaxDatagrams]
      /\ delivered \in [Addresses -> 0 .. MaxDatagrams]
      /\ answered \in [Addresses -> 0 .. MaxDatagrams]
  OBVIOUS
<1> QED BY <1>1, <1>2, <1>3, <1>4, <1>5 DEF TypeOK

-----------------------------------------------------------------------------
(* Type correctness, action by action.                                     *)

\* What the parts of the type invariant say of a running thread.
LEMMA TypeOfRecvd ==
  ASSUME TypeOK, RecvFilled, work # << >>, Head(work) = Recv
  PROVE  recvd \in Payloads
<1>1. work \in Seq(Invokers)
  BY DEF TypeOK
<1>2. work[1] = Recv /\ 1 \in 1 .. Len(work)
  BY <1>1
<1> QED BY <1>2 DEF RecvFilled, TypeOK

LEMMA ReadableType ==
  ASSUME TypeOK, NEW a \in Addresses, Readable(a) PROVE TypeOK'
<1>1. recvd' \in Payloads
  BY DEF TypeOK, Readable, Payloads
<1>2. work' \in Seq(Invokers)
  BY InvokerTypes DEF TypeOK, Readable
<1>3. sent' \in [Addresses -> 0 .. MaxDatagrams]
  BY DEF TypeOK, Readable
<1> QED BY <1>1, <1>2, <1>3 DEF TypeOK, Readable, redisVars, clockVars

LEMMA KnownClientType ==
  ASSUME TypeOK, RecvFilled, RunRecv, OnKnownClient PROVE TypeOK'
<1> DEFINE p == clients[recvd.from]
<1>1. recvd \in Payloads /\ recvd.from \in Addresses /\ p \in Proxies
  BY TypeOfRecvd DEF RunRecv, OnKnownClient, TypeOK, Payloads
<1>2. toRedis' = [toRedis EXCEPT ![p] = Pushed(@, recvd)]
  BY DEF OnKnownClient
<1>3. /\ toRedis' \in [Proxies -> Seq(Payloads)]
      /\ \A r \in Proxies : Len(toRedis'[r]) <= QueueDepth
  BY <1>1, <1>2, PushInto DEF TypeOK
<1>4. work' \in Seq(Invokers)
  <2>1. Tail(work) \in Seq(Invokers)
    BY PopType DEF TypeOK, RunRecv
  <2> QED BY <1>1, <2>1, PostedType, InvokerTypes DEF OnKnownClient
<1> QED BY <1>3, <1>4 DEF TypeOK, RunRecv, OnKnownClient, redisVars, clockVars,
             history

LEMMA NewClientType ==
  ASSUME TypeOK, RecvFilled, RunRecv, OnNewClient PROVE TypeOK'
<1>1. recvd \in Payloads /\ recvd.from \in Addresses
  BY TypeOfRecvd DEF RunRecv, Payloads
<1>2. PICK p \in Proxies \ Live :
        /\ clients' = [clients EXCEPT ![recvd.from] = p]
        /\ udpSource' = [udpSource EXCEPT ![p] = recvd.from]
        /\ idle' = [idle EXCEPT ![p] = millis]
        /\ toRedis' = [toRedis EXCEPT ![p] = Pushed(<< >>, recvd)]
        /\ work' = Posted(Tail(work), << >>, ToRedis(p))
  BY DEF OnNewClient
<1>3. /\ toRedis' \in [Proxies -> Seq(Payloads)]
      /\ \A r \in Proxies : Len(toRedis'[r]) <= QueueDepth
  <2>1. << >> \in Seq(Payloads) /\ Len(<< >>) <= QueueDepth
    BY EmptyQueue
  <2> QED BY <1>1, <1>2, <2>1, PushedType DEF TypeOK
<1>4. work' \in Seq(Invokers)
  <2>1. Tail(work) \in Seq(Invokers)
    BY PopType DEF TypeOK, RunRecv
  <2> QED BY <1>2, <2>1, PostedType, InvokerTypes
<1>5. /\ clients' \in [Addresses -> Proxies \cup {NoProxy}]
      /\ udpSource' \in [Proxies -> Addresses \cup {NoAddress}]
      /\ idle' \in [Proxies -> 0 .. Never]
  BY <1>1, <1>2 DEF TypeOK
<1> QED BY <1>3, <1>4, <1>5 DEF TypeOK, RunRecv, OnNewClient, redisVars,
             clockVars, history

LEMMA RunToRedisType ==
  ASSUME TypeOK, NEW p \in Proxies, RunToRedis(p) PROVE TypeOK'
<1> DEFINE m == Head(toRedis[p])
<1>1. /\ toRedis' \in [Proxies -> Seq(Payloads)]
      /\ \A r \in Proxies : Len(toRedis'[r]) <= QueueDepth
      /\ m \in Payloads
  BY PopFrom DEF RunToRedis, TypeOK
<1>2. /\ atRedis' \in [Proxies -> Seq(Payloads)]
      /\ delivered' \in [Addresses -> 0 .. MaxDatagrams]
  <2>1. CASE UNCHANGED <<atRedis, delivered>>
    BY <2>1 DEF TypeOK
  <2>2. CASE /\ atRedis' = [atRedis EXCEPT ![p] = Append(@, m)]
             /\ delivered' = [delivered EXCEPT ![m.from] = m.n]
    <3>1. Append(atRedis[p], m) \in Seq(Payloads)
      BY <1>1 DEF TypeOK
    <3>2. m.n \in 0 .. MaxDatagrams
      BY <1>1 DEF Payloads
    <3> QED BY <2>2, <3>1, <3>2 DEF TypeOK
  <2> QED BY <2>1, <2>2 DEF RunToRedis
<1>3. work' \in Seq(Invokers)
  BY PopType DEF TypeOK, RunToRedis
<1>4. idle' \in [Proxies -> 0 .. Never]
  BY DEF TypeOK, RunToRedis, Never
<1> QED BY <1>1, <1>2, <1>3, <1>4 DEF TypeOK, RunToRedis, clockVars

LEMMA RunFromRedisType ==
  ASSUME TypeOK, NEW p \in Proxies, RunFromRedis(p) PROVE TypeOK'
<1> DEFINE msg == [dst |-> ReplyTo(p), payload |-> Head(fromRedis[p])]
<1>1. /\ fromRedis' \in [Proxies -> Seq(Payloads)]
      /\ \A r \in Proxies : Len(fromRedis'[r]) <= QueueDepth
      /\ msg.payload \in Payloads
  BY PopFrom DEF RunFromRedis, TypeOK
<1>2. msg \in UdpMsgs
  BY <1>1 DEF RunFromRedis, ReplyTo, Live, UdpMsgs, TypeOK
<1>3. sendq' \in Seq(UdpMsgs) /\ Len(sendq') <= QueueDepth
  BY <1>2, PushedType DEF RunFromRedis, TypeOK
<1>4. work' \in Seq(Invokers)
  <2>1. Tail(work) \in Seq(Invokers)
    BY PopType DEF TypeOK, RunFromRedis
  <2> QED BY <2>1, PostedType, InvokerTypes DEF RunFromRedis
<1> QED BY <1>1, <1>3, <1>4 DEF TypeOK, RunFromRedis, clockVars, history

LEMMA RunSendType ==
  ASSUME TypeOK, RunSend PROVE TypeOK'
<1>1. /\ sendq' \in Seq(UdpMsgs) /\ Len(sendq') <= QueueDepth
      /\ Head(sendq) \in UdpMsgs
  BY PopType DEF TypeOK, RunSend
<1>2. answered' \in [Addresses -> 0 .. MaxDatagrams]
  BY <1>1 DEF TypeOK, RunSend, UdpMsgs, Payloads
<1>3. work' \in Seq(Invokers)
  BY PopType DEF TypeOK, RunSend
<1> QED BY <1>1, <1>2, <1>3 DEF TypeOK, RunSend, redisVars, clockVars

LEMMA IdleInvokerType ==
  ASSUME TypeOK, NEW p \in Proxies, RunEmpty(p) \/ RunDangling(p)
  PROVE  TypeOK'
<1>1. work \in Seq(Invokers) /\ work # << >> /\ work' = Tail(work)
  BY DEF TypeOK, RunEmpty, RunDangling
<1>2. work' \in Seq(Invokers)
  BY <1>1, PopType
<1> QED BY <1>2 DEF TypeOK, RunEmpty, RunDangling, redisVars, clockVars,
             history

LEMMA RedisType ==
  ASSUME TypeOK, NEW p \in Proxies, Redis(p) PROVE TypeOK'
<1>1. CASE RedisAnswers(p)
  <2>1. atRedis[p] \in Seq(Payloads) /\ atRedis[p] # << >>
    BY <1>1 DEF RedisAnswers, TypeOK
  <2>2. Head(atRedis[p]) \in Payloads /\ Tail(atRedis[p]) \in Seq(Payloads)
    BY <2>1, PopType
  <2>3. fromRedis' = [fromRedis EXCEPT ![p] = Pushed(@, Head(atRedis[p]))]
    BY <1>1 DEF RedisAnswers
  <2>4. /\ fromRedis' \in [Proxies -> Seq(Payloads)]
        /\ \A r \in Proxies : Len(fromRedis'[r]) <= QueueDepth
    BY <2>2, <2>3, PushInto DEF TypeOK
  <2>5. atRedis' \in [Proxies -> Seq(Payloads)]
    BY <1>1, <2>2 DEF RedisAnswers, TypeOK
  <2>6. work' \in Seq(Invokers)
    BY <1>1, PostedType, InvokerTypes DEF RedisAnswers, TypeOK
  <2> QED BY <1>1, <2>4, <2>5, <2>6 DEF TypeOK, RedisAnswers, clockVars, history
<1>2. CASE RedisBreaks(p)
  <2>1. atRedis' \in [Proxies -> Seq(Payloads)]
    BY <1>2, EmptyQueue DEF RedisBreaks, TypeOK
  <2> QED BY <1>2, <2>1 DEF TypeOK, RedisBreaks, clockVars, history
<1>3. CASE RedisPublishes(p)
  <2> DEFINE m == [from |-> udpSource[p], n |-> 0]
  <2>1. m \in Payloads
    BY <1>3 DEF RedisPublishes, Live, TypeOK, Payloads
  <2>2. fromRedis' = [fromRedis EXCEPT ![p] = Pushed(@, m)]
    BY <1>3 DEF RedisPublishes
  <2>3. /\ fromRedis' \in [Proxies -> Seq(Payloads)]
        /\ \A r \in Proxies : Len(fromRedis'[r]) <= QueueDepth
    BY <2>1, <2>2, PushInto DEF TypeOK
  <2>4. work' \in Seq(Invokers)
    BY <1>3, PostedType, InvokerTypes DEF RedisPublishes, TypeOK
  <2> QED BY <1>3, <2>3, <2>4 DEF TypeOK, RedisPublishes, clockVars, history
<1> QED BY <1>1, <1>2, <1>3 DEF Redis

LEMMA TickType ==
  ASSUME TypeOK, Tick PROVE TypeOK'
<1>1. \A t \in 0 .. Never : Later(t) \in 0 .. Never
  BY DEF Later, Never
<1>2. millis' \in 0 .. Never /\ idle' \in [Proxies -> 0 .. Never]
  BY <1>1 DEF TypeOK, Tick
<1>3. untilTimer' \in 0 .. TimerPeriod
  BY DEF TypeOK, Tick
<1> QED BY <1>2, <1>3 DEF TypeOK, Tick, redisVars, history

LEMMA CleanupType ==
  ASSUME TypeOK, Cleanup PROVE TypeOK'
<1>1. /\ toRedis' \in [Proxies -> Seq(Payloads)]
      /\ fromRedis' \in [Proxies -> Seq(Payloads)]
      /\ atRedis' \in [Proxies -> Seq(Payloads)]
      /\ \A p \in Proxies : /\ Len(toRedis'[p]) <= QueueDepth
                            /\ Len(fromRedis'[p]) <= QueueDepth
  BY EmptyQueue DEF TypeOK, Cleanup
<1>2. /\ clients' \in [Addresses -> Proxies \cup {NoProxy}]
      /\ udpSource' \in [Proxies -> Addresses \cup {NoAddress}]
      /\ idle' \in [Proxies -> 0 .. Never]
      /\ untilTimer' \in 0 .. TimerPeriod
  BY DEF TypeOK, Cleanup, Erased, Never
<1> QED BY <1>1, <1>2 DEF TypeOK, Cleanup, Erased, history

LEMMA NextType == TypeOK /\ RecvFilled /\ [Next]_vars => TypeOK'
<1> SUFFICES ASSUME TypeOK, RecvFilled, [Next]_vars PROVE TypeOK'
  OBVIOUS
<1>1. CASE \E a \in Addresses : Readable(a)
  BY <1>1, ReadableType
<1>2. CASE SocketError
  BY <1>2 DEF SocketError, TypeOK, redisVars, clockVars, history
<1>3. CASE RunRecv
  BY <1>3, KnownClientType, NewClientType DEF RunRecv
<1>4. CASE RunSend
  BY <1>4, RunSendType
<1>5. CASE \E p \in Proxies : RunProxyInvoker(p)
  BY <1>5, IdleInvokerType, RunToRedisType, RunFromRedisType
     DEF RunProxyInvoker
<1>6. CASE \E p \in Proxies : Redis(p)
  BY <1>6, RedisType
<1>7. CASE Cleanup
  BY <1>7, CleanupType
<1>8. CASE Tick
  BY <1>8, TickType
<1>9. CASE UNCHANGED vars
  BY <1>9 DEF vars, TypeOK
<1> QED
  BY <1>1, <1>2, <1>3, <1>4, <1>5, <1>6, <1>7, <1>8, <1>9 DEF Next, RunInvoker

-----------------------------------------------------------------------------
(* An invoker of _recv is only posted with a datagram in the slot.         *)

LEMMA RecvFilledStep == IInv /\ [Next]_vars => RecvFilled'
<1> SUFFICES ASSUME IInv, [Next]_vars PROVE RecvFilled'
  OBVIOUS
<1> USE DEF IInv
<1>0. work \in Seq(Invokers)
  BY DEF TypeOK
<1>1. CASE \E a \in Addresses : Readable(a)
  BY <1>1 DEF Readable, RecvFilled, NoPayload
<1>2. CASE ~ \E a \in Addresses : Readable(a)
  <2>1. recvd' = recvd
    BY <1>2 DEF Next, vars, SocketError, RunInvoker, RunRecv, RunSend,
         RunProxyInvoker, RunEmpty, RunToRedis, RunFromRedis, RunDangling,
         Redis, RedisAnswers, RedisBreaks, RedisPublishes, Cleanup, Tick
  <2> DEFINE Grown(w, i) == work' = w \/ work' = Append(w, i)
  <2>2. \/ work' = work
        \/ /\ work # << >>
           /\ \E i \in Invokers \ {Recv} : Grown(Tail(work), i)
        \/ \E i \in Invokers \ {Recv} : Grown(work, i)
    <3>1. CASE SocketError \/ Cleanup \/ Tick \/ UNCHANGED vars
      BY <3>1 DEF SocketError, Cleanup, Tick, vars
    <3>2. CASE RunRecv
      BY <3>2, InvokerTypes, TypeOfRecvd
         DEF RunRecv, OnKnownClient, OnNewClient, Posted, TypeOK, Payloads
    <3>3. CASE RunSend
      BY <3>3, InvokerTypes DEF RunSend
    <3>4. CASE \E p \in Proxies : RunProxyInvoker(p)
      BY <3>4, InvokerTypes
         DEF RunProxyInvoker, RunEmpty, RunToRedis, RunFromRedis, RunDangling,
             Posted
    <3>5. CASE \E p \in Proxies : Redis(p)
      BY <3>5, InvokerTypes
         DEF Redis, RedisAnswers, RedisBreaks, RedisPublishes, Posted
    <3> QED BY <1>2, <3>1, <3>2, <3>3, <3>4, <3>5 DEF Next, RunInvoker
  <2>3. ASSUME NEW w \in Seq(Invokers), NEW i \in Invokers \ {Recv},
               Grown(w, i), NEW k \in 1 .. Len(work'), work'[k] = Recv
        PROVE  k \in 1 .. Len(w) /\ w[k] = Recv
    BY <2>3
  <2>4. ASSUME NEW k \in 1 .. Len(work'), work'[k] = Recv
        PROVE  \E j \in 1 .. Len(work) : work[j] = Recv
    <3>1. CASE work' = work
      BY <2>4, <3>1
    <3>2. CASE \E i \in Invokers \ {Recv} : Grown(work, i)
      BY <1>0, <2>3, <2>4, <3>2
    <3>3. CASE work # << >> /\ \E i \in Invokers \ {Recv} : Grown(Tail(work), i)
      <4>1. /\ Tail(work) \in Seq(Invokers)
            /\ Len(Tail(work)) = Len(work) - 1
            /\ \A l \in 1 .. Len(Tail(work)) : Tail(work)[l] = work[l + 1]
        BY <1>0, <3>3, PopType
      <4>2. k \in 1 .. Len(Tail(work)) /\ Tail(work)[k] = Recv
        BY <2>3, <2>4, <3>3, <4>1
      <4>3. k + 1 \in 1 .. Len(work) /\ work[k + 1] = Recv
        BY <1>0, <4>1, <4>2
      <4> QED BY <4>3
    <3> QED BY <2>2, <3>1, <3>2, <3>3
  <2> QED BY <2>1, <2>4 DEF RecvFilled
<1> QED BY <1>1, <1>2

-----------------------------------------------------------------------------
(* The map and the heap.                                                   *)

LEMMA MapMatchesHeapStep == IInv /\ [Next]_vars => MapMatchesHeap'
<1> SUFFICES ASSUME IInv, [Next]_vars PROVE MapMatchesHeap'
  OBVIOUS
<1> USE DEF IInv, MapMatchesHeap, Live
<1>1. CASE UNCHANGED <<clients, udpSource>>
  BY <1>1
<1>2. CASE RunRecv /\ OnNewClient
  <2>1. recvd.from \in Addresses
    BY <1>2, TypeOfRecvd DEF RunRecv, Payloads
  <2>2. PICK p \in Proxies : /\ udpSource[p] = NoAddress
                             /\ clients' = [clients EXCEPT ![recvd.from] = p]
                             /\ udpSource' = [udpSource EXCEPT ![p] = recvd.from]
    BY <1>2 DEF OnNewClient
  <2>3. clients[recvd.from] = NoProxy
    BY <1>2 DEF OnNewClient
  <2>4. ASSUME NEW a \in Addresses, clients'[a] # NoProxy
        PROVE  udpSource'[clients'[a]] = a
    <3>1. CASE a = recvd.from
      BY <2>1, <2>2, <3>1 DEF TypeOK
    <3>2. CASE a # recvd.from
      <4>1. clients'[a] = clients[a] /\ clients[a] \in Proxies
        BY <2>2, <2>4, <3>2 DEF TypeOK
      <4>2. udpSource[clients[a]] = a /\ clients[a] # p
        BY <2>2, <2>4, <4>1
      <4> QED BY <2>2, <4>1, <4>2 DEF TypeOK
    <3> QED BY <3>1, <3>2
  <2>5. ASSUME NEW r \in Proxies, udpSource'[r] # NoAddress
        PROVE  clients'[udpSource'[r]] = r
    <3>1. CASE r = p
      BY <2>1, <2>2, <3>1 DEF TypeOK
    <3>2. CASE r # p
      <4>1. udpSource'[r] = udpSource[r] /\ udpSource[r] \in Addresses
        BY <2>2, <2>5, <3>2 DEF TypeOK
      <4>2. clients[udpSource[r]] = r /\ udpSource[r] # recvd.from
        BY <2>3, <2>5, <4>1
      <4> QED BY <2>2, <4>1, <4>2 DEF TypeOK
    <3> QED BY <3>1, <3>2
  <2> QED BY <2>4, <2>5
<1>3. CASE Cleanup
  BY <1>3, SMTT(30) DEF Cleanup, Erased, TypeOK
<1>4. [Next]_vars => \/ UNCHANGED <<clients, udpSource>>
                     \/ RunRecv /\ OnNewClient
                     \/ Cleanup
  BY DEF Next, vars, Readable, SocketError, RunInvoker, RunRecv, RunSend,
     OnKnownClient, RunProxyInvoker, RunEmpty, RunToRedis, RunFromRedis,
     RunDangling, Redis, RedisAnswers, RedisBreaks, RedisPublishes, Tick
<1> QED BY <1>1, <1>2, <1>3, <1>4

-----------------------------------------------------------------------------
(* No client gets what belongs to another.                                 *)

LEMMA OwnedPush ==
  ASSUME NEW q \in Seq(Payloads), NEW a, Owned(q, a),
         NEW v \in Payloads, v.from = a
  PROVE  Owned(Pushed(q, v), a) /\ Owned(Append(q, v), a)
  BY DEF Pushed, Owned

LEMMA OwnedPop ==
  ASSUME NEW q \in Seq(Payloads), NEW a, Owned(q, a), q # << >>
  PROVE  Owned(Tail(q), a) /\ Head(q).from = a
  BY PopType DEF Owned

LEMMA OwnedEmpty == \A a : Owned(<< >>, a)
  BY DEF Owned

LEMMA ClientsKeptApartStep == IInv /\ [Next]_vars => ClientsKeptApart'
<1> SUFFICES ASSUME IInv, [Next]_vars PROVE ClientsKeptApart'
  OBVIOUS
<1> USE DEF IInv, ClientsKeptApart
<1>1. CASE UNCHANGED <<udpSource, toRedis, fromRedis, atRedis, sendq>>
  BY <1>1 DEF Live, Owned
<1>2. CASE RunRecv /\ OnKnownClient
  <2> DEFINE p == clients[recvd.from]
  <2>1. recvd \in Payloads /\ recvd.from \in Addresses /\ p \in Proxies
    BY <1>2, TypeOfRecvd DEF RunRecv, OnKnownClient, TypeOK, Payloads
  <2>2. p \in Live /\ udpSource[p] = recvd.from
    BY <1>2, <2>1 DEF OnKnownClient, MapMatchesHeap, Live
  <2>3. Owned(Pushed(toRedis[p], recvd), udpSource[p])
    BY <2>1, <2>2, OwnedPush DEF TypeOK
  <2>4. \A r \in Proxies :
          toRedis'[r] = IF r = p THEN Pushed(toRedis[p], recvd) ELSE toRedis[r]
    BY <1>2, <2>1 DEF OnKnownClient, TypeOK
  <2>5. UNCHANGED <<udpSource, fromRedis, atRedis, sendq>>
    BY <1>2 DEF RunRecv, OnKnownClient, redisVars
  <2> QED BY <2>3, <2>4, <2>5 DEF Live
<1>3. CASE RunRecv /\ OnNewClient
  <2>1. recvd \in Payloads
    BY <1>3, TypeOfRecvd DEF RunRecv
  <2>2. PICK p \in Proxies \ Live :
          /\ udpSource' = [udpSource EXCEPT ![p] = recvd.from]
          /\ toRedis' = [toRedis EXCEPT ![p] = Pushed(<< >>, recvd)]
    BY <1>3 DEF OnNewClient
  <2>3. Owned(Pushed(<< >>, recvd), recvd.from)
    BY <2>1, OwnedPush, OwnedEmpty, EmptyQueue
  <2>4. fromRedis[p] = << >> /\ atRedis[p] = << >>
    BY <2>2 DEF FreedEmpty, Live
  <2>5. UNCHANGED <<fromRedis, atRedis, sendq>>
    BY <1>3 DEF RunRecv, OnNewClient, redisVars
  <2> QED BY <2>2, <2>3, <2>4, <2>5, OwnedEmpty DEF Live, TypeOK
<1>4. ASSUME NEW p \in Proxies, RunToRedis(p) PROVE ClientsKeptApart'
  <2> DEFINE m == Head(toRedis[p])
  <2>1. /\ Owned(Tail(toRedis[p]), udpSource[p])
        /\ m.from = udpSource[p]
        /\ m \in Payloads
    BY <1>4, OwnedPop, PopType DEF RunToRedis, TypeOK
  <2>2. Owned(atRedis'[p], udpSource[p])
    <3>1. Owned(Append(atRedis[p], m), udpSource[p])
      BY <1>4, <2>1, OwnedPush DEF RunToRedis, TypeOK
    <3>2. atRedis'[p] \in {atRedis[p], Append(atRedis[p], m)}
      BY <1>4 DEF RunToRedis, TypeOK
    <3> QED BY <1>4, <3>1, <3>2 DEF RunToRedis
  <2>3. /\ \A r \in Proxies \ {p} : atRedis'[r] = atRedis[r]
        /\ \A r \in Proxies \ {p} : toRedis'[r] = toRedis[r]
        /\ toRedis'[p] = Tail(toRedis[p])
        /\ UNCHANGED <<udpSource, fromRedis, sendq>>
    BY <1>4 DEF RunToRedis, TypeOK
  <2> QED BY <2>1, <2>2, <2>3 DEF Live
<1>5. ASSUME NEW p \in Proxies, RunFromRedis(p) PROVE ClientsKeptApart'
  <2> DEFINE msg == [dst |-> ReplyTo(p), payload |-> Head(fromRedis[p])]
  <2>1. /\ Owned(Tail(fromRedis[p]), udpSource[p])
        /\ msg.payload.from = msg.dst
    BY <1>5, OwnedPop DEF RunFromRedis, ReplyTo, TypeOK
  <2>2. sendq' = sendq \/ sendq' = Append(sendq, msg)
    BY <1>5 DEF RunFromRedis, Pushed
  <2>3. \A i \in 1 .. Len(sendq') : sendq'[i].dst = sendq'[i].payload.from
    <3>1. /\ sendq \in Seq(UdpMsgs)
          /\ \A i \in 1 .. Len(sendq) : sendq[i].dst = sendq[i].payload.from
      BY DEF TypeOK
    <3>2. CASE sendq' = sendq
      BY <3>1, <3>2
    <3>3. CASE sendq' = Append(sendq, msg)
      <4>1. /\ Len(sendq') = Len(sendq) + 1
            /\ \A i \in 1 .. Len(sendq) : sendq'[i] = sendq[i]
            /\ sendq'[Len(sendq) + 1] = msg
        BY <3>1, <3>3, AppendProperties
      <4>2. \A i \in 1 .. Len(sendq') : i \in 1 .. Len(sendq) \/ i = Len(sendq) + 1
        BY <3>1, <4>1
      <4> QED BY <2>1, <3>1, <4>1, <4>2
    <3> QED BY <2>2, <3>2, <3>3
  <2>4. /\ \A r \in Proxies \ {p} : fromRedis'[r] = fromRedis[r]
        /\ fromRedis'[p] = Tail(fromRedis[p])
        /\ UNCHANGED <<udpSource, toRedis, atRedis>>
    BY <1>5 DEF RunFromRedis, TypeOK
  <2> QED BY <2>1, <2>3, <2>4 DEF Live
<1>6. CASE RunSend
  <2>1. /\ Len(sendq') = Len(sendq) - 1
        /\ \A i \in 1 .. Len(sendq') : sendq'[i] = sendq[i + 1]
    BY <1>6, PopType DEF RunSend, TypeOK
  <2>2. Len(sendq) \in Nat
    BY DEF TypeOK
  <2>3. \A i \in 1 .. Len(sendq') : sendq'[i].dst = sendq'[i].payload.from
    BY <2>1, <2>2
  <2> QED BY <1>6, <2>3 DEF RunSend, redisVars, Live
<1>7. ASSUME NEW p \in Proxies, Redis(p) PROVE ClientsKeptApart'
  <2>1. CASE RedisAnswers(p)
    <3>1. /\ Owned(Tail(atRedis[p]), udpSource[p])
          /\ Head(atRedis[p]).from = udpSource[p]
          /\ Head(atRedis[p]) \in Payloads
      BY <2>1, OwnedPop, PopType DEF RedisAnswers, TypeOK
    <3>2. Owned(Pushed(fromRedis[p], Head(atRedis[p])), udpSource[p])
      BY <2>1, <3>1, OwnedPush DEF RedisAnswers, TypeOK
    <3>3. /\ \A r \in Proxies \ {p} : /\ fromRedis'[r] = fromRedis[r]
                                     /\ atRedis'[r] = atRedis[r]
          /\ fromRedis'[p] = Pushed(fromRedis[p], Head(atRedis[p]))
          /\ atRedis'[p] = Tail(atRedis[p])
          /\ UNCHANGED <<udpSource, toRedis, sendq>>
      BY <2>1 DEF RedisAnswers, TypeOK
    <3> QED BY <3>1, <3>2, <3>3 DEF Live
  <2>2. CASE RedisBreaks(p)
    BY <2>2, OwnedEmpty DEF RedisBreaks, TypeOK, Live
  <2>3. CASE RedisPublishes(p)
    <3> DEFINE m == [from |-> udpSource[p], n |-> 0]
    <3>1. m \in Payloads
      BY <2>3 DEF RedisPublishes, Live, TypeOK, Payloads
    <3>2. Owned(Pushed(fromRedis[p], m), udpSource[p])
      BY <2>3, <3>1, OwnedPush DEF RedisPublishes, TypeOK
    <3>3. /\ \A r \in Proxies \ {p} : fromRedis'[r] = fromRedis[r]
          /\ fromRedis'[p] = Pushed(fromRedis[p], m)
          /\ UNCHANGED <<udpSource, toRedis, atRedis, sendq>>
      BY <2>3 DEF RedisPublishes, TypeOK
    <3> QED BY <3>2, <3>3 DEF Live
  <2> QED BY <1>7, <2>1, <2>2, <2>3 DEF Redis
<1>8. CASE Cleanup
  <2>1. sendq' = sendq
    BY <1>8 DEF Cleanup
  <2>2. \A p \in Proxies :
          \/ udpSource'[p] = NoAddress
          \/ /\ udpSource'[p] = udpSource[p]
             /\ toRedis'[p] = toRedis[p]
             /\ fromRedis'[p] = fromRedis[p]
             /\ atRedis'[p] = atRedis[p]
    BY <1>8 DEF Cleanup
  <2> QED BY <2>1, <2>2 DEF Live
<1>9. \/ UNCHANGED <<udpSource, toRedis, fromRedis, atRedis, sendq>>
      \/ RunRecv /\ OnKnownClient
      \/ RunRecv /\ OnNewClient
      \/ \E p \in Proxies : RunToRedis(p)
      \/ \E p \in Proxies : RunFromRedis(p)
      \/ RunSend
      \/ \E p \in Proxies : Redis(p)
      \/ Cleanup
  BY DEF Next, vars, Readable, SocketError, RunInvoker, RunRecv,
     RunProxyInvoker, RunEmpty, RunDangling, Tick, redisVars
<1> QED BY <1>1, <1>2, <1>3, <1>4, <1>5, <1>6, <1>7, <1>8, <1>9

-----------------------------------------------------------------------------
(* Freed blocks.                                                           *)

LEMMA FreedEmptyStep == IInv /\ [Next]_vars => FreedEmpty'
<1> SUFFICES ASSUME IInv, [Next]_vars PROVE FreedEmpty'
  OBVIOUS
<1> USE DEF IInv, FreedEmpty, Live
<1>1. CASE Cleanup
  BY <1>1 DEF Cleanup
<1>2. CASE RunRecv
  <2>1. recvd.from \in Addresses
    BY <1>2, TypeOfRecvd DEF RunRecv, Payloads
  <2>2. CASE OnKnownClient
    <3>1. udpSource[clients[recvd.from]] = recvd.from
      BY <2>1, <2>2 DEF OnKnownClient, MapMatchesHeap
    <3>2. recvd.from # NoAddress
      BY <2>1
    <3> QED BY <2>2, <3>1, <3>2 DEF OnKnownClient, redisVars, TypeOK
  <2>3. CASE OnNewClient
    BY <2>1, <2>3 DEF OnNewClient, redisVars, TypeOK
  <2> QED BY <1>2, <2>2, <2>3 DEF RunRecv
<1>3. ASSUME NEW p \in Proxies, RunToRedis(p) \/ RunFromRedis(p) \/ Redis(p)
      PROVE  FreedEmpty'
  <2>1. udpSource[p] # NoAddress /\ UNCHANGED udpSource
    BY <1>3 DEF RunToRedis, RunFromRedis, Redis, RedisAnswers, RedisBreaks,
       RedisPublishes
  <2>2. \A r \in Proxies \ {p} : /\ toRedis'[r] = toRedis[r]
                               /\ fromRedis'[r] = fromRedis[r]
                               /\ atRedis'[r] = atRedis[r]
    BY <1>3 DEF RunToRedis, RunFromRedis, Redis, RedisAnswers, RedisBreaks,
       RedisPublishes, TypeOK
  <2> QED BY <2>1, <2>2
<1>4. CASE UNCHANGED <<udpSource, toRedis, fromRedis, atRedis>>
  BY <1>4
<1>5. \/ UNCHANGED <<udpSource, toRedis, fromRedis, atRedis>>
      \/ Cleanup
      \/ RunRecv
      \/ \E p \in Proxies : RunToRedis(p) \/ RunFromRedis(p) \/ Redis(p)
  BY DEF Next, vars, Readable, SocketError, RunInvoker, RunSend,
     RunProxyInvoker, RunEmpty, RunDangling, Tick, redisVars
<1> QED BY <1>1, <1>2, <1>3, <1>4, <1>5

-----------------------------------------------------------------------------
(* Requests stay in order.                                                 *)

LEMMA OrderedPush ==
  ASSUME NEW q \in Seq(Payloads), NEW lo \in Nat, NEW v \in Payloads,
         Ordered(q, lo, v.n), v.n > 0, lo <= v.n
  PROVE  Ordered(Pushed(q, v), lo, v.n)
<1>1. v.n \in Nat
  BY DEF Payloads
<1>2. CASE Pushed(q, v) = q
  BY <1>1, <1>2 DEF Ordered, Payloads
<1>3. CASE Pushed(q, v) = Append(q, v)
  <2> DEFINE r == Append(q, v)
  <2>1. /\ Len(r) = Len(q) + 1
        /\ \A i \in 1 .. Len(q) : r[i] = q[i]
        /\ r[Len(q) + 1] = v
    BY AppendProperties
  <2> HIDE DEF r
  <2>2. \A i \in 1 .. Len(r) : i \in 1 .. Len(q) \/ i = Len(q) + 1
    BY <2>1
  <2>3. ASSUME NEW i \in 1 .. Len(r)
        PROVE  r[i].n \in 1 .. v.n /\ lo <= r[i].n
    <3>1. CASE i = Len(q) + 1
      BY <1>1, <2>1, <3>1
    <3>2. CASE i \in 1 .. Len(q)
      BY <2>1, <3>2 DEF Ordered
    <3> QED BY <2>2, <3>1, <3>2
  <2>4. ASSUME NEW i \in 1 .. Len(r), NEW j \in 1 .. Len(r), i <= j
        PROVE  r[i].n <= r[j].n
    <3>1. CASE j = Len(q) + 1
      BY <1>1, <2>1, <2>3, <3>1
    <3>2. CASE j \in 1 .. Len(q)
      BY <2>1, <2>2, <2>4, <3>2 DEF Ordered
    <3> QED BY <2>2, <3>1, <3>2
  <2>5. Ordered(r, lo, v.n)
    BY <1>1, <2>3, <2>4 DEF Ordered
  <2> QED BY <1>3, <2>5 DEF r
<1> QED BY <1>2, <1>3 DEF Pushed

LEMMA OrderedPop ==
  ASSUME NEW q \in Seq(Payloads), NEW lo \in Nat, NEW hi \in Nat,
         Ordered(q, lo, hi), q # << >>
  PROVE  /\ Head(q).n \in 1 .. hi /\ lo <= Head(q).n
         /\ Ordered(Tail(q), Head(q).n, hi)
         /\ Ordered(Tail(q), lo, hi)
<1>1. /\ Len(Tail(q)) = Len(q) - 1
      /\ \A i \in 1 .. Len(Tail(q)) : Tail(q)[i] = q[i + 1]
      /\ Head(q) = q[1]
  BY PopType
<1>2. Len(q) \in Nat \ {0} /\ 1 \in 1 .. Len(q)
  BY EmptySeq
<1>3. \A i \in 1 .. Len(Tail(q)) : i + 1 \in 1 .. Len(q)
  BY <1>1, <1>2
<1> QED BY <1>1, <1>2, <1>3 DEF Ordered

LEMMA OrderedEmpty == \A lo, hi : Ordered(<< >>, lo, hi)
  BY DEF Ordered

LEMMA OrderedWiden ==
  ASSUME NEW q, NEW lo, NEW hi \in Nat, NEW hj \in Nat, hi <= hj,
         Ordered(q, lo, hi)
  PROVE  Ordered(q, lo, hj)
  BY DEF Ordered

LEMMA RequestsInOrderStep == IInv /\ [Next]_vars => RequestsInOrder'
<1> SUFFICES ASSUME IInv, [Next]_vars PROVE RequestsInOrder'
  OBVIOUS
<1> USE DEF IInv, RequestsInOrder
<1>0. \A a \in Addresses : /\ Newest(a) \in Nat /\ Newest(a) <= sent[a]
                           /\ sent[a] \in Nat /\ delivered[a] \in Nat
  BY DEF Newest, TypeOK, NoPayload
<1>1. CASE UNCHANGED <<recvd, udpSource, toRedis, sent, delivered>>
  BY <1>1 DEF Live, Newest
<1>2. ASSUME NEW a \in Addresses, Readable(a) PROVE RequestsInOrder'
  <2>1. /\ sent' = [sent EXCEPT ![a] = @ + 1]
        /\ recvd' = [from |-> a, n |-> sent[a] + 1]
        /\ UNCHANGED <<udpSource, toRedis, delivered>>
    BY <1>2 DEF Readable
  <2>2. \A b \in Addresses :
          /\ Newest(b)' \in Nat
          /\ Newest(b) <= Newest(b)'
    BY <1>0, <2>1 DEF Newest, TypeOK
  <2>3. recvd'.n \in 1 .. sent'[recvd'.from]
    BY <1>0, <2>1 DEF TypeOK
  <2>4. \A b \in Addresses : delivered'[b] <= Newest(b)'
    BY <1>0, <2>1, <2>2
  <2>5. ASSUME NEW p \in Live'
        PROVE  Ordered(toRedis[p], delivered[udpSource[p]],
                       Newest(udpSource[p]))'
    <3>1. /\ p \in Live /\ p \in Proxies /\ udpSource[p] \in Addresses
          /\ toRedis' = toRedis /\ delivered' = delivered
          /\ udpSource' = udpSource
      BY <2>1 DEF Live, TypeOK
    <3>2. Ordered(toRedis[p], delivered[udpSource[p]], Newest(udpSource[p]))
      BY <3>1
    <3>3. ASSUME NEW b \in Addresses, b = udpSource[p]
          PROVE  Ordered(toRedis[p], delivered[b], Newest(b)')
      BY <1>0, <2>2, <3>2, <3>3, OrderedWiden
    <3> QED BY <3>1, <3>3
  <2> QED BY <2>3, <2>4, <2>5
<1>3. CASE RunRecv /\ OnKnownClient
  <2> DEFINE p == clients[recvd.from]
  <2>1. recvd \in Payloads /\ recvd.from \in Addresses /\ p \in Proxies
    BY <1>3, TypeOfRecvd DEF RunRecv, OnKnownClient, TypeOK, Payloads
  <2>2. p \in Live /\ udpSource[p] = recvd.from
    BY <1>3, <2>1 DEF OnKnownClient, MapMatchesHeap, Live
  <2>3. Newest(recvd.from) = recvd.n /\ recvd.n > 0
    BY <2>1 DEF Newest, Payloads, NoPayload
  <2>4. Ordered(Pushed(toRedis[p], recvd), delivered[udpSource[p]],
                Newest(udpSource[p]))
    BY <1>0, <2>1, <2>2, <2>3, OrderedPush DEF TypeOK
  <2>5. \A r \in Proxies :
          toRedis'[r] = IF r = p THEN Pushed(toRedis[p], recvd) ELSE toRedis[r]
    BY <1>3, <2>1 DEF OnKnownClient, TypeOK
  <2>6. UNCHANGED <<recvd, udpSource, sent, delivered>>
    BY <1>3 DEF RunRecv, OnKnownClient, history
  <2> QED BY <2>4, <2>5, <2>6 DEF Live, Newest
<1>4. CASE RunRecv /\ OnNewClient
  <2>1. recvd \in Payloads /\ recvd.from \in Addresses
    BY <1>4, TypeOfRecvd DEF RunRecv, Payloads
  <2>2. PICK p \in Proxies \ Live :
          /\ udpSource' = [udpSource EXCEPT ![p] = recvd.from]
          /\ toRedis' = [toRedis EXCEPT ![p] = Pushed(<< >>, recvd)]
    BY <1>4 DEF OnNewClient
  <2>3. Newest(recvd.from) = recvd.n /\ recvd.n > 0
    BY <2>1 DEF Newest, Payloads, NoPayload
  <2>4. Ordered(Pushed(<< >>, recvd), delivered[recvd.from], Newest(recvd.from))
    BY <1>0, <2>1, <2>3, EmptyQueue, OrderedEmpty, OrderedPush
  <2>5. /\ toRedis'[p] = Pushed(<< >>, recvd)
        /\ udpSource'[p] = recvd.from
        /\ \A r \in Proxies \ {p} : /\ toRedis'[r] = toRedis[r]
                                  /\ udpSource'[r] = udpSource[r]
    BY <2>2 DEF TypeOK
  <2>6. UNCHANGED <<recvd, sent, delivered>>
    BY <1>4 DEF RunRecv, OnNewClient, history
  <2> QED BY <2>4, <2>5, <2>6 DEF Live, Newest
<1>5. ASSUME NEW p \in Proxies, RunToRedis(p) PROVE RequestsInOrder'
  <2> DEFINE a == udpSource[p]
             m == Head(toRedis[p])
  <2>1. p \in Live /\ a \in Addresses /\ toRedis[p] \in Seq(Payloads)
    BY <1>5 DEF RunToRedis, Live, TypeOK
  <2>2. m.from = a
    BY <1>5, <2>1, OwnedPop DEF RunToRedis, ClientsKeptApart
  <2>3. /\ m.n \in 1 .. Newest(a)
        /\ Ordered(Tail(toRedis[p]), m.n, Newest(a))
        /\ Ordered(Tail(toRedis[p]), delivered[a], Newest(a))
    BY <1>0, <1>5, <2>1, OrderedPop DEF RunToRedis
  <2>4. \/ delivered' = delivered
        \/ delivered' = [delivered EXCEPT ![a] = m.n]
    BY <1>5, <2>2 DEF RunToRedis
  <2>5. /\ \A b \in Addresses \ {a} : delivered'[b] = delivered[b]
        /\ delivered'[a] \in {delivered[a], m.n}
    BY <2>1, <2>4 DEF TypeOK
  <2>6. /\ toRedis'[p] = Tail(toRedis[p])
        /\ \A r \in Proxies \ {p} : toRedis'[r] = toRedis[r]
        /\ UNCHANGED <<recvd, udpSource, sent>>
    BY <1>5 DEF RunToRedis, TypeOK
  <2>7. \A b \in Addresses : delivered'[b] <= Newest(b)
    BY <1>0, <2>1, <2>3, <2>5
  <2>8. ASSUME NEW r \in Live
        PROVE  Ordered(toRedis'[r], delivered'[udpSource[r]],
                       Newest(udpSource[r]))
    <3>1. CASE r = p
      BY <2>3, <2>5, <2>6, <3>1
    <3>2. CASE r # p
      <4>1. udpSource[r] \in Addresses \ {a}
        BY <2>1, <3>2 DEF Live, TypeOK, MapMatchesHeap
      <4> QED BY <2>5, <2>6, <3>2, <4>1 DEF Live
    <3> QED BY <3>1, <3>2
  <2> QED BY <2>6, <2>7, <2>8 DEF Live, Newest
<1>6. CASE Cleanup
  <2>1. \A p \in Proxies : \/ udpSource'[p] = NoAddress
                          \/ /\ udpSource'[p] = udpSource[p]
                             /\ toRedis'[p] = toRedis[p]
    BY <1>6 DEF Cleanup
  <2>2. UNCHANGED <<recvd, sent, delivered>>
    BY <1>6 DEF Cleanup, history
  <2> QED BY <2>1, <2>2 DEF Live, Newest
<1>7. \/ UNCHANGED <<recvd, udpSource, toRedis, sent, delivered>>
      \/ \E a \in Addresses : Readable(a)
      \/ RunRecv /\ OnKnownClient
      \/ RunRecv /\ OnNewClient
      \/ \E p \in Proxies : RunToRedis(p)
      \/ Cleanup
  BY DEF Next, vars, SocketError, RunInvoker, RunRecv, RunSend,
     RunProxyInvoker, RunEmpty, RunFromRedis, RunDangling, Redis,
     RedisAnswers, RedisBreaks, RedisPublishes, Tick, history
<1> QED BY <1>1, <1>2, <1>3, <1>4, <1>5, <1>6, <1>7

-----------------------------------------------------------------------------
(* Invokers are posted as often as values wait for them.                   *)

\* How many more invokers i than values of the queue q are there?
Spare(q, w, i) == Count(w, i) - Len(q)

LEMMA SpareType ==
  ASSUME NEW S, NEW q \in Seq(S), NEW w \in Seq(Invokers), NEW i
  PROVE  Spare(q, w, i) \in Int
<1>1. Count(w, i) \in Int /\ Len(q) \in Int
  BY CountFinite
<1> QED BY <1>1 DEF Spare

\* An empty queue is covered.
LEMMA SpareEmpty ==
  ASSUME NEW w \in Seq(Invokers), NEW i
  PROVE  Spare(<< >>, w, i) >= 0
<1>1. Count(w, i) \in Nat
  BY CountFinite
<1> QED BY <1>1 DEF Spare

\* A push and its post go together.
LEMMA SparePushed ==
  ASSUME NEW S, NEW q \in Seq(S), NEW v \in S, NEW w \in Seq(Invokers),
         NEW i \in Invokers
  PROVE  Spare(Pushed(q, v), Posted(w, q, i), i) = Spare(q, w, i)
<1>1. Len(Append(q, v)) = Len(q) + 1 /\ Len(q) \in Int
  OBVIOUS
<1>2. Count(Append(w, i), i) = Count(w, i) + 1 /\ Count(w, i) \in Int
  BY CountAppend, CountFinite
<1> QED BY <1>1, <1>2 DEF Spare, Pushed, Posted

\* A post changes no other flow.
LEMMA SparePosted ==
  ASSUME NEW w \in Seq(Invokers), NEW q, NEW r, NEW i \in Invokers, NEW j, i # j
  PROVE  Spare(r, Posted(w, q, i), j) = Spare(r, w, j)
<1>1. Count(Append(w, i), j) = Count(w, j)
  BY CountAppend
<1> QED BY <1>1 DEF Spare, Posted

\* The worker takes an invoker: its flow loses one, and nothing else changes.
LEMMA SpareTaken ==
  ASSUME NEW w \in Seq(Invokers), w # << >>, NEW r, NEW j
  PROVE  /\ Tail(w) \in Seq(Invokers)
         /\ Head(w) # j => Spare(r, Tail(w), j) = Spare(r, w, j)
<1>1. Head(w) # j => Count(Tail(w), j) = Count(w, j)
  BY CountTail
<1> QED BY <1>1, PopType DEF Spare

\* An invoker that takes a value of its queue leaves the flow as it was.
LEMMA SparePopped ==
  ASSUME NEW S, NEW q \in Seq(S), q # << >>, NEW w \in Seq(Invokers), w # << >>
  PROVE  Spare(Tail(q), Tail(w), Head(w)) = Spare(q, w, Head(w))
<1>1. Len(Tail(q)) = Len(q) - 1 /\ Len(q) \in Int
  BY PopType
<1>2. Count(Tail(w), Head(w)) = Count(w, Head(w)) - 1 /\ Count(w, Head(w)) \in Int
  BY CountTail, CountFinite
<1> QED BY <1>1, <1>2 DEF Spare

\* The invokers differ.
LEMMA InvokersDiffer ==
  ASSUME NEW p \in Proxies, NEW r \in Proxies
  PROVE  /\ ToRedis(p) # FromRedis(r) /\ ToRedis(p) # Send /\ FromRedis(p) # Send
         /\ (ToRedis(p) = ToRedis(r) <=> p = r)
         /\ (FromRedis(p) = FromRedis(r) <=> p = r)
         /\ ToRedis(p) # Recv /\ FromRedis(p) # Recv /\ Send # Recv
  BY DEF ToRedis, FromRedis, Send, Recv

\* Every live flow has an invoker for each of its values; the send flow has one each.
Covered ==
  /\ \A p \in Live : /\ Spare(toRedis[p], work, ToRedis(p)) >= 0
                     /\ Spare(fromRedis[p], work, FromRedis(p)) >= 0
  /\ Spare(sendq, work, Send) = 0

\* NothingStranded, with the count of the lemmas.
LEMMA CoveredImplies == IInv /\ Covered => NothingStranded
<1> SUFFICES ASSUME IInv, Covered PROVE NothingStranded
  OBVIOUS
<1>0. work \in Seq(Invokers)
  BY DEF IInv, TypeOK
<1>1. \A j : Count(work, j) \in Int /\ Posts(j) = Count(work, j)
  <2>1. \A j : Count(work, j) \in Int
    BY <1>0, CountFinite
  <2>2. \A j : Posts(j) = Count(work, j)
    BY DEF Posts, Count, PlacesOf
  <2> QED BY <2>1, <2>2
<1>2. \A p \in Live : Len(toRedis[p]) \in Int /\ Len(fromRedis[p]) \in Int
  BY DEF IInv, TypeOK, Live
<1>3. Len(sendq) \in Int
  BY DEF IInv, TypeOK
<1> QED BY <1>1, <1>2, <1>3 DEF Covered, NothingStranded, Spare

LEMMA CoveredStep == IInv /\ Covered /\ [Next]_vars => Covered'
<1> SUFFICES ASSUME IInv, Covered, [Next]_vars PROVE Covered'
  OBVIOUS
<1>0. /\ work \in Seq(Invokers)
      /\ toRedis \in [Proxies -> Seq(Payloads)] /\ fromRedis \in [Proxies -> Seq(Payloads)]
      /\ atRedis \in [Proxies -> Seq(Payloads)]
      /\ sendq \in Seq(UdpMsgs) /\ clients \in [Addresses -> Proxies \cup {NoProxy}]
      /\ udpSource \in [Proxies -> Addresses \cup {NoAddress}]
  BY DEF IInv, TypeOK
<1>1. ASSUME UNCHANGED <<work, toRedis, fromRedis, sendq, udpSource>> PROVE Covered'
  BY <1>1 DEF Covered, Live
<1>2. ASSUME NEW a \in Addresses, Readable(a) PROVE Covered'
  <2>1. work' = Append(work, Recv)
    BY <1>2 DEF Readable
  <2>2. \A q, j : j # Recv => Spare(q, work', j) = Spare(q, work, j)
    BY <1>0, <2>1, CountAppend, InvokerTypes DEF Spare
  <2>3. UNCHANGED <<toRedis, fromRedis, sendq, udpSource>>
    BY <1>2 DEF Readable, redisVars
  <2>4. Live' = Live /\ Live \subseteq Proxies
    BY <2>3 DEF Live
  <2>5. Spare(sendq', work', Send) = 0
    BY <2>2, <2>3 DEF Covered, Recv, Send
  <2>6. ASSUME NEW r \in Live
        PROVE  /\ Spare(toRedis'[r], work', ToRedis(r)) >= 0
               /\ Spare(fromRedis'[r], work', FromRedis(r)) >= 0
    <3>1. ToRedis(r) # Recv /\ FromRedis(r) # Recv
      BY DEF ToRedis, FromRedis, Recv
    <3> QED BY <2>2, <2>3, <3>1 DEF Covered
  <2> QED BY <2>4, <2>5, <2>6 DEF Covered
<1>3. CASE RunRecv /\ OnKnownClient
  <2> DEFINE p == clients[recvd.from]
             w == Tail(work)
  <2>1. recvd \in Payloads /\ p \in Proxies
    BY <1>3, TypeOfRecvd DEF RunRecv, OnKnownClient, IInv, TypeOK, Payloads
  <2>2. /\ work # << >> /\ Head(work) = Recv
        /\ work' = Posted(w, toRedis[p], ToRedis(p))
        /\ toRedis' = [toRedis EXCEPT ![p] = Pushed(@, recvd)]
        /\ UNCHANGED <<fromRedis, sendq, udpSource>>
    BY <1>3 DEF RunRecv, OnKnownClient, redisVars
  <2>3. /\ w \in Seq(Invokers)
        /\ \A q, j : j # Recv => Spare(q, w, j) = Spare(q, work, j)
    BY <1>0, <2>2, SpareTaken
  <2> HIDE DEF p, w
  <2>4. \A q, j : j # Recv /\ j # ToRedis(p) => Spare(q, work', j) = Spare(q, work, j)
    BY <2>1, <2>2, <2>3, SparePosted, InvokerTypes
  <2>5. Spare(toRedis'[p], work', ToRedis(p)) = Spare(toRedis[p], work, ToRedis(p))
    <3>1. toRedis[p] \in Seq(Payloads) /\ toRedis'[p] = Pushed(toRedis[p], recvd)
      BY <1>0, <2>1, <2>2
    <3>2. Spare(toRedis'[p], work', ToRedis(p)) = Spare(toRedis[p], w, ToRedis(p))
      BY <2>1, <2>2, <2>3, <3>1, SparePushed, InvokerTypes
    <3> QED BY <2>1, <2>3, <3>2, InvokersDiffer
  <2>6. \A r \in Proxies : r # p => toRedis'[r] = toRedis[r]
    BY <1>0, <2>2
  <2>7. \A r \in Live : Spare(toRedis'[r], work', ToRedis(r)) >= 0
    BY <2>1, <2>4, <2>5, <2>6, InvokersDiffer DEF Covered, Live
  <2> QED BY <2>1, <2>2, <2>4, <2>7, InvokersDiffer DEF Covered, Live
<1>4. CASE RunRecv /\ OnNewClient
  <2> DEFINE w == Tail(work)
  <2>1. recvd \in Payloads
    BY <1>4, TypeOfRecvd DEF RunRecv, IInv
  <2>2. PICK p \in Proxies \ Live :
          /\ udpSource' = [udpSource EXCEPT ![p] = recvd.from]
          /\ toRedis' = [toRedis EXCEPT ![p] = Pushed(<< >>, recvd)]
          /\ work' = Posted(w, << >>, ToRedis(p))
    BY <1>4 DEF OnNewClient
  <2>3. work # << >> /\ Head(work) = Recv /\ UNCHANGED <<fromRedis, sendq>>
    BY <1>4 DEF RunRecv, OnNewClient, redisVars
  <2>4. /\ w \in Seq(Invokers)
        /\ \A q, j : j # Recv => Spare(q, w, j) = Spare(q, work, j)
    BY <1>0, <2>3, SpareTaken
  <2> HIDE DEF w
  <2>5. \A q, j : j # Recv /\ j # ToRedis(p) => Spare(q, work', j) = Spare(q, work, j)
    BY <2>2, <2>4, SparePosted, InvokerTypes
  <2>6. Spare(toRedis'[p], work', ToRedis(p)) >= 0
    <3>1. toRedis'[p] = Pushed(<< >>, recvd)
      BY <1>0, <2>2
    <3>2. << >> \in Seq(Payloads) /\ ToRedis(p) \in Invokers
      BY <2>2, InvokerTypes
    <3>3. Spare(Pushed(<< >>, recvd), Posted(w, << >>, ToRedis(p)), ToRedis(p))
            = Spare(<< >>, w, ToRedis(p))
      <4> DEFINE empty == << >>
      <4>1. empty \in Seq(Payloads)
        OBVIOUS
      <4> HIDE DEF empty
      <4>2. Spare(Pushed(empty, recvd), Posted(w, empty, ToRedis(p)), ToRedis(p))
              = Spare(empty, w, ToRedis(p))
        BY <2>1, <2>4, <3>2, <4>1, SparePushed
      <4> QED BY <4>2 DEF empty
    <3>4. Spare(toRedis'[p], work', ToRedis(p)) = Spare(<< >>, w, ToRedis(p))
      BY <2>2, <3>1, <3>3
    <3>5. Spare(<< >>, w, ToRedis(p)) >= 0
      BY <2>4, SpareEmpty
    <3> QED BY <3>4, <3>5
  <2>7. Spare(fromRedis'[p], work', FromRedis(p)) >= 0
    <3>1. fromRedis'[p] = << >>
      BY <2>2, <2>3 DEF IInv, FreedEmpty
    <3>2. Spare(<< >>, work', FromRedis(p)) = Spare(<< >>, work, FromRedis(p))
      BY <2>2, <2>5, InvokersDiffer
    <3> QED BY <1>0, <3>1, <3>2, SpareEmpty
  <2>8. ASSUME NEW r \in Live' PROVE r = p \/ (r \in Live /\ toRedis'[r] = toRedis[r])
    BY <1>0, <2>2 DEF Live
  <2>9. Live' \subseteq Proxies
    BY DEF Live
  <2>10. ASSUME NEW r \in Live'
         PROVE  /\ Spare(toRedis'[r], work', ToRedis(r)) >= 0
                /\ Spare(fromRedis'[r], work', FromRedis(r)) >= 0
    <3>1. CASE r = p
      BY <2>6, <2>7, <3>1
    <3>2. CASE r # p
      BY <2>2, <2>3, <2>5, <2>8, <2>9, <3>2, InvokersDiffer DEF Covered
    <3> QED BY <3>1, <3>2
  <2>11. Spare(sendq', work', Send) = 0
    BY <2>2, <2>3, <2>5, InvokersDiffer DEF Covered
  <2> QED BY <2>10, <2>11 DEF Covered
<1>5. ASSUME NEW p \in Proxies, RunEmpty(p) \/ RunDangling(p) PROVE Covered'
  <2>1. /\ work # << >> /\ work' = Tail(work)
        /\ UNCHANGED <<toRedis, fromRedis, sendq, udpSource>>
        /\ \/ Head(work) = ToRedis(p) /\ (p \in Live => toRedis[p] = << >>)
           \/ Head(work) = FromRedis(p) /\ (p \in Live => fromRedis[p] = << >>)
    BY <1>5 DEF RunEmpty, RunDangling, redisVars
  <2>2. /\ work' \in Seq(Invokers)
        /\ \A q, j : j # Head(work) => Spare(q, work', j) = Spare(q, work, j)
    BY <1>0, <2>1, SpareTaken
  <2>3. Spare(sendq', work', Send) = 0
    BY <2>1, <2>2, InvokersDiffer DEF Covered
  <2>4. Live' = Live /\ Live \subseteq Proxies
    BY <2>1 DEF Live
  <2>5. ASSUME NEW r \in Live PROVE Spare(toRedis[r], work', ToRedis(r)) >= 0
    <3>1. CASE Head(work) = ToRedis(r)
      <4>1. r = p /\ toRedis[r] = << >>
        BY <2>1, <2>4, <3>1, InvokersDiffer
      <4> QED BY <2>2, <4>1, SpareEmpty
    <3>2. CASE Head(work) # ToRedis(r)
      BY <2>2, <3>2 DEF Covered
    <3> QED BY <3>1, <3>2
  <2>6. ASSUME NEW r \in Live PROVE Spare(fromRedis[r], work', FromRedis(r)) >= 0
    <3>1. CASE Head(work) = FromRedis(r)
      <4>1. r = p /\ fromRedis[r] = << >>
        BY <2>1, <2>4, <3>1, InvokersDiffer
      <4> QED BY <2>2, <4>1, SpareEmpty
    <3>2. CASE Head(work) # FromRedis(r)
      BY <2>2, <3>2 DEF Covered
    <3> QED BY <3>1, <3>2
  <2> QED BY <2>1, <2>3, <2>4, <2>5, <2>6 DEF Covered
<1>6. ASSUME NEW p \in Proxies, RunToRedis(p) PROVE Covered'
  <2>1. /\ work # << >> /\ work' = Tail(work) /\ Head(work) = ToRedis(p)
        /\ toRedis[p] # << >> /\ toRedis' = [toRedis EXCEPT ![p] = Tail(@)]
        /\ UNCHANGED <<fromRedis, sendq, udpSource>>
    BY <1>6 DEF RunToRedis
  <2>2. \A q, j : j # ToRedis(p) => Spare(q, work', j) = Spare(q, work, j)
    BY <1>0, <2>1, SpareTaken
  <2>3. Spare(toRedis'[p], work', ToRedis(p)) = Spare(toRedis[p], work, ToRedis(p))
    <3>1. toRedis[p] \in Seq(Payloads) /\ toRedis'[p] = Tail(toRedis[p])
      BY <1>0, <2>1
    <3> QED BY <1>0, <2>1, <3>1, SparePopped
  <2>4. \A r \in Proxies : r # p => toRedis'[r] = toRedis[r]
    BY <1>0, <2>1
  <2>5. \A r \in Live : Spare(toRedis'[r], work', ToRedis(r)) >= 0
    BY <2>2, <2>3, <2>4, InvokersDiffer DEF Covered, Live
  <2> QED BY <2>1, <2>2, <2>5, InvokersDiffer DEF Covered, Live
<1>7. ASSUME NEW p \in Proxies, RunFromRedis(p) PROVE Covered'
  <2> DEFINE msg == [dst |-> ReplyTo(p), payload |-> Head(fromRedis[p])]
             w == Tail(work)
  <2>1. /\ work # << >> /\ work' = Posted(w, sendq, Send)
        /\ Head(work) = FromRedis(p) /\ p \in Live
        /\ fromRedis[p] # << >> /\ fromRedis' = [fromRedis EXCEPT ![p] = Tail(@)]
        /\ sendq' = Pushed(sendq, msg)
        /\ UNCHANGED <<toRedis, udpSource>>
    BY <1>7 DEF RunFromRedis
  <2>2. msg \in UdpMsgs
    BY <1>0, <2>1, PopType DEF UdpMsgs, ReplyTo, Live
  <2>3. /\ w \in Seq(Invokers)
        /\ \A q, j : j # FromRedis(p) => Spare(q, w, j) = Spare(q, work, j)
    BY <1>0, <2>1, SpareTaken
  <2>4. Spare(fromRedis'[p], w, FromRedis(p)) = Spare(fromRedis[p], work, FromRedis(p))
    <3>1. fromRedis[p] \in Seq(Payloads) /\ fromRedis'[p] = Tail(fromRedis[p])
      BY <1>0, <2>1
    <3> QED BY <1>0, <2>1, <3>1, SparePopped
  <2> HIDE DEF w, msg
  <2>5. \A q, j : j # Send => Spare(q, work', j) = Spare(q, w, j)
    BY <2>1, <2>3, SparePosted, InvokerTypes
  <2>6. Spare(sendq', work', Send) = 0
    <3>1. Spare(sendq', work', Send) = Spare(sendq, w, Send)
      BY <1>0, <2>1, <2>2, <2>3, SparePushed, InvokerTypes
    <3> QED BY <2>3, <3>1, InvokersDiffer DEF Covered
  <2>7. \A r \in Proxies : r # p => fromRedis'[r] = fromRedis[r]
    BY <1>0, <2>1
  <2>8. Live' = Live /\ Live \subseteq Proxies
    BY <2>1 DEF Live
  <2>9. ASSUME NEW r \in Live PROVE Spare(toRedis'[r], work', ToRedis(r)) >= 0
    BY <2>1, <2>3, <2>5, <2>8, InvokersDiffer DEF Covered
  <2>10. ASSUME NEW r \in Live PROVE Spare(fromRedis'[r], work', FromRedis(r)) >= 0
    BY <2>1, <2>3, <2>4, <2>5, <2>7, <2>8, InvokersDiffer DEF Covered
  <2> QED BY <2>6, <2>8, <2>9, <2>10 DEF Covered
<1>8. CASE RunSend
  <2>1. /\ work # << >> /\ work' = Tail(work) /\ Head(work) = Send
        /\ sendq # << >> /\ sendq' = Tail(sendq)
        /\ UNCHANGED <<toRedis, fromRedis, udpSource>>
    BY <1>8 DEF RunSend, redisVars
  <2>2. \A q, j : j # Send => Spare(q, work', j) = Spare(q, work, j)
    BY <1>0, <2>1, SpareTaken
  <2>3. Spare(sendq', work', Send) = Spare(sendq, work, Send)
    BY <1>0, <2>1, SparePopped
  <2> QED BY <2>1, <2>2, <2>3, InvokersDiffer DEF Covered, Live
<1>9. ASSUME NEW p \in Proxies, RedisAnswers(p) \/ RedisPublishes(p) PROVE Covered'
  <2>1. PICK m \in Payloads : /\ work' = Posted(work, fromRedis[p], FromRedis(p))
                             /\ fromRedis' = [fromRedis EXCEPT ![p] = Pushed(@, m)]
                             /\ UNCHANGED <<toRedis, sendq, udpSource>>
    <3>1. CASE RedisAnswers(p)
      <4>1. Head(atRedis[p]) \in Payloads
        BY <1>0, <3>1, PopType DEF RedisAnswers
      <4> QED BY <3>1, <4>1 DEF RedisAnswers
    <3>2. CASE RedisPublishes(p)
      <4>1. [from |-> udpSource[p], n |-> 0] \in Payloads
        BY <1>0, <3>2, ConstantsAssumption DEF RedisPublishes, Live, Payloads
      <4> QED BY <3>2, <4>1 DEF RedisPublishes
    <3> QED BY <1>9, <3>1, <3>2
  <2>2. \A q, j : j # FromRedis(p) => Spare(q, work', j) = Spare(q, work, j)
    BY <1>0, <2>1, SparePosted, InvokerTypes
  <2>3. Spare(fromRedis'[p], work', FromRedis(p)) = Spare(fromRedis[p], work, FromRedis(p))
    <3>1. fromRedis[p] \in Seq(Payloads) /\ fromRedis'[p] = Pushed(fromRedis[p], m)
      BY <1>0, <2>1
    <3> QED BY <1>0, <2>1, <3>1, SparePushed, InvokerTypes
  <2>4. \A r \in Proxies : r # p => fromRedis'[r] = fromRedis[r]
    BY <1>0, <2>1
  <2>5. \A r \in Live : Spare(fromRedis'[r], work', FromRedis(r)) >= 0
    BY <2>2, <2>3, <2>4, InvokersDiffer DEF Covered, Live
  <2> QED BY <2>1, <2>2, <2>5, InvokersDiffer DEF Covered, Live
<1>10. CASE Cleanup
  <2>1. UNCHANGED <<work, sendq>>
    BY <1>10 DEF Cleanup
  <2>2. \A p \in Live' : p \in Live /\ toRedis'[p] = toRedis[p] /\ fromRedis'[p] = fromRedis[p]
    BY <1>10 DEF Cleanup, Live
  <2> QED BY <2>1, <2>2 DEF Covered
<1>11. \/ UNCHANGED <<work, toRedis, fromRedis, sendq, udpSource>>
       \/ \E a \in Addresses : Readable(a)
       \/ RunRecv /\ (OnKnownClient \/ OnNewClient)
       \/ RunSend
       \/ \E p \in Proxies : RunProxyInvoker(p)
       \/ \E p \in Proxies : RedisAnswers(p) \/ RedisPublishes(p)
       \/ Cleanup
  BY DEF Next, vars, SocketError, RunInvoker, RunRecv, Redis, RedisBreaks, Tick, redisVars
<1> QED
  BY <1>1, <1>2, <1>3, <1>4, <1>5, <1>6, <1>7, <1>8, <1>9, <1>10, <1>11
  DEF RunProxyInvoker

-----------------------------------------------------------------------------
(* The theorems.                                                           *)

LEMMA InitIInv == Init => IInv
<1> SUFFICES ASSUME Init PROVE IInv
  OBVIOUS
<1>1. TypeOK
  BY InitTypeOK
<1>2. RecvFilled
  BY DEF Init, RecvFilled
<1>3. Live = {}
  BY DEF Init, Live
<1>4. FreedEmpty
  BY DEF Init, FreedEmpty
<1>5. MapMatchesHeap
  BY <1>3 DEF Init, MapMatchesHeap
<1>6. ClientsKeptApart
  BY <1>3 DEF Init, ClientsKeptApart
<1>7. RequestsInOrder
  BY <1>3 DEF Init, RequestsInOrder, Newest, NoPayload
<1> QED BY <1>1, <1>2, <1>4, <1>5, <1>6, <1>7 DEF IInv

\* The inductive invariant holds in every reachable state of the gateway.
THEOREM Invariance == Spec => []IInv
<1>1. IInv /\ [Next]_vars => IInv'
  BY NextType, RecvFilledStep, FreedEmptyStep, MapMatchesHeapStep,
     ClientsKeptApartStep, RequestsInOrderStep DEF IInv
<1> QED BY InitIInv, <1>1, PTL DEF Spec

\* Every variable keeps its type and no flow ever holds more than its depth.
THEOREM TypeCorrect == Spec => []TypeOK
<1>1. IInv => TypeOK
  BY DEF IInv
<1> QED BY Invariance, <1>1, PTL

\* main()'s map and the heap agree: no proxy leaks, none is shared, and no
\* client is left with a deleted one.
THEOREM NoProxyLeaks == Spec => []MapMatchesHeap
<1>1. IInv => MapMatchesHeap
  BY DEF IInv
<1> QED BY Invariance, <1>1, PTL

\* No client is ever sent what Redis answered to another, not even when proxies
\* are built in the heap blocks of deleted ones.
THEOREM ClientsApart == Spec => []ClientsKeptApart
<1>1. IInv => ClientsKeptApart
  BY DEF IInv
<1> QED BY Invariance, <1>1, PTL

\* What a step does to the datagrams read and delivered.
LEMMA LinkStep == IInv /\ [Next]_vars => [Link!Next]_<<sent, delivered>>
<1> SUFFICES ASSUME IInv, [Next]_vars
             PROVE  Link!Next \/ UNCHANGED <<sent, delivered>>
  OBVIOUS
<1>1. CASE \E a \in Addresses : Readable(a)
  BY <1>1 DEF Readable, Link!Next, Link!Read
<1>2. ASSUME NEW p \in Proxies, RunToRedis(p)
      PROVE  Link!Next \/ UNCHANGED <<sent, delivered>>
  <2> DEFINE a == udpSource[p]
             m == Head(toRedis[p])
  <2>1. /\ p \in Live /\ a \in Addresses
        /\ toRedis[p] \in Seq(Payloads) /\ toRedis[p] # << >>
    BY <1>2 DEF RunToRedis, Live, IInv, TypeOK
  <2>2. m.from = a
    BY <2>1, OwnedPop DEF IInv, ClientsKeptApart
  <2>3. /\ Newest(a) \in Nat /\ Newest(a) <= sent[a]
        /\ sent[a] \in Nat /\ delivered[a] \in Nat
    BY <2>1 DEF Newest, IInv, TypeOK, RequestsInOrder, NoPayload
  <2>4. m.n \in 1 .. Newest(a) /\ delivered[a] <= m.n
    BY <2>1, <2>3, OrderedPop DEF IInv, RequestsInOrder
  <2>5. m.n \in delivered[a] .. sent[a] /\ m.n > 0
    BY <2>3, <2>4
  <2>6. \/ delivered' = delivered
        \/ delivered' = [delivered EXCEPT ![a] = m.n]
    BY <1>2, <2>2 DEF RunToRedis
  <2>7. sent' = sent
    BY <1>2 DEF RunToRedis
  <2> HIDE DEF a, m
  <2> QED BY <2>1, <2>5, <2>6, <2>7 DEF Link!Next, Link!Deliver
<1>3. \/ UNCHANGED <<sent, delivered>>
      \/ \E a \in Addresses : Readable(a)
      \/ \E p \in Proxies : RunToRedis(p)
  BY DEF Next, vars, SocketError, RunInvoker, RunRecv, RunSend,
     RunProxyInvoker, RunEmpty, RunFromRedis, RunDangling, Redis,
     RedisAnswers, RedisBreaks, RedisPublishes, Cleanup, Tick, history
<1> QED BY <1>1, <1>2, <1>3

\* The gateway implements the ordered, lossy link: no request is invented, and
\* none overtakes an earlier one of its client on the way to Redis.
THEOREM ImplementsLink == Spec => LinkSpec
<1>1. Init => Link!Init
  BY DEF Init, Link!Init
<1>2. IInv /\ [Next]_vars => [Link!Next]_(Link!vars)
  BY LinkStep DEF Link!vars
<1> QED BY Invariance, <1>1, <1>2, PTL DEF Spec, LinkSpec, Link!Spec

\* No value waits in a flow without an invoker posted for it, over full queues, deleted
\* proxies, and proxies built in their blocks while invokers of the old ones are posted.
THEOREM NothingIsStranded == Spec => []NothingStranded
<1>1. Init => Covered
  <2> SUFFICES ASSUME Init PROVE Covered
    OBVIOUS
  <2>1. Spare(<< >>, << >>, Send) = 0
    BY FS_EmptySet DEF Spare, Count, PlacesOf
  <2> QED BY <2>1 DEF Init, Covered, Live
<1>2. IInv /\ Covered /\ [Next]_vars => Covered'
  BY CoveredStep
<1>3. IInv /\ Covered => NothingStranded
  BY CoveredImplies
<1> QED BY Invariance, <1>1, <1>2, <1>3, PTL DEF Spec

-----------------------------------------------------------------------------
(* The answers of a client come in the order of its requests.              *)

\* The numbered payloads of q are in order, none below lo and none above hi.
Chain(lo, q, hi) ==
  /\ lo <= hi
  /\ \A i, j \in 1 .. Len(q) :
       i <= j /\ q[i].n > 0 /\ q[j].n > 0
         => lo <= q[i].n /\ q[i].n <= q[j].n /\ q[j].n <= hi

\* What the queue q of the send flow holds for client a; what it holds for others is
\* left in place, as a payload without a number.
Going(q, a) ==
  [i \in 1 .. Len(q) |-> IF q[i].dst = a THEN q[i].payload ELSE [from |-> a, n |-> 0]]

\* A chain through what goes to the socket, what waits in the proxy and what is at Redis.
Chained(lo, g, f, r, hi) ==
  \E x, y \in 0 .. MaxDatagrams : Chain(lo, g, x) /\ Chain(x, f, y) /\ Chain(y, r, hi)

\* The last answer of a client, those on the way to its socket, those in its proxy,
\* the requests its Redis connection has not answered and the last one delivered are
\* in order.  Without a proxy the first and the last two are.
Answering ==
  /\ \A a \in Addresses : Chain(answered[a], Going(sendq, a), delivered[a])
  /\ \A p \in Live :
       Chained(answered[udpSource[p]], Going(sendq, udpSource[p]), fromRedis[p],
               atRedis[p], delivered[udpSource[p]])

LEMMA PayloadNumbers ==
  /\ \A v \in Payloads : v.n \in Nat
  /\ \A q \in Seq(Payloads) : \A i \in 1 .. Len(q) : q[i].n \in Nat
<1>1. 0 .. MaxDatagrams \subseteq Nat
  BY ConstantsAssumption
<1>2. \A v \in Payloads : v.n \in Nat
  BY <1>1 DEF Payloads
<1>3. \A q \in Seq(Payloads) : \A i \in 1 .. Len(q) : q[i] \in Payloads
  OBVIOUS
<1> QED BY <1>2, <1>3

LEMMA PayloadRange == \A v \in Payloads : v.n \in 0 .. MaxDatagrams /\ v.n \in Nat
  BY PayloadNumbers DEF Payloads

LEMMA ChainEmpty ==
  ASSUME NEW lo \in Nat, NEW hi \in Nat, lo <= hi PROVE Chain(lo, << >>, hi)
  BY DEF Chain

\* A chain reaches up to any higher bound.
LEMMA ChainWiden ==
  ASSUME NEW q \in Seq(Payloads), NEW lo \in Nat, NEW hi \in Nat, NEW top \in Nat,
         Chain(lo, q, hi), hi <= top
  PROVE  Chain(lo, q, top)
<1>1. \A i \in 1 .. Len(q) : q[i].n \in Nat
  BY PayloadNumbers
<1> QED BY <1>1 DEF Chain

\* What is appended is the new end of a chain.
LEMMA ChainAppend ==
  ASSUME NEW q \in Seq(Payloads), NEW lo \in Nat, NEW hi \in Nat, NEW top \in Nat,
         NEW v \in Payloads, Chain(lo, q, hi), hi <= top,
         v.n > 0 => hi <= v.n /\ v.n <= top
  PROVE  Chain(lo, Append(q, v), top) /\ Chain(lo, Pushed(q, v), top)
<1> DEFINE r == Append(q, v)
<1>1. /\ Len(q) \in Nat /\ Len(r) = Len(q) + 1 /\ r[Len(q) + 1] = v
      /\ \A i \in 1 .. Len(q) : r[i] = q[i]
  BY AppendProperties
<1>2. \A i \in 1 .. Len(q) : q[i].n \in Nat
  BY PayloadNumbers
<1>3. v.n \in Nat
  BY PayloadNumbers
<1> HIDE DEF r
<1>4. ASSUME NEW i \in 1 .. Len(r), NEW j \in 1 .. Len(r), i <= j, r[i].n > 0, r[j].n > 0
      PROVE  lo <= r[i].n /\ r[i].n <= r[j].n /\ r[j].n <= top
  <2>1. CASE j \in 1 .. Len(q)
    <3>1. i \in 1 .. Len(q)
      BY <1>1, <1>4, <2>1
    <3>2. r[i] = q[i] /\ r[j] = q[j] /\ q[i].n \in Nat /\ q[j].n \in Nat
      BY <1>1, <1>2, <2>1, <3>1
    <3> QED BY <1>4, <2>1, <3>1, <3>2 DEF Chain
  <2>2. CASE j = Len(q) + 1 /\ i \in 1 .. Len(q)
    <3>1. lo <= q[i].n /\ q[i].n <= hi
      BY <1>1, <1>4, <2>2 DEF Chain
    <3> QED BY <1>1, <1>2, <1>3, <1>4, <2>2, <3>1
  <2>3. CASE j = Len(q) + 1 /\ i = Len(q) + 1
    BY <1>1, <1>3, <1>4, <2>3 DEF Chain
  <2> QED BY <1>1, <1>4, <2>1, <2>2, <2>3
<1>5. Chain(lo, r, top)
  BY <1>4 DEF Chain
<1> QED BY <1>5, ChainWiden DEF r, Pushed

\* What is taken from the front of a chain is the new start of the rest.
LEMMA ChainTail ==
  ASSUME NEW q \in Seq(Payloads), NEW lo \in Nat, NEW hi \in Nat, q # << >>,
         Chain(lo, q, hi)
  PROVE  /\ Chain(lo, Tail(q), hi)
         /\ Head(q).n > 0 =>
              lo <= Head(q).n /\ Head(q).n <= hi /\ Chain(Head(q).n, Tail(q), hi)
<1>1. /\ Len(q) \in Nat \ {0} /\ Len(Tail(q)) = Len(q) - 1 /\ Head(q) = q[1]
      /\ \A k \in 1 .. Len(Tail(q)) : Tail(q)[k] = q[k + 1]
  BY HeadTailProperties, EmptySeq
<1>2. \A i \in 1 .. Len(q) : q[i].n \in Nat
  BY PayloadNumbers
<1> QED BY <1>1, <1>2, SMTT(30) DEF Chain

\* What Going does to the operations of a queue.
LEMMA GoingType ==
  ASSUME NEW q \in Seq(UdpMsgs), NEW a \in Addresses
  PROVE  /\ Going(q, a) \in Seq(Payloads) /\ Len(Going(q, a)) = Len(q)
         /\ \A i \in 1 .. Len(q) :
              Going(q, a)[i] = IF q[i].dst = a THEN q[i].payload ELSE [from |-> a, n |-> 0]
<1>1. \A i \in 1 .. Len(q) : q[i] \in UdpMsgs
  OBVIOUS
<1>2. [from |-> a, n |-> 0] \in Payloads
  BY ConstantsAssumption DEF Payloads
<1> QED BY <1>1, <1>2 DEF Going, UdpMsgs

LEMMA GoingPushed ==
  ASSUME NEW q \in Seq(UdpMsgs), NEW a \in Addresses, NEW m \in UdpMsgs
  PROVE  Going(Pushed(q, m), a) =
           Pushed(Going(q, a), IF m.dst = a THEN m.payload ELSE [from |-> a, n |-> 0])
<1> DEFINE v == IF m.dst = a THEN m.payload ELSE [from |-> a, n |-> 0]
           r == Append(q, m)
<1>1. /\ Len(q) \in Nat /\ r \in Seq(UdpMsgs) /\ Len(r) = Len(q) + 1 /\ r[Len(q) + 1] = m
      /\ \A i \in 1 .. Len(q) : r[i] = q[i]
  BY AppendProperties
<1>2. v \in Payloads
  BY ConstantsAssumption DEF UdpMsgs, Payloads
<1> HIDE DEF v, r
<1> DEFINE g == Going(q, a)
           h == Going(r, a)
<1>3. /\ g \in Seq(Payloads) /\ Len(g) = Len(q)
      /\ \A i \in 1 .. Len(q) :
           g[i] = IF q[i].dst = a THEN q[i].payload ELSE [from |-> a, n |-> 0]
  BY GoingType
<1>4. /\ h \in Seq(Payloads) /\ Len(h) = Len(q) + 1
      /\ \A i \in 1 .. Len(q) + 1 :
           h[i] = IF r[i].dst = a THEN r[i].payload ELSE [from |-> a, n |-> 0]
  BY <1>1, GoingType
<1> HIDE DEF g, h
<1>5. /\ Append(g, v) \in Seq(Payloads) /\ Len(Append(g, v)) = Len(q) + 1
      /\ Append(g, v)[Len(q) + 1] = v
      /\ \A i \in 1 .. Len(q) : Append(g, v)[i] = g[i]
  BY <1>2, <1>3, AppendProperties
<1>6. ASSUME NEW i \in 1 .. Len(q) + 1 PROVE h[i] = Append(g, v)[i]
  <2>1. CASE i = Len(q) + 1
    BY <1>1, <1>4, <1>5, <2>1 DEF v
  <2>2. CASE i \in 1 .. Len(q)
    BY <1>1, <1>3, <1>4, <1>5, <2>2
  <2>3. i = Len(q) + 1 \/ i \in 1 .. Len(q)
    BY <1>1
  <2> QED BY <2>1, <2>2, <2>3
<1>7. h = Append(g, v)
  BY <1>4, <1>5, <1>6, SeqEqual
<1> QED BY <1>3, <1>7 DEF Pushed, v, r, g, h

LEMMA GoingTail ==
  ASSUME NEW q \in Seq(UdpMsgs), NEW a \in Addresses, q # << >>
  PROVE  /\ Going(q, a) # << >> /\ Going(Tail(q), a) = Tail(Going(q, a))
         /\ Head(Going(q, a)).n =
              IF Head(q).dst = a THEN Head(q).payload.n ELSE 0
<1>1. /\ Len(q) \in Nat \ {0} /\ Len(Tail(q)) = Len(q) - 1 /\ Tail(q) \in Seq(UdpMsgs)
      /\ Head(q) = q[1]
      /\ \A k \in 1 .. Len(Tail(q)) : Tail(q)[k] = q[k + 1]
  BY HeadTailProperties, EmptySeq
<1> DEFINE g == Going(q, a)
<1>2. /\ g \in Seq(Payloads) /\ Len(g) = Len(q)
      /\ \A i \in 1 .. Len(q) :
           g[i] = IF q[i].dst = a THEN q[i].payload ELSE [from |-> a, n |-> 0]
  BY GoingType
<1> HIDE DEF g
<1>3. g # << >>
  BY <1>1, <1>2
<1>4. /\ Len(Tail(g)) = Len(q) - 1 /\ Tail(g) \in Seq(Payloads) /\ Head(g) = g[1]
      /\ \A k \in 1 .. Len(q) - 1 : Tail(g)[k] = g[k + 1]
  BY <1>1, <1>2, <1>3, HeadTailProperties
<1>5. Going(Tail(q), a) = Tail(g)
  <2> DEFINE r == Tail(q)
  <2>0. r \in Seq(UdpMsgs) /\ Len(r) = Len(q) - 1
    BY <1>1
  <2> HIDE DEF r
  <2>1. /\ Going(r, a) \in Seq(Payloads) /\ Len(Going(r, a)) = Len(q) - 1
        /\ \A i \in 1 .. Len(q) - 1 : Going(r, a)[i] =
             IF r[i].dst = a THEN r[i].payload ELSE [from |-> a, n |-> 0]
    BY <2>0, GoingType
  <2>2. ASSUME NEW i \in 1 .. Len(q) - 1 PROVE Going(r, a)[i] = Tail(g)[i]
    <3>1. i + 1 \in 1 .. Len(q) /\ r[i] = q[i + 1] /\ Tail(g)[i] = g[i + 1]
      BY <1>1, <1>4 DEF r
    <3> QED BY <1>2, <2>1, <3>1
  <2>3. Going(r, a) = Tail(g)
    BY <1>4, <2>1, <2>2, SeqEqual
  <2> QED BY <2>3 DEF r
<1>6. Head(g).n = IF Head(q).dst = a THEN Head(q).payload.n ELSE 0
  BY <1>1, <1>2, <1>4
<1> QED BY <1>3, <1>5, <1>6 DEF g

\* What the steps of a client's requests and answers do to its chain.
LEMMA ChainedEnds ==
  ASSUME NEW g \in Seq(Payloads), NEW f \in Seq(Payloads), NEW r \in Seq(Payloads),
         NEW lo \in 0 .. MaxDatagrams, NEW hi \in 0 .. MaxDatagrams, Chained(lo, g, f, r, hi)
  PROVE  Chain(lo, g, hi)
<1>1. PICK x, y \in 0 .. MaxDatagrams : Chain(lo, g, x) /\ Chain(x, f, y) /\ Chain(y, r, hi)
  BY DEF Chained
<1>2. lo \in Nat /\ hi \in Nat /\ x \in Nat /\ y \in Nat /\ x <= hi
  BY <1>1, ConstantsAssumption DEF Chain
<1> QED BY <1>1, <1>2, ChainWiden

\* A new proxy.
LEMMA ChainedNew ==
  ASSUME NEW g \in Seq(Payloads), NEW lo \in 0 .. MaxDatagrams,
         NEW hi \in 0 .. MaxDatagrams, Chain(lo, g, hi)
  PROVE  Chained(lo, g, << >>, << >>, hi)
<1>1. hi \in Nat
  BY ConstantsAssumption
<1>2. Chain(hi, << >>, hi)
  BY <1>1, ChainEmpty
<1> QED BY <1>2 DEF Chained

\* A connection breaks.
LEMMA ChainedBroken ==
  ASSUME NEW g \in Seq(Payloads), NEW f \in Seq(Payloads), NEW r \in Seq(Payloads),
         NEW lo \in 0 .. MaxDatagrams, NEW hi \in 0 .. MaxDatagrams, Chained(lo, g, f, r, hi)
  PROVE  Chained(lo, g, f, << >>, hi)
<1>1. PICK x, y \in 0 .. MaxDatagrams : Chain(lo, g, x) /\ Chain(x, f, y) /\ Chain(y, r, hi)
  BY DEF Chained
<1>2. hi \in Nat /\ y \in Nat /\ y <= hi
  BY <1>1, ConstantsAssumption DEF Chain
<1>3. Chain(y, << >>, hi)
  BY <1>2, ChainEmpty
<1> QED BY <1>1, <1>3 DEF Chained

\* An answer goes from the proxy to the socket.
LEMMA ChainedForward ==
  ASSUME NEW g \in Seq(Payloads), NEW f \in Seq(Payloads), NEW r \in Seq(Payloads),
         NEW lo \in 0 .. MaxDatagrams, NEW hi \in 0 .. MaxDatagrams, Chained(lo, g, f, r, hi), f # << >>
  PROVE  Chained(lo, Pushed(g, Head(f)), Tail(f), r, hi)
<1>1. PICK x, y \in 0 .. MaxDatagrams : Chain(lo, g, x) /\ Chain(x, f, y) /\ Chain(y, r, hi)
  BY DEF Chained
<1>2. lo \in Nat /\ hi \in Nat /\ x \in Nat /\ y \in Nat
  BY ConstantsAssumption
<1> DEFINE v == Head(f)
<1>3. v \in Payloads /\ v.n \in 0 .. MaxDatagrams /\ v.n \in Nat
  BY PopType, PayloadRange
<1>4. /\ Chain(x, Tail(f), y)
      /\ v.n > 0 => x <= v.n /\ v.n <= y /\ Chain(v.n, Tail(f), y)
  BY <1>1, <1>2, ChainTail
<1> HIDE DEF v
<1>5. CASE v.n > 0
  <2>1. Chain(lo, Pushed(g, v), v.n)
    BY <1>1, <1>2, <1>3, <1>4, <1>5, ChainAppend
  <2> QED BY <1>1, <1>3, <1>4, <1>5, <2>1 DEF Chained, v
<1>6. CASE v.n = 0
  <2>1. Chain(lo, Pushed(g, v), x)
    BY <1>1, <1>2, <1>3, <1>6, ChainAppend
  <2> QED BY <1>1, <1>4, <2>1 DEF Chained, v
<1> QED BY <1>3, <1>5, <1>6

\* Redis answers.
LEMMA ChainedAnswer ==
  ASSUME NEW g \in Seq(Payloads), NEW f \in Seq(Payloads), NEW r \in Seq(Payloads),
         NEW lo \in 0 .. MaxDatagrams, NEW hi \in 0 .. MaxDatagrams, Chained(lo, g, f, r, hi), r # << >>
  PROVE  Chained(lo, g, Pushed(f, Head(r)), Tail(r), hi)
<1>1. PICK x, y \in 0 .. MaxDatagrams : Chain(lo, g, x) /\ Chain(x, f, y) /\ Chain(y, r, hi)
  BY DEF Chained
<1>2. lo \in Nat /\ hi \in Nat /\ x \in Nat /\ y \in Nat
  BY ConstantsAssumption
<1> DEFINE v == Head(r)
<1>3. v \in Payloads /\ v.n \in 0 .. MaxDatagrams /\ v.n \in Nat
  BY PopType, PayloadRange
<1>4. /\ Chain(y, Tail(r), hi)
      /\ v.n > 0 => y <= v.n /\ v.n <= hi /\ Chain(v.n, Tail(r), hi)
  BY <1>1, <1>2, ChainTail
<1> HIDE DEF v
<1>5. CASE v.n > 0
  <2>1. Chain(x, Pushed(f, v), v.n)
    BY <1>1, <1>2, <1>3, <1>4, <1>5, ChainAppend
  <2> QED BY <1>1, <1>3, <1>4, <1>5, <2>1 DEF Chained, v
<1>6. CASE v.n = 0
  <2>1. Chain(x, Pushed(f, v), y)
    BY <1>1, <1>2, <1>3, <1>6, ChainAppend
  <2> QED BY <1>1, <1>4, <2>1 DEF Chained, v
<1> QED BY <1>3, <1>5, <1>6

\* A request reaches Redis.
LEMMA ChainedRequest ==
  ASSUME NEW g \in Seq(Payloads), NEW f \in Seq(Payloads), NEW r \in Seq(Payloads),
         NEW lo \in 0 .. MaxDatagrams, NEW hi \in 0 .. MaxDatagrams, Chained(lo, g, f, r, hi),
         NEW v \in Payloads, v.n > 0, hi <= v.n
  PROVE  Chained(lo, g, f, Append(r, v), v.n)
<1>1. PICK x, y \in 0 .. MaxDatagrams : Chain(lo, g, x) /\ Chain(x, f, y) /\ Chain(y, r, hi)
  BY DEF Chained
<1>2. y \in Nat /\ hi \in Nat /\ v.n \in Nat
  BY PayloadNumbers, ConstantsAssumption
<1>3. Chain(y, Append(r, v), v.n)
  BY <1>1, <1>2, ChainAppend
<1> QED BY <1>1, <1>3 DEF Chained

\* A payload without a number does not count.
LEMMA ChainedOther ==
  ASSUME NEW g \in Seq(Payloads), NEW f \in Seq(Payloads), NEW r \in Seq(Payloads),
         NEW lo \in 0 .. MaxDatagrams, NEW hi \in 0 .. MaxDatagrams, Chained(lo, g, f, r, hi),
         NEW v \in Payloads, v.n = 0
  PROVE  Chained(lo, Pushed(g, v), f, r, hi) /\ Chained(lo, g, Pushed(f, v), r, hi)
<1>1. PICK x, y \in 0 .. MaxDatagrams : Chain(lo, g, x) /\ Chain(x, f, y) /\ Chain(y, r, hi)
  BY DEF Chained
<1>2. lo \in Nat /\ x \in Nat /\ y \in Nat
  BY ConstantsAssumption
<1>3. Chain(lo, Pushed(g, v), x)
  BY <1>1, <1>2, ChainAppend
<1>4. Chain(x, Pushed(f, v), y)
  BY <1>1, <1>2, ChainAppend
<1> QED BY <1>1, <1>3, <1>4 DEF Chained

\* An answer leaves for the socket, and arrives or is lost.
LEMMA ChainSent ==
  ASSUME NEW g \in Seq(Payloads), g # << >>, NEW lo \in Nat, NEW hi \in Nat,
         Chain(lo, g, hi), NEW l, l = lo \/ (l = Head(g).n /\ l > 0)
  PROVE  lo <= l /\ Chain(l, Tail(g), hi)
<1>1. /\ Chain(lo, Tail(g), hi)
      /\ Head(g).n > 0 => lo <= Head(g).n /\ Chain(Head(g).n, Tail(g), hi)
  BY ChainTail
<1> QED BY <1>1

LEMMA ChainedSent ==
  ASSUME NEW g \in Seq(Payloads), NEW f \in Seq(Payloads), NEW r \in Seq(Payloads),
         NEW lo \in 0 .. MaxDatagrams, NEW hi \in 0 .. MaxDatagrams, Chained(lo, g, f, r, hi), g # << >>,
         NEW l, l = lo \/ (l = Head(g).n /\ l > 0)
  PROVE  Chained(l, Tail(g), f, r, hi)
<1>1. PICK x, y \in 0 .. MaxDatagrams : Chain(lo, g, x) /\ Chain(x, f, y) /\ Chain(y, r, hi)
  BY DEF Chained
<1>2. lo \in Nat /\ x \in Nat
  BY ConstantsAssumption
<1>3. Chain(l, Tail(g), x)
  BY <1>1, <1>2, ChainSent
<1> QED BY <1>1, <1>3 DEF Chained

LEMMA AnsweringStep ==
  ASSUME IInv, Answering, [Next]_vars
  PROVE  Answering' /\ \A a \in Addresses : answered'[a] >= answered[a]
<1>0. /\ fromRedis \in [Proxies -> Seq(Payloads)] /\ atRedis \in [Proxies -> Seq(Payloads)]
      /\ toRedis \in [Proxies -> Seq(Payloads)]
      /\ sendq \in Seq(UdpMsgs) /\ udpSource \in [Proxies -> Addresses \cup {NoAddress}]
      /\ delivered \in [Addresses -> 0 .. MaxDatagrams]
      /\ answered \in [Addresses -> 0 .. MaxDatagrams]
      /\ \A a \in Addresses : answered[a] \in Nat /\ delivered[a] \in Nat
  BY ConstantsAssumption DEF IInv, TypeOK
<1>1. \A p \in Live : /\ p \in Proxies /\ udpSource[p] \in Addresses
                      /\ fromRedis[p] \in Seq(Payloads) /\ atRedis[p] \in Seq(Payloads)
  BY <1>0 DEF Live
<1>2. \A p, r \in Live : udpSource[p] = udpSource[r] => p = r
  BY DEF IInv, MapMatchesHeap
<1>3. \A a \in Addresses : Going(sendq, a) \in Seq(Payloads)
  BY <1>0, GoingType
<1>4. ASSUME UNCHANGED <<answered, delivered, sendq, fromRedis, atRedis, udpSource>>
      PROVE  Answering' /\ \A a \in Addresses : answered'[a] >= answered[a]
  BY <1>0, <1>4 DEF Answering, Live
<1>5. CASE RunRecv /\ OnNewClient
  <2>1. recvd \in Payloads /\ recvd.from \in Addresses
    BY <1>5, TypeOfRecvd DEF RunRecv, IInv, Payloads
  <2>2. PICK p \in Proxies \ Live : udpSource' = [udpSource EXCEPT ![p] = recvd.from]
    BY <1>5 DEF OnNewClient
  <2>3. UNCHANGED <<answered, delivered, sendq, fromRedis, atRedis>>
    BY <1>5 DEF RunRecv, OnNewClient, redisVars, history
  <2>4. fromRedis[p] = << >> /\ atRedis[p] = << >>
    BY <2>2 DEF IInv, FreedEmpty
  <2>5. Chained(answered[recvd.from], Going(sendq, recvd.from), << >>, << >>,
                delivered[recvd.from])
    <3>1. Chain(answered[recvd.from], Going(sendq, recvd.from), delivered[recvd.from])
      BY <2>1 DEF Answering
    <3>2. /\ answered[recvd.from] \in 0 .. MaxDatagrams
          /\ delivered[recvd.from] \in 0 .. MaxDatagrams
      BY <1>0, <2>1
    <3> QED BY <1>3, <2>1, <3>1, <3>2, ChainedNew
  <2>6. ASSUME NEW r \in Live'
        PROVE  \/ r \in Live /\ udpSource'[r] = udpSource[r]
               \/ r = p /\ udpSource'[r] = recvd.from
    BY <1>0, <2>2 DEF Live
  <2>7. ASSUME NEW r \in Live'
        PROVE  Chained(answered[udpSource'[r]], Going(sendq, udpSource'[r]), fromRedis[r],
                       atRedis[r], delivered[udpSource'[r]])
    <3>1. CASE r \in Live /\ udpSource'[r] = udpSource[r]
      BY <3>1 DEF Answering
    <3>2. CASE r = p /\ udpSource'[r] = recvd.from
      BY <2>4, <2>5, <3>2
    <3> QED BY <2>6, <3>1, <3>2
  <2> QED BY <1>0, <2>3, <2>7 DEF Answering
<1>6. ASSUME NEW p \in Proxies, RunToRedis(p), UNCHANGED <<atRedis, delivered>>
      PROVE  Answering' /\ \A a \in Addresses : answered'[a] >= answered[a]
  BY <1>4, <1>6 DEF RunToRedis
<1>7. ASSUME NEW p \in Proxies, RunToRedis(p),
             delivered' = [delivered EXCEPT ![Head(toRedis[p]).from] = Head(toRedis[p]).n],
             atRedis' = [atRedis EXCEPT ![p] = Append(@, Head(toRedis[p]))]
      PROVE  Answering' /\ \A a \in Addresses : answered'[a] >= answered[a]
  <2> DEFINE m == Head(toRedis[p])
             a == udpSource[p]
  <2>1. /\ p \in Live /\ toRedis[p] # << >> /\ UNCHANGED <<answered, sendq, fromRedis, udpSource>>
    BY <1>7 DEF RunToRedis
  <2>2. toRedis[p] \in Seq(Payloads) /\ m \in Payloads /\ a \in Addresses
    BY <1>0, <1>1, <2>1, PopType
  <2>3. m.from = a /\ m.n > 0 /\ delivered[a] <= m.n
    <3>1. 1 \in 1 .. Len(toRedis[p]) /\ m = toRedis[p][1]
      BY <2>1, <2>2, HeadTailProperties
    <3>2. m.from = a
      BY <2>1, <3>1 DEF IInv, ClientsKeptApart, Owned
    <3>3. m.n \in 1 .. Newest(a) /\ delivered[a] <= m.n
      BY <2>1, <3>1 DEF IInv, RequestsInOrder, Ordered
    <3> QED BY <2>2, <3>2, <3>3, PayloadNumbers
  <2> HIDE DEF m, a
  <2>4. delivered' = [delivered EXCEPT ![a] = m.n]
    BY <1>7, <2>3 DEF m
  <2>5. Live' = Live
    BY <2>1 DEF Live
  <2>6. ASSUME NEW b \in Addresses
        PROVE  Chain(answered'[b], Going(sendq', b), delivered'[b])
    <3>1. Chain(answered[b], Going(sendq, b), delivered[b])
      BY DEF Answering
    <3>2. delivered'[b] = IF b = a THEN m.n ELSE delivered[b]
      BY <1>0, <2>2, <2>4
    <3>3. m.n \in Nat
      BY <2>2, PayloadNumbers
    <3>4. b = a => Chain(answered[b], Going(sendq, b), m.n)
      BY <1>0, <1>3, <2>3, <3>1, <3>3, ChainWiden
    <3> QED BY <2>1, <3>1, <3>2, <3>4
  <2>7. ASSUME NEW r \in Live
        PROVE  Chained(answered'[udpSource'[r]], Going(sendq', udpSource'[r]), fromRedis'[r],
                       atRedis'[r], delivered'[udpSource'[r]])
    <3>1. Chained(answered[udpSource[r]], Going(sendq, udpSource[r]), fromRedis[r],
                  atRedis[r], delivered[udpSource[r]])
      BY DEF Answering
    <3>2. CASE r = p
      <4>1. atRedis'[r] = Append(atRedis[r], m) /\ delivered'[a] = m.n
        BY <1>0, <1>7, <2>2, <2>4, <3>2 DEF m
      <4>2. Chained(answered[a], Going(sendq, a), fromRedis[r], Append(atRedis[r], m), m.n)
        <5>1. Chained(answered[a], Going(sendq, a), fromRedis[r], atRedis[r], delivered[a])
          BY <3>1, <3>2 DEF a
        <5> QED BY <1>0, <1>1, <1>3, <2>2, <2>3, <5>1, ChainedRequest
      <4> QED BY <2>1, <3>2, <4>1, <4>2 DEF a
    <3>3. CASE r # p
      <4>1. udpSource[r] # a /\ atRedis'[r] = atRedis[r]
        BY <1>0, <1>1, <1>2, <1>7, <2>1, <3>3 DEF a
      <4>2. delivered'[udpSource[r]] = delivered[udpSource[r]]
        BY <1>0, <1>1, <2>4, <4>1
      <4> QED BY <2>1, <3>1, <4>1, <4>2
    <3> QED BY <3>2, <3>3
  <2> QED BY <1>0, <2>1, <2>5, <2>6, <2>7 DEF Answering
<1>8. ASSUME NEW p \in Proxies, RunFromRedis(p)
      PROVE  Answering' /\ \A a \in Addresses : answered'[a] >= answered[a]
  <2> DEFINE v == Head(fromRedis[p])
             a == udpSource[p]
             msg == [dst |-> a, payload |-> v]
             other(b) == [from |-> b, n |-> 0]
  <2>1. /\ p \in Live /\ fromRedis[p] # << >> /\ sendq' = Pushed(sendq, msg)
        /\ fromRedis' = [fromRedis EXCEPT ![p] = Tail(@)]
        /\ UNCHANGED <<answered, delivered, atRedis, udpSource>>
    BY <1>8 DEF RunFromRedis, ReplyTo, history
  <2>2. v \in Payloads /\ a \in Addresses /\ msg \in UdpMsgs
    BY <1>1, <2>1, PopType DEF UdpMsgs
  <2>3. \A b \in Addresses : other(b) \in Payloads /\ other(b).n = 0
    BY ConstantsAssumption DEF Payloads
  <2>4. \A b \in Addresses :
          Going(sendq', b) = Pushed(Going(sendq, b), IF b = a THEN v ELSE other(b))
    BY <1>0, <2>1, <2>2, GoingPushed
  <2> HIDE DEF v, a, msg, other
  <2>5. Live' = Live
    BY <2>1 DEF Live
  <2>6. Chained(answered[a], Going(sendq', a), fromRedis'[p], atRedis[p], delivered[a])
    <3>1. Chained(answered[a], Going(sendq, a), fromRedis[p], atRedis[p], delivered[a])
      BY <2>1 DEF Answering, a
    <3>2. Chained(answered[a], Pushed(Going(sendq, a), v), Tail(fromRedis[p]), atRedis[p],
                  delivered[a])
      BY <1>0, <1>1, <1>3, <2>1, <2>2, <3>1, ChainedForward DEF v
    <3>3. fromRedis'[p] = Tail(fromRedis[p])
      BY <1>0, <2>1
    <3> QED BY <2>2, <2>4, <3>2, <3>3
  <2>7. ASSUME NEW b \in Addresses PROVE Chain(answered[b], Going(sendq', b), delivered[b])
    <3>1. CASE b = a
      <4>1. Going(sendq', a) \in Seq(Payloads) /\ fromRedis'[p] \in Seq(Payloads)
        BY <1>0, <1>1, <1>3, <2>1, <2>2, <2>4, PushedType, PopType
      <4> QED BY <1>0, <1>1, <2>1, <2>2, <2>6, <3>1, <4>1, ChainedEnds
    <3>2. CASE b # a
      <4>1. Chain(answered[b], Going(sendq, b), delivered[b])
        BY DEF Answering
      <4>2. Chain(answered[b], Pushed(Going(sendq, b), other(b)), delivered[b])
        <5>1. /\ Going(sendq, b) \in Seq(Payloads) /\ other(b) \in Payloads /\ other(b).n = 0
              /\ answered[b] \in Nat /\ delivered[b] \in Nat
          BY <1>0, <1>3, <2>3
        <5> QED BY <4>1, <5>1, ChainAppend
      <4> QED BY <2>4, <3>2, <4>2
    <3> QED BY <3>1, <3>2
  <2>8. ASSUME NEW r \in Live, r # p
        PROVE  Chained(answered[udpSource[r]], Going(sendq', udpSource[r]), fromRedis'[r],
                       atRedis[r], delivered[udpSource[r]])
    <3>1. udpSource[r] # a /\ udpSource[r] \in Addresses /\ fromRedis'[r] = fromRedis[r]
      BY <1>0, <1>1, <1>2, <2>1, <2>8 DEF a
    <3>2. Chained(answered[udpSource[r]], Going(sendq, udpSource[r]), fromRedis[r],
                  atRedis[r], delivered[udpSource[r]])
      BY DEF Answering
    <3>3. Chained(answered[udpSource[r]],
                  Pushed(Going(sendq, udpSource[r]), other(udpSource[r])), fromRedis[r],
                  atRedis[r], delivered[udpSource[r]])
      BY <1>0, <1>1, <1>3, <2>3, <3>1, <3>2, ChainedOther
    <3> QED BY <2>4, <3>1, <3>3
  <2>9. ASSUME NEW r \in Live
        PROVE  Chained(answered[udpSource[r]], Going(sendq', udpSource[r]), fromRedis'[r],
                       atRedis[r], delivered[udpSource[r]])
    BY <2>6, <2>8 DEF a
  <2> QED BY <1>0, <2>1, <2>5, <2>7, <2>9 DEF Answering
<1>9. CASE RunSend
  <2> DEFINE msg == Head(sendq)
             g(b) == Going(sendq, b)
  <2>1. /\ sendq # << >> /\ sendq' = Tail(sendq)
        /\ answered' = IF socket = "open" /\ msg.payload.n > 0
                       THEN [answered EXCEPT ![msg.dst] = msg.payload.n] ELSE answered
        /\ UNCHANGED <<delivered, fromRedis, atRedis, udpSource>>
    BY <1>9 DEF RunSend, redisVars
  <2>2. msg.dst \in Addresses /\ msg.payload.n \in Nat
    <3>1. msg \in UdpMsgs
      BY <1>0, <2>1, PopType
    <3> HIDE DEF msg
    <3>2. msg.dst \in Addresses /\ msg.payload \in Payloads
      BY <3>1 DEF UdpMsgs
    <3> QED BY <3>2, PayloadNumbers
  <2>3. ASSUME NEW b \in Addresses
        PROVE  /\ g(b) \in Seq(Payloads) /\ g(b) # << >>
               /\ Going(sendq', b) = Tail(g(b))
               /\ Head(g(b)).n = IF msg.dst = b THEN msg.payload.n ELSE 0
    BY <1>0, <1>3, <2>1, GoingTail
  <2>4. ASSUME NEW b \in Addresses
        PROVE  \/ answered'[b] = answered[b]
               \/ answered'[b] = Head(g(b)).n /\ answered'[b] > 0
    BY <1>0, <2>1, <2>2, <2>3
  <2> HIDE DEF msg, g
  <2>5. ASSUME NEW b \in Addresses
        PROVE  /\ answered[b] <= answered'[b]
               /\ Chain(answered'[b], Going(sendq', b), delivered[b])
    <3>1. Chain(answered[b], g(b), delivered[b])
      BY DEF Answering, g
    <3>2. /\ g(b) \in Seq(Payloads) /\ g(b) # << >>
          /\ Going(sendq', b) = Tail(g(b))
          /\ answered'[b] = answered[b] \/ (answered'[b] = Head(g(b)).n /\ answered'[b] > 0)
      BY <2>3, <2>4
    <3>3. answered[b] \in Nat /\ delivered[b] \in Nat
      BY <1>0
    <3> QED BY <3>1, <3>2, <3>3, ChainSent
  <2>6. ASSUME NEW r \in Live
        PROVE  Chained(answered'[udpSource[r]], Going(sendq', udpSource[r]), fromRedis[r],
                       atRedis[r], delivered[udpSource[r]])
    <3>1. Chained(answered[udpSource[r]], g(udpSource[r]), fromRedis[r], atRedis[r],
                  delivered[udpSource[r]])
      BY DEF Answering, g
    <3>2. /\ g(udpSource[r]) \in Seq(Payloads) /\ g(udpSource[r]) # << >>
          /\ Going(sendq', udpSource[r]) = Tail(g(udpSource[r]))
          /\ \/ answered'[udpSource[r]] = answered[udpSource[r]]
             \/ /\ answered'[udpSource[r]] = Head(g(udpSource[r])).n
                /\ answered'[udpSource[r]] > 0
      BY <1>1, <2>3, <2>4
    <3>3. /\ answered[udpSource[r]] \in 0 .. MaxDatagrams
          /\ delivered[udpSource[r]] \in 0 .. MaxDatagrams
      BY <1>0, <1>1
    <3> QED BY <1>1, <3>1, <3>2, <3>3, ChainedSent
  <2>7. \A b \in Addresses : answered'[b] >= answered[b]
    <3>1. \A b \in Addresses : answered'[b] \in Nat
      BY <1>0, <2>1, <2>2
    <3> QED BY <1>0, <2>5, <3>1
  <2>8. Live' = Live
    BY <2>1 DEF Live
  <2> QED BY <2>1, <2>5, <2>6, <2>7, <2>8 DEF Answering
<1>10. ASSUME NEW p \in Proxies, Redis(p)
       PROVE  Answering' /\ \A a \in Addresses : answered'[a] >= answered[a]
  <2> DEFINE a == udpSource[p]
  <2>1. p \in Live /\ UNCHANGED <<answered, delivered, sendq, udpSource>>
    BY <1>10 DEF Redis, RedisAnswers, RedisBreaks, RedisPublishes, history
  <2>2. Live' = Live /\ a \in Addresses
    BY <1>1, <2>1 DEF Live
  <2>3. \A r \in Live : r # p => fromRedis'[r] = fromRedis[r] /\ atRedis'[r] = atRedis[r]
    BY <1>0, <1>1, <1>10 DEF Redis, RedisAnswers, RedisBreaks, RedisPublishes
  <2> HIDE DEF a
  <2>4. Chained(answered[a], Going(sendq, a), fromRedis[p], atRedis[p], delivered[a])
    BY <2>1 DEF Answering, a
  <2>5. Chained(answered[a], Going(sendq, a), fromRedis'[p], atRedis'[p], delivered[a])
    <3>1. CASE RedisAnswers(p)
      <4>1. /\ atRedis[p] # << >> /\ atRedis'[p] = Tail(atRedis[p])
            /\ fromRedis'[p] = Pushed(fromRedis[p], Head(atRedis[p]))
        BY <1>0, <3>1 DEF RedisAnswers
      <4> QED BY <1>0, <1>1, <1>3, <2>1, <2>2, <2>4, <4>1, ChainedAnswer
    <3>2. CASE RedisBreaks(p)
      <4>1. atRedis'[p] = << >> /\ fromRedis'[p] = fromRedis[p]
        BY <1>0, <3>2 DEF RedisBreaks
      <4> QED BY <1>0, <1>1, <1>3, <2>1, <2>2, <2>4, <4>1, ChainedBroken
    <3>3. CASE RedisPublishes(p)
      <4> DEFINE m == [from |-> a, n |-> 0]
      <4>1. fromRedis'[p] = Pushed(fromRedis[p], m) /\ atRedis'[p] = atRedis[p]
        BY <1>0, <3>3 DEF RedisPublishes, a
      <4>2. m \in Payloads /\ m.n = 0
        BY <2>2, ConstantsAssumption DEF Payloads
      <4> HIDE DEF m
      <4> QED BY <1>0, <1>1, <1>3, <2>1, <2>2, <2>4, <4>1, <4>2, ChainedOther
    <3> QED BY <1>10, <3>1, <3>2, <3>3 DEF Redis
  <2>6. ASSUME NEW r \in Live
        PROVE  Chained(answered[udpSource[r]], Going(sendq, udpSource[r]), fromRedis'[r],
                       atRedis'[r], delivered[udpSource[r]])
    <3>1. CASE r = p
      BY <2>5, <3>1 DEF a
    <3>2. CASE r # p
      BY <2>3, <3>2 DEF Answering
    <3> QED BY <3>1, <3>2
  <2> QED BY <1>0, <2>1, <2>2, <2>6 DEF Answering
<1>11. CASE Cleanup
  <2>1. UNCHANGED <<answered, delivered, sendq>>
    BY <1>11 DEF Cleanup, history
  <2>2. \A r \in Live' : /\ r \in Live /\ udpSource'[r] = udpSource[r]
                         /\ fromRedis'[r] = fromRedis[r] /\ atRedis'[r] = atRedis[r]
    BY <1>11 DEF Cleanup, Live
  <2> QED BY <1>0, <2>1, <2>2 DEF Answering
<1>12. \/ UNCHANGED <<answered, delivered, sendq, fromRedis, atRedis, udpSource>>
       \/ RunRecv /\ OnNewClient
       \/ RunSend
       \/ \E p \in Proxies : RunToRedis(p) \/ RunFromRedis(p) \/ Redis(p)
       \/ Cleanup
  BY DEF Next, vars, Readable, SocketError, RunInvoker, RunProxyInvoker, RunRecv,
         OnKnownClient, RunEmpty, RunDangling, Tick, redisVars, history
<1>13. ASSUME NEW p \in Proxies, RunToRedis(p)
       PROVE  Answering' /\ \A a \in Addresses : answered'[a] >= answered[a]
  BY <1>6, <1>7, <1>13 DEF RunToRedis
<1> QED BY <1>4, <1>5, <1>8, <1>9, <1>10, <1>11, <1>12, <1>13

\* A client never gets the answer to a request after that of a later one, over full
\* queues, lost requests and answers, a broken connection, and a proxy that is deleted
\* and built again while answers of the old one are on their way to the socket.
THEOREM AnswersAreInOrder == Spec => AnswersInOrder
<1>1. Init => Answering
  <2> SUFFICES ASSUME Init PROVE Answering
    OBVIOUS
  <2>1. \A a : Going(<< >>, a) = << >>
    BY DEF Going
  <2>2. \A a \in Addresses : Chain(answered[a], Going(sendq, a), delivered[a])
    BY <2>1, ChainEmpty DEF Init
  <2>3. Live = {}
    BY DEF Init, Live
  <2> QED BY <2>2, <2>3 DEF Answering
<1>2. IInv /\ Answering /\ [Next]_vars => Answering'
  BY AnsweringStep
<1>3. IInv /\ Answering /\ [Next]_vars => [\A a \in Addresses : answered'[a] >= answered[a]]_vars
  BY AnsweringStep
<1> QED BY Invariance, <1>1, <1>2, <1>3, PTL DEF Spec, AnswersInOrder
=============================================================================
