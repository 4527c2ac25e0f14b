----------------------------- MODULE Udp2Redis -----------------------------
(***************************************************************************)
(* The UDP gateway: src/udp2redis.cpp (main and RedisProxy) over           *)
(* src/SessionUdp.cpp and src/Udp.cpp.                                     *)
(*                                                                         *)
(* One worker thread runs one handler at a time: the read and the error    *)
(* invoker of the UDP socket, the 3 s cleanup timer, callbacks of the      *)
(* Redis connections, and the invokers posted to the thread's work queue   *)
(* by its flows.  Every action below is one handler, whole.  A flow hands  *)
(* its values on in a later handler, so between a push and its delivery    *)
(* any other handler may run: that is where the hazards are.               *)
(*                                                                         *)
(* limero (Thread, QueueFlow, ValueFlow) and the Redis client are git      *)
(* submodules outside the repository; they are modelled from their use.    *)
(***************************************************************************)
EXTENDS Integers, Sequences, FiniteSets

CONSTANTS
  Addresses,      \* UdpAddress values of the clients
  Proxies,        \* heap blocks a RedisProxy may be allocated in
  NoProxy,        \* clients.find(...) == clients.end()
  NoAddress,      \* udpSource of a block that holds no RedisProxy
  QueueDepth,     \* depth of _toRedis, _fromRedis and _send (10)
  ProxyTimeout,   \* config["proxy"]["timeout"], in clock units
  TimerPeriod,    \* period of the cleanup timer, in clock units
  MaxDatagrams    \* bound: datagrams read per client

ASSUME ConstantsAssumption ==
  /\ NoProxy \notin Proxies
  /\ NoAddress \notin Addresses
  /\ QueueDepth \in Nat \ {0}
  /\ ProxyTimeout \in Nat
  /\ TimerPeriod \in Nat \ {0}
  /\ MaxDatagrams \in Nat

VARIABLES
  socket,      \* "open" or "closed": _udp's descriptor and its invokers
  recvd,       \* the single slot of the ValueFlow _recv
  work,        \* the worker thread's queue of posted invokers
  clients,     \* std::map<UdpAddress, RedisProxy *>
  udpSource,   \* per block: the address captured by the fromRedis lambda
  idle,        \* per block: inactivity() = millis() - _lastMessage
  toRedis,     \* per block: queue of the flow _toRedis
  fromRedis,   \* per block: queue of the flow _fromRedis
  atRedis,     \* per block: requests its Redis connection has not answered
  sendq,       \* queue of the flow _send of SessionUdp
  millis,      \* Sys::millis()
  untilTimer,  \* clock units before the cleanup timer expires
  crashed,     \* the process died running an invoker of a deleted proxy
  sent,        \* history: datagrams read from each client
  delivered,   \* history: last datagram of each client given to Redis
  answered     \* history: last datagram of each client that was answered

redisVars == <<fromRedis, atRedis>>
clockVars == <<millis, untilTimer>>
history   == <<sent, delivered, answered>>
vars == <<socket, recvd, work, clients, udpSource, idle, toRedis, fromRedis,
          atRedis, sendq, millis, untilTimer, crashed, sent, delivered,
          answered>>

-----------------------------------------------------------------------------
(* Data.  A payload is named by the client it belongs to and its number    *)
(* among that client's datagrams; number 0 is a message Redis publishes to *)
(* a client that subscribed.  Times saturate at ProxyTimeout + 1: all the  *)
(* code asks of them is whether they exceed proxyTimeout.                  *)

Payloads == [from : Addresses, n : 0 .. MaxDatagrams]
NoPayload == [from |-> NoAddress, n |-> 0]
UdpMsgs  == [dst : Addresses, payload : Payloads]
Invokers == [flow : {"recv", "send"}, at : {NoProxy}]
              \cup [flow : {"toRedis", "fromRedis"}, at : Proxies]

Never    == ProxyTimeout + 1
Later(t) == IF t < Never THEN t + 1 ELSE t

Recv == [flow |-> "recv", at |-> NoProxy]
Send == [flow |-> "send", at |-> NoProxy]
ToRedis(p)   == [flow |-> "toRedis", at |-> p]
FromRedis(p) == [flow |-> "fromRedis", at |-> p]

Live == {p \in Proxies : udpSource[p] # NoAddress}

\* Plausible mistakes in the two definitions below, one per line: a queue without
\* its bound, one that serves the newest value first, and one that posts its
\* invoker only when it was empty.
PushedUnbounded(q, v) == Append(q, v)
PushedInFront(q, v) == IF Len(q) < QueueDepth THEN <<v>> \o q ELSE q
PostedWhenEmpty(w, q, i) == IF q = << >> THEN Append(w, i) ELSE w

\* QueueFlow::on: a full queue drops the value, and only a stored value
\* posts the flow's invoker to the thread.
Pushed(q, v) == IF Len(q) < QueueDepth THEN Append(q, v) ELSE q
Posted(w, q, i) == IF Len(q) < QueueDepth THEN Append(w, i) ELSE w

-----------------------------------------------------------------------------
(* main() up to workerThread.run(): the result of udpServer.connect() is   *)
(* not looked at, so the thread may start without a socket.                *)
Init ==
  /\ socket \in {"open", "closed"}
  /\ recvd = NoPayload
  /\ work = << >>
  /\ clients = [a \in Addresses |-> NoProxy]
  /\ udpSource = [p \in Proxies |-> NoAddress]
  /\ idle = [p \in Proxies |-> 0]
  /\ toRedis = [p \in Proxies |-> << >>]
  /\ fromRedis = [p \in Proxies |-> << >>]
  /\ atRedis = [p \in Proxies |-> << >>]
  /\ sendq = << >>
  /\ millis \in 0 .. Never
  /\ untilTimer = TimerPeriod
  /\ crashed = FALSE
  /\ sent = [a \in Addresses |-> 0]
  /\ delivered = [a \in Addresses |-> 0]
  /\ answered = [a \in Addresses |-> 0]

\* SessionUdp::invoke: one datagram is read into the _recv slot, over the one
\* that may still be waiting there.  A failing recvfrom leaves no trace.
Readable(a) ==
  /\ socket = "open"
  /\ sent[a] < MaxDatagrams
  /\ sent' = [sent EXCEPT ![a] = @ + 1]
  /\ recvd' = [from |-> a, n |-> sent[a] + 1]
  /\ work' = Append(work, Recv)
  /\ UNCHANGED <<socket, clients, udpSource, idle, toRedis, redisVars, sendq,
                 clockVars, crashed, delivered, answered>>

\* SessionUdp::onError: the invokers are removed and the socket closed; nothing
\* in the program opens it again.
SocketError ==
  /\ socket = "open"
  /\ socket' = "closed"
  /\ UNCHANGED <<recvd, work, clients, udpSource, idle, toRedis, redisVars,
                 sendq, clockVars, crashed, history>>

-----------------------------------------------------------------------------
(* The recv lambda of main().                                              *)

\* clients.find succeeds: the payload goes to the client's proxy.
OnKnownClient ==
  LET p == clients[recvd.from] IN
  /\ p # NoProxy
  /\ toRedis' = [toRedis EXCEPT ![p] = Pushed(@, recvd)]
  /\ work' = Posted(Tail(work), toRedis[p], ToRedis(p))
  /\ UNCHANGED <<clients, udpSource, idle, redisVars>>

\* clients.find fails: new RedisProxy in some free block, insert, connect, and
\* the payload goes to the new proxy.  _lastMessage is 0, so the inactivity of
\* a new proxy is the whole clock.
OnNewClient ==
  /\ clients[recvd.from] = NoProxy
  /\ \E p \in Proxies \ Live :
       /\ clients' = [clients EXCEPT ![recvd.from] = p]
       /\ udpSource' = [udpSource EXCEPT ![p] = recvd.from]
       /\ idle' = [idle EXCEPT ![p] = millis]
       /\ toRedis' = [toRedis EXCEPT ![p] = Pushed(<< >>, recvd)]
       /\ work' = Posted(Tail(work), << >>, ToRedis(p))
  /\ UNCHANGED redisVars

RunRecv ==
  /\ work # << >>
  /\ Head(work) = Recv
  /\ OnKnownClient \/ OnNewClient
  /\ UNCHANGED <<socket, recvd, sendq, clockVars, crashed, history>>

-----------------------------------------------------------------------------
(* The invokers of a proxy's two flows and of SessionUdp's _send flow.     *)

\* An invoker that finds its queue empty does nothing.  It happens when a proxy
\* is allocated in the block of a deleted one whose invokers are still posted.
RunEmpty(p) ==
  /\ work # << >>
  /\ p \in Live
  /\ \/ Head(work) = ToRedis(p) /\ toRedis[p] = << >>
     \/ Head(work) = FromRedis(p) /\ fromRedis[p] = << >>
  /\ work' = Tail(work)
  /\ UNCHANGED <<socket, recvd, clients, udpSource, idle, toRedis, redisVars,
                 sendq, clockVars, crashed, history>>

\* _toRedis hands a payload to both of its subscribers: the request pipeline,
\* which rejects what is no request, and the one that notes the time.
RunToRedis(p) ==
  /\ work # << >>
  /\ Head(work) = ToRedis(p)
  /\ p \in Live
  /\ toRedis[p] # << >>
  /\ LET m == Head(toRedis[p]) IN
       \/ /\ atRedis' = [atRedis EXCEPT ![p] = Append(@, m)]
          /\ delivered' = [delivered EXCEPT ![m.from] = m.n]
       \/ UNCHANGED <<atRedis, delivered>>
  /\ toRedis' = [toRedis EXCEPT ![p] = Tail(@)]
  /\ idle' = [idle EXCEPT ![p] = 0]
  /\ work' = Tail(work)
  /\ UNCHANGED <<socket, recvd, clients, udpSource, fromRedis, sendq,
                 clockVars, crashed, sent, answered>>

\* A mistake: udpSource captured by reference, like the rest of the lambda.
ReplyToLatest(p) == recvd.from

\* The address the fromRedis lambda captured.
ReplyTo(p) == udpSource[p]

\* The fromRedis lambda: the response goes to that address.
RunFromRedis(p) ==
  /\ work # << >>
  /\ Head(work) = FromRedis(p)
  /\ p \in Live
  /\ fromRedis[p] # << >>
  /\ LET msg == [dst |-> ReplyTo(p), payload |-> Head(fromRedis[p])] IN
       sendq' = Pushed(sendq, msg)
  /\ work' = Posted(Tail(work), sendq, Send)
  /\ fromRedis' = [fromRedis EXCEPT ![p] = Tail(@)]
  /\ UNCHANGED <<socket, recvd, clients, udpSource, idle, toRedis, atRedis,
                 clockVars, crashed, history>>

\* The lambda on _send: Udp::send, whose result is not looked at, so a response
\* is lost once the socket is closed.
RunSend ==
  /\ work # << >>
  /\ Head(work) = Send
  /\ sendq # << >>
  /\ LET msg == Head(sendq) IN
       answered' = IF socket = "open" /\ msg.payload.n > 0
                   THEN [answered EXCEPT ![msg.dst] = msg.payload.n]
                   ELSE answered
  /\ sendq' = Tail(sendq)
  /\ work' = Tail(work)
  /\ UNCHANGED <<socket, recvd, clients, udpSource, idle, toRedis, redisVars,
                 clockVars, crashed, sent, delivered>>

\* The invoker of a flow that was freed with its proxy: the thread calls through
\* a dangling pointer.  Undefined: the process dies, or the stale block happens
\* to absorb the call.
RunDangling(p) ==
  /\ work # << >>
  /\ Head(work) \in {ToRedis(p), FromRedis(p)}
  /\ p \notin Live
  /\ crashed' \in BOOLEAN
  /\ work' = Tail(work)
  /\ UNCHANGED <<socket, recvd, clients, udpSource, idle, toRedis, redisVars,
                 sendq, clockVars, history>>

-----------------------------------------------------------------------------
(* The Redis connection of a proxy, and the clock.                         *)

\* Redis answers the requests of a connection in the order it got them.
RedisAnswers(p) ==
  /\ p \in Live
  /\ atRedis[p] # << >>
  /\ atRedis' = [atRedis EXCEPT ![p] = Tail(@)]
  /\ fromRedis' = [fromRedis EXCEPT ![p] = Pushed(@, Head(atRedis[p]))]
  /\ work' = Posted(work, fromRedis[p], FromRedis(p))
  /\ UNCHANGED <<socket, recvd, clients, udpSource, idle, toRedis, sendq,
                 clockVars, crashed, history>>

\* The connection breaks: nothing that is outstanding on it is answered.
RedisBreaks(p) ==
  /\ p \in Live
  /\ atRedis[p] # << >>
  /\ atRedis' = [atRedis EXCEPT ![p] = << >>]
  /\ UNCHANGED <<socket, recvd, work, clients, udpSource, idle, toRedis,
                 fromRedis, sendq, clockVars, crashed, history>>

\* A message on a channel the client subscribed to.
RedisPublishes(p) ==
  /\ p \in Live
  /\ delivered[udpSource[p]] > 0
  /\ LET m == [from |-> udpSource[p], n |-> 0] IN
       fromRedis' = [fromRedis EXCEPT ![p] = Pushed(@, m)]
  /\ work' = Posted(work, fromRedis[p], FromRedis(p))
  /\ UNCHANGED <<socket, recvd, clients, udpSource, idle, toRedis, atRedis,
                 sendq, clockVars, crashed, history>>

Tick ==
  /\ millis' = Later(millis)
  /\ idle' = [p \in Proxies |-> IF p \in Live THEN Later(idle[p]) ELSE idle[p]]
  /\ untilTimer' = IF untilTimer > 0 THEN untilTimer - 1 ELSE 0
  /\ UNCHANGED <<socket, recvd, work, clients, udpSource, toRedis, redisVars,
                 sendq, crashed, history>>

\* A mistake: the timer only catches a client at the very end of its timeout.
InactiveJustNow(p) == idle[p] = ProxyTimeout

Inactive(p) == idle[p] > ProxyTimeout

\* A mistake: the proxies are deleted, but their entries stay in the map.
ErasedNone(gone) == clients

Erased(gone) ==
  [a \in Addresses |-> IF clients[a] \in gone THEN NoProxy ELSE clients[a]]

\* The 3 s timer: erase, stop and delete the proxy of every inactive client.
\* Its posted invokers stay in the work queue.
Cleanup ==
  LET gone == {p \in Live : Inactive(p)}
      Freed(f, v) == [p \in Proxies |-> IF p \in gone THEN v ELSE f[p]]
  IN
  /\ untilTimer = 0
  /\ untilTimer' = TimerPeriod
  /\ clients' = Erased(gone)
  /\ udpSource' = Freed(udpSource, NoAddress)
  /\ idle' = Freed(idle, 0)
  /\ toRedis' = Freed(toRedis, << >>)
  /\ fromRedis' = Freed(fromRedis, << >>)
  /\ atRedis' = Freed(atRedis, << >>)
  /\ UNCHANGED <<socket, recvd, work, sendq, millis, crashed, history>>

-----------------------------------------------------------------------------
RunProxyInvoker(p) ==
  RunEmpty(p) \/ RunToRedis(p) \/ RunFromRedis(p) \/ RunDangling(p)

RunInvoker == RunRecv \/ RunSend \/ \E p \in Proxies : RunProxyInvoker(p)

Redis(p) == RedisAnswers(p) \/ RedisBreaks(p) \/ RedisPublishes(p)

Next ==
  /\ ~crashed
  /\ \/ \E a \in Addresses : Readable(a)
     \/ SocketError
     \/ RunInvoker
     \/ \E p \in Proxies : Redis(p)
     \/ Cleanup
     \/ Tick

Spec == Init /\ [][Next]_vars

\* Time passes, and the thread's loop serves its work queue and its timers.
\* Nothing is assumed of clients, of the network or of Redis.
Fairness ==
  /\ WF_vars(~crashed /\ Tick)
  /\ WF_vars(~crashed /\ RunInvoker)
  /\ WF_vars(~crashed /\ Cleanup)

FairSpec == Spec /\ Fairness

-----------------------------------------------------------------------------
(* Properties.                                                             *)

\* Every variable has its type; no queue exceeds its depth.
TypeOK ==
  /\ socket \in {"open", "closed"}
  /\ recvd \in Payloads \cup {NoPayload}
  /\ work \in Seq(Invokers)
  /\ clients \in [Addresses -> Proxies \cup {NoProxy}]
  /\ udpSource \in [Proxies -> Addresses \cup {NoAddress}]
  /\ idle \in [Proxies -> 0 .. Never]
  /\ toRedis \in [Proxies -> Seq(Payloads)]
  /\ fromRedis \in [Proxies -> Seq(Payloads)]
  /\ atRedis \in [Proxies -> Seq(Payloads)]
  /\ sendq \in Seq(UdpMsgs)
  /\ millis \in 0 .. Never
  /\ untilTimer \in 0 .. TimerPeriod
  /\ crashed \in BOOLEAN
  /\ sent \in [Addresses -> 0 .. MaxDatagrams]
  /\ delivered \in [Addresses -> 0 .. MaxDatagrams]
  /\ answered \in [Addresses -> 0 .. MaxDatagrams]
  /\ \A p \in Proxies : /\ Len(toRedis[p]) <= QueueDepth
                        /\ Len(fromRedis[p]) <= QueueDepth
  /\ Len(sendq) <= QueueDepth

\* The map and the heap agree: the proxy of every client in the map is allocated
\* and answers to that client's address, and no allocated proxy is missing from
\* the map (none leaks, none is shared by two clients).
MapMatchesHeap ==
  /\ \A a \in Addresses : clients[a] # NoProxy => udpSource[clients[a]] = a
  /\ \A p \in Live : clients[udpSource[p]] = p

\* Everything in queue q belongs to client a.
Owned(q, a) == \A i \in 1 .. Len(q) : q[i].from = a

\* Whatever is queued for a client, in a proxy, at its Redis connection or
\* on the way to the socket, belongs to that client: no client is sent what
\* Redis answered to another, not even when a proxy is built in the heap
\* block of a deleted one.
ClientsKeptApart ==
  /\ \A p \in Live : /\ Owned(toRedis[p], udpSource[p])
                     /\ Owned(fromRedis[p], udpSource[p])
                     /\ Owned(atRedis[p], udpSource[p])
  /\ \A i \in 1 .. Len(sendq) : sendq[i].dst = sendq[i].payload.from

Posts(i) == Cardinality({k \in 1 .. Len(work) : work[k] = i})

\* No value is stranded: a flow has an invoker posted for every value in its
\* queue; the socket's send flow has exactly one for each.
NothingStranded ==
  /\ \A p \in Live : /\ Len(toRedis[p]) <= Posts(ToRedis(p))
                     /\ Len(fromRedis[p]) <= Posts(FromRedis(p))
  /\ Len(sendq) = Posts(Send)

\* Queue q holds datagrams in order, from number lo to number hi.
Ordered(q, lo, hi) ==
  /\ \A i, j \in 1 .. Len(q) : i <= j => q[i].n <= q[j].n
  /\ \A i \in 1 .. Len(q) : q[i].n \in 1 .. hi /\ lo <= q[i].n

\* The newest datagram of a that the recv lambda can still be given.
Newest(a) == IF recvd.from = a THEN recvd.n ELSE sent[a]

\* Between the socket and Redis the datagrams of a client stay in the order they
\* were read: those in its proxy's queue are sorted, none is older than the last
\* one delivered, and none is newer than the one in the _recv slot.
RequestsInOrder ==
  /\ recvd # NoPayload => recvd.n \in 1 .. sent[recvd.from]
  /\ \A a \in Addresses : delivered[a] <= Newest(a)
  /\ \A p \in Live :
       Ordered(toRedis[p], delivered[udpSource[p]], Newest(udpSource[p]))

\* An invoker of _recv finds a datagram in the slot.
RecvFilled ==
  (\E k \in 1 .. Len(work) : work[k] = Recv) => recvd # NoPayload

\* A freed block holds nothing that its next proxy could inherit.
FreedEmpty ==
  \A p \in Proxies \ Live : /\ toRedis[p] = << >>
                             /\ fromRedis[p] = << >>
                             /\ atRedis[p] = << >>

\* The inductive invariant.
IInv ==
  /\ TypeOK
  /\ RecvFilled
  /\ FreedEmpty
  /\ MapMatchesHeap
  /\ ClientsKeptApart
  /\ RequestsInOrder

\* The answers a client gets are those of its requests in the order it made
\* them: an answer is never followed by that of an earlier request.
AnswersInOrder == [][\A a \in Addresses : answered'[a] >= answered[a]]_vars

\* The requests of each client reach Redis in order, over the value slot, the
\* queues, the rejections, and the deletion and rebuilding of its proxy.
Link == INSTANCE OrderedLink WITH Sources <- Addresses
LinkSpec == Link!Spec

\* A client's proxy is deleted in the end, if the process lives: a client that
\* falls silent is noticed whatever the order of its last datagrams, the timer
\* and the thread's invokers.
InactiveClientsCleaned ==
  \A a \in Addresses : clients[a] # NoProxy ~> crashed \/ clients[a] = NoProxy

\* udp2redis.cpp:103 "cleanup inactive clients": a client whose datagram still
\* waits in its proxy for Redis is not inactive and keeps its proxy.
OnlyInactiveCleaned ==
  [][\A a \in Addresses :
       clients[a] # NoProxy /\ clients'[a] = NoProxy
         => toRedis[clients[a]] = << >>]_vars
=============================================================================
