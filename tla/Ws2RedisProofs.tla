--------------------------- MODULE Ws2RedisProofs ---------------------------
(***************************************************************************)
(* Proofs about Ws2Redis, for any number of web sockets, proxies, sessions *)
(* and requests: a browser is only sent what Redis answered to itself, and *)
(* in the order of its requests.                                           *)
(*                                                                         *)
(* That RepliesToOwner survives a poll follows from MessagesKeptApart.     *)
(* MessagesKeptApart survives that a proxy is built in a block used before *)
(* because neither a lambda (StaleOnlyInPoll) nor a request (FreedEmpty)   *)
(* is left of the proxy that was there, and it survives that a web socket  *)
(* is opened in a block used before because the map, the proxies and the   *)
(* web sockets agree (ConsMatchProxies).                                   *)
(*                                                                         *)
(* AnswersInOrder rests on Queued: of the answers to one session, those in *)
(* server.execute come before those still at Redis, both in the order of   *)
(* their numbers.  It takes that a session has one web socket, and so one  *)
(* proxy, since the proxies answer in no particular order.                 *)
(***************************************************************************)
EXTENDS Ws2Redis, DataLemmas

\* The part of TypeOK that is needed.
Typed ==
  /\ session \in [Conns -> 0 .. MaxSessions]
  /\ cons \in [Conns -> Proxies \cup {NoProxy}]
  /\ ws \in [Proxies -> Conns \cup {NoConn}]
  /\ atRedis \in [Proxies -> Seq(Messages)]
  /\ pending \in Seq(Lambdas)
  /\ begun \in 0 .. MaxSessions
  /\ sent \in [Sessions -> 0 .. MaxRequests]

\* A deleted proxy has no Redis.
FreedEmpty == \A p \in Proxies \ Live : atRedis[p] = << >>

\* The inductive invariant.
Apart ==
  /\ Typed
  /\ FreedEmpty
  /\ ConsMatchProxies
  /\ StaleOnlyInPoll
  /\ MessagesKeptApart
  /\ RepliesToOwner

-----------------------------------------------------------------------------
\* Initially there is no web socket and no proxy.
LEMMA InitApart == Init => Apart
  BY WsAssumption, SMTT(30)
  DEF Init, Apart, Typed, FreedEmpty, ConsMatchProxies, StaleOnlyInPoll,
      MessagesKeptApart, OwnSession, RepliesToOwner, Live, Open, Sessions

-----------------------------------------------------------------------------
(* The invariant does not mention phase outside of StaleOnlyInPoll, nor    *)
(* crashed and answered at all.                                            *)

LEMMA BeginPollApart ==
  ASSUME Apart, BeginPoll
  PROVE  Apart'
BY DEF Apart, Typed, FreedEmpty, ConsMatchProxies, StaleOnlyInPoll,
       MessagesKeptApart, OwnSession, RepliesToOwner, Live, Open, BeginPoll,
       proxyVars, outVars

LEMMA EndEventsApart ==
  ASSUME Apart, EndEvents
  PROVE  Apart'
BY DEF Apart, Typed, FreedEmpty, ConsMatchProxies, StaleOnlyInPoll,
       MessagesKeptApart, OwnSession, RepliesToOwner, Live, Open, EndEvents,
       proxyVars, outVars

-----------------------------------------------------------------------------
(* A web socket is opened.                                                 *)

LEMMA OnConnectApart ==
  ASSUME WsAssumption, Apart, NEW c \in Conns, OnConnect(c)
  PROVE  Apart'
<1>1. PICK p \in Proxies \ Live :
        /\ ws' = [ws EXCEPT ![p] = c]
        /\ cons' = [cons EXCEPT ![c] = IF @ = NoProxy THEN p ELSE @]
  BY DEF OnConnect
<1>2. /\ session' = [session EXCEPT ![c] = begun + 1]
      /\ begun' = begun + 1 /\ begun \in Nat
      /\ phase = "events" /\ session[c] = 0
      /\ UNCHANGED <<phase, atRedis, pending, sent, shown>>
  BY WsAssumption DEF OnConnect, outVars, Apart, Typed
<1>3. cons[c] = NoProxy /\ cons'[c] = p
  BY <1>1, <1>2 DEF Apart, Typed, ConsMatchProxies, Open
<1>4. Live' = Live \cup {p} /\ Open' = Open \cup {c} /\ ws'[p] = c
  BY <1>1, <1>2, WsAssumption DEF Live, Open, Apart, Typed
<1>5. ASSUME NEW q \in Live
      PROVE  q # p /\ ws'[q] = ws[q] /\ ws[q] \in Open /\ ws[q] # c
             /\ session'[ws'[q]] = session[ws[q]]
  <2>1. q # p /\ ws'[q] = ws[q]
    BY <1>1, <1>5 DEF Apart, Typed
  <2>2. ws[q] \in Open /\ ws[q] # c
    BY <1>2, <1>5 DEF Apart, Typed, ConsMatchProxies, Live, Open
  <2> QED
    BY <1>2, <2>1, <2>2 DEF Apart, Typed, Open
<1>6. Typed'
  BY <1>1, <1>2, WsAssumption DEF OnConnect, Apart, Typed
<1>7. FreedEmpty'
  BY <1>2, <1>4 DEF Apart, FreedEmpty
<1>8. ConsMatchProxies'
  <2>1. ASSUME NEW d \in Conns, d # c PROVE cons'[d] = cons[d]
    BY <1>1, <2>1 DEF Apart, Typed
  <2>2. \A d \in Conns : cons'[d] # NoProxy => d \in Open' /\ ws'[cons'[d]] = d
    BY <1>3, <1>4, <1>5, <2>1 DEF Apart, Typed, ConsMatchProxies, Live
  <2>3. \A q \in Live' : cons'[ws'[q]] = q
    BY <1>3, <1>4, <1>5, <2>1 DEF Apart, Typed, ConsMatchProxies, Open
  <2>4. \A d \in Open' : cons'[d] # NoProxy
    BY <1>3, <1>4, <2>1, WsAssumption
    DEF Apart, Typed, ConsMatchProxies, Open
  <2> QED
    BY <2>2, <2>3, <2>4 DEF ConsMatchProxies
<1>9. StaleOnlyInPoll'
  BY <1>2, <1>4 DEF Apart, StaleOnlyInPoll
<1>10. MessagesKeptApart'
  <2>1. atRedis[p] = << >>
    BY <1>1 DEF Apart, FreedEmpty
  <2>2. \A q \in Proxies : \A i \in 1 .. Len(atRedis'[q]) :
          OwnSession(q, atRedis[q][i])'
    BY <1>2, <1>4, <1>5, <2>1 DEF Apart, MessagesKeptApart, OwnSession
  <2>3. \A i \in 1 .. Len(pending') :
          OwnSession(pending[i].proxy, pending[i].msg)'
    BY <1>2, <1>4, <1>5
    DEF Apart, MessagesKeptApart, OwnSession, StaleOnlyInPoll
  <2> QED
    BY <1>2, <2>2, <2>3 DEF MessagesKeptApart
<1>11. RepliesToOwner'
  BY <1>2 DEF Apart, RepliesToOwner
<1> QED
  BY <1>6, <1>7, <1>8, <1>9, <1>10, <1>11 DEF Apart

-----------------------------------------------------------------------------
(* A request goes to the Redis of the session that makes it.               *)

LEMMA OnDataApart ==
  ASSUME WsAssumption, Apart, NEW c \in Conns, OnData(c)
  PROVE  Apart'
<1> DEFINE p == cons[c]
           msg == [of |-> session[c], n |-> sent[session[c]] + 1]
<1>1. /\ UNCHANGED <<phase, session, cons, ws, begun, pending, shown>>
      /\ session[c] # 0
  BY DEF OnData, proxyVars, outVars
<1>2. p \in Proxies /\ ws[p] = c /\ p \in Live
  BY <1>1, WsAssumption DEF Apart, Typed, ConsMatchProxies, Open, Live
<1>3. atRedis' = [atRedis EXCEPT ![p] = Append(@, msg)]
  BY <1>2 DEF OnData, Apart, Typed
<1>4. sent' \in [Sessions -> 0 .. MaxRequests] /\ msg \in Messages
  <2>1. session[c] \in Sessions
    BY <1>1, WsAssumption DEF Apart, Typed, Sessions
  <2>2. sent[session[c]] + 1 \in 0 .. MaxRequests /\ sent' = [sent EXCEPT ![session[c]] = @ + 1]
    BY <2>1, WsAssumption DEF OnData, Apart, Typed
  <2> QED
    BY <2>1, <2>2 DEF Apart, Typed, Messages
<1>5. Live' = Live /\ Open' = Open
  BY <1>1 DEF Live, Open
<1>6. Typed' /\ FreedEmpty'
  BY <1>1, <1>2, <1>3, <1>4, <1>5 DEF Apart, Typed, FreedEmpty
<1>7. ConsMatchProxies' /\ StaleOnlyInPoll' /\ RepliesToOwner'
  BY <1>1, <1>5
  DEF Apart, ConsMatchProxies, StaleOnlyInPoll, RepliesToOwner
<1>8. MessagesKeptApart'
  <2>2. ASSUME NEW q \in Proxies, NEW i \in 1 .. Len(atRedis'[q])
        PROVE  OwnSession(q, atRedis'[q][i])
    <3>1. CASE q = p
      <4>1. atRedis[p] \in Seq(Messages)
        BY <1>2 DEF Apart, Typed
      <4>2. atRedis'[p] = Append(atRedis[p], msg)
        BY <1>2, <1>3 DEF Apart, Typed
      <4>3. CASE i = Len(atRedis[p]) + 1
        BY <1>2, <1>4, <3>1, <4>1, <4>2, <4>3 DEF OwnSession
      <4>4. CASE i \in 1 .. Len(atRedis[p])
        BY <1>4, <3>1, <4>1, <4>2, <4>4 DEF Apart, MessagesKeptApart
      <4>5. Len(atRedis[p]) \in Nat /\ Len(atRedis'[q]) = Len(atRedis[p]) + 1
        BY <1>4, <3>1, <4>1, <4>2
      <4>6. i \in 1 .. Len(atRedis[p]) \/ i = Len(atRedis[p]) + 1
        BY <2>2, <4>5
      <4> QED
        BY <4>3, <4>4, <4>6
    <3>2. CASE q # p
      BY <1>3, <2>2, <3>2 DEF Apart, Typed, MessagesKeptApart
    <3> QED
      BY <3>1, <3>2
  <2>3. \A i \in 1 .. Len(pending') :
          OwnSession(pending[i].proxy, pending[i].msg)'
    BY <1>1, <1>5 DEF Apart, MessagesKeptApart, OwnSession
  <2>4. \A q \in Proxies : \A i \in 1 .. Len(atRedis'[q]) :
          OwnSession(q, atRedis[q][i])'
    BY <1>1, <1>5, <2>2 DEF OwnSession
  <2> QED
    BY <2>3, <2>4 DEF MessagesKeptApart
<1> QED
  BY <1>6, <1>7, <1>8 DEF Apart

-----------------------------------------------------------------------------
(* A web socket closes.                                                    *)

LEMMA OnDisconnectApart ==
  ASSUME WsAssumption, Apart, NEW c \in Conns, OnDisconnect(c)
  PROVE  Apart'
<1> DEFINE p == cons[c]
<1>1. /\ phase = "deletes" /\ session[c] # 0
      /\ UNCHANGED <<phase, pending, begun, sent, shown>>
      /\ session' = [session EXCEPT ![c] = 0]
  BY DEF OnDisconnect, outVars
<1>2. p \in Proxies /\ ws[p] = c /\ p \in Live
  BY <1>1, WsAssumption DEF Apart, Typed, ConsMatchProxies, Open, Live
<1>3. /\ ws' = [ws EXCEPT ![p] = NoConn]
      /\ atRedis' = [atRedis EXCEPT ![p] = << >>]
      /\ cons' = [cons EXCEPT ![c] = NoProxy]
  BY <1>2 DEF OnDisconnect, Apart, Typed, Deleted, RedisDeleted, Erased
<1>4. Live' = Live \ {p} /\ Open' = Open \ {c}
  BY <1>1, <1>2, <1>3 DEF Apart, Typed, Live, Open
<1>5. ASSUME NEW q \in Live'
      PROVE  q \in Live /\ q # p /\ ws'[q] = ws[q] /\ ws[q] \in Open
             /\ ws[q] # c /\ session'[ws'[q]] = session[ws[q]]
  <2>1. q \in Live /\ q # p /\ ws'[q] = ws[q]
    BY <1>3, <1>4, <1>5 DEF Apart, Typed, Live
  <2>2. ws[q] # c /\ ws[q] \in Open
    BY <1>2, <2>1 DEF Apart, Typed, ConsMatchProxies, Live
  <2> QED
    BY <1>1, <2>1, <2>2 DEF Apart, Typed, Open
<1>6. Typed'
  BY <1>1, <1>2, <1>3, WsAssumption DEF Apart, Typed
<1>7. FreedEmpty' /\ StaleOnlyInPoll'
  BY <1>1, <1>2, <1>3, <1>4 DEF Apart, Typed, FreedEmpty, StaleOnlyInPoll
<1>8. ConsMatchProxies'
  <2>1. \A d \in Conns : cons'[d] # NoProxy => d \in Open' /\ ws'[cons'[d]] = d
    BY <1>1, <1>2, <1>3, <1>4 DEF Apart, Typed, ConsMatchProxies
  <2>2. \A q \in Live' : cons'[ws'[q]] = q
    BY <1>3, <1>5 DEF Apart, Typed, ConsMatchProxies, Open
  <2>3. \A d \in Open' : cons'[d] # NoProxy
    BY <1>3, <1>4 DEF Apart, Typed, ConsMatchProxies, Open
  <2> QED
    BY <2>1, <2>2, <2>3 DEF ConsMatchProxies
<1>9. MessagesKeptApart'
  <2>1. \A q \in Proxies : \A i \in 1 .. Len(atRedis'[q]) :
          OwnSession(q, atRedis[q][i])'
    BY <1>2, <1>3, <1>4, <1>5
    DEF Apart, Typed, MessagesKeptApart, OwnSession
  <2>2. \A i \in 1 .. Len(pending') :
          OwnSession(pending[i].proxy, pending[i].msg)'
    BY <1>1, <1>4, <1>5 DEF Apart, MessagesKeptApart, OwnSession
  <2> QED
    BY <2>1, <2>2 DEF MessagesKeptApart
<1>10. RepliesToOwner'
  BY <1>1 DEF Apart, RepliesToOwner
<1> QED
  BY <1>6, <1>7, <1>8, <1>9, <1>10 DEF Apart

-----------------------------------------------------------------------------
(* The deferred lambdas run.                                               *)

LEMMA RunExecutablesApart ==
  ASSUME WsAssumption, Apart, RunExecutables
  PROVE  Apart'
<1>1. /\ UNCHANGED <<session, cons, ws, begun, atRedis, sent>>
      /\ phase' = "loop" /\ pending' = << >>
      /\ shown' = [i \in 1 .. Len(pending) |->
                     [to |-> Reached(pending[i]), msg |-> pending[i].msg]]
  BY DEF RunExecutables, proxyVars
<1>2. Live' = Live /\ Open' = Open
  BY <1>1 DEF Live, Open
<1>3. Typed' /\ FreedEmpty'
  BY <1>1, <1>2 DEF Apart, Typed, FreedEmpty
<1>4. ConsMatchProxies' /\ StaleOnlyInPoll'
  BY <1>1, <1>2 DEF Apart, ConsMatchProxies, StaleOnlyInPoll
<1>5. MessagesKeptApart'
  BY <1>1, <1>2 DEF Apart, MessagesKeptApart, OwnSession
<1>6. RepliesToOwner'
  <2>1. Len(pending) \in Nat
    BY DEF Apart, Typed
  <2>2. Len(shown') = Len(pending)
    BY <1>1, <2>1
  <2>3. ASSUME NEW i \in 1 .. Len(pending)
        PROVE  Reached(pending[i]) \in {pending[i].msg.of, NoConn}
    BY <2>3 DEF Apart, MessagesKeptApart, OwnSession, Reached
  <2> QED
    BY <1>1, <2>2, <2>3 DEF RepliesToOwner
<1> QED
  BY <1>3, <1>4, <1>5, <1>6 DEF Apart

-----------------------------------------------------------------------------
(* Redis answers, publishes or goes away.                                  *)

\* What each of the three leaves alone.
RedisFrame ==
  /\ phase = "loop"
  /\ UNCHANGED <<phase, session, cons, ws, begun, sent, shown>>

\* A deferred lambda belongs to the session of its proxy.
LEMMA LambdasStayApart ==
  ASSUME Apart, RedisFrame, NEW p \in Live, NEW STATE m,
         m \in Messages,
         OwnSession(p, m), pending' = Deferred(p, m)
  PROVE  /\ pending' \in Seq(Lambdas)
         /\ \A i \in 1 .. Len(pending') :
              /\ pending'[i].proxy \in Live
              /\ OwnSession(pending'[i].proxy, pending'[i].msg)
<1> DEFINE lambda == [proxy |-> p, msg |-> m]
<1>1. /\ pending \in Seq(Lambdas)
      /\ lambda \in Lambdas
      /\ pending' = Append(pending, lambda)
  BY DEF Apart, Typed, Deferred, Live, Lambdas
<1>2. ASSUME NEW i \in 1 .. Len(pending')
      PROVE  \/ i \in 1 .. Len(pending) /\ pending'[i] = pending[i]
             \/ pending'[i] = lambda
  BY <1>1
<1> QED
  BY <1>1, <1>2 DEF Apart, RedisFrame, StaleOnlyInPoll, MessagesKeptApart

\* A Redis that answers or breaks is left with some of its requests.
LEMMA RequestsStayApart ==
  ASSUME Apart, NEW p \in Proxies, atRedis[p] # << >>,
         NEW STATE q, q \in {<< >>, Tail(atRedis[p])},
         atRedis' = [atRedis EXCEPT ![p] = q]
  PROVE  /\ atRedis' \in [Proxies -> Seq(Messages)]
         /\ \A r \in Proxies \ Live : atRedis'[r] = << >>
         /\ \A r \in Proxies : \A i \in 1 .. Len(atRedis'[r]) :
              OwnSession(r, atRedis'[r][i])
<1>1. atRedis[p] \in Seq(Messages)
  BY DEF Apart, Typed
<1>2. /\ q \in Seq(Messages)
      /\ \A i \in 1 .. Len(q) :
           i + 1 \in 1 .. Len(atRedis[p]) /\ q[i] = atRedis[p][i + 1]
  <2>1. CASE q = << >>
    BY <2>1
  <2>2. CASE q = Tail(atRedis[p])
    BY <1>1, <2>2
  <2> QED
    BY <2>1, <2>2
<1> QED
  BY <1>2 DEF Apart, Typed, FreedEmpty, MessagesKeptApart

LEMMA RedisApart ==
  ASSUME WsAssumption, Apart, NEW p \in Proxies,
         RedisAnswers(p) \/ RedisBreaks(p) \/ RedisPublishes(p)
  PROVE  Apart'
<1>1. RedisFrame
  BY DEF RedisAnswers, RedisBreaks, RedisPublishes, RedisFrame, proxyVars,
         outVars
<1>2. /\ pending' \in Seq(Lambdas)
      /\ \A i \in 1 .. Len(pending') :
           /\ pending'[i].proxy \in Live
           /\ OwnSession(pending'[i].proxy, pending'[i].msg)
  <2>1. CASE RedisBreaks(p)
    BY <1>1, <2>1
    DEF RedisBreaks, RedisFrame, Apart, Typed, StaleOnlyInPoll,
        MessagesKeptApart
  <2>2. CASE RedisPublishes(p)
    <3> DEFINE m == [of |-> session[ws[p]], n |-> 0]
    <3>1. p \in Live /\ session[ws[p]] \in Sessions
      BY <2>2 DEF RedisPublishes
    <3>2. m \in Messages /\ OwnSession(p, m)
      BY <3>1, WsAssumption DEF OwnSession, Messages
    <3>3. pending' = Deferred(p, m)
      BY <2>2 DEF RedisPublishes
    <3> HIDE DEF m
    <3> QED
      BY <1>1, <3>1, <3>2, <3>3, LambdasStayApart
  <2>3. CASE RedisAnswers(p)
    <3> DEFINE m == Head(atRedis[p])
    <3>1. atRedis[p] \in Seq(Messages) /\ atRedis[p] # << >>
      BY <2>3 DEF RedisAnswers, Apart, Typed
    <3>2. /\ m \in Messages
          /\ 1 \in 1 .. Len(atRedis[p]) /\ m = atRedis[p][1]
      <4>1. m \in Messages
        BY <3>1, HeadTailProperties
      <4>2. Len(atRedis[p]) \in Nat \ {0}
        BY <3>1, EmptySeq
      <4>3. m = atRedis[p][1]
        BY <3>1
      <4> QED
        BY <4>1, <4>2, <4>3
    <3>3. p \in Live /\ OwnSession(p, m)
      BY <3>1, <3>2 DEF Apart, FreedEmpty, MessagesKeptApart
    <3>4. pending' = Deferred(p, m)
      BY <2>3 DEF RedisAnswers
    <3> HIDE DEF m
    <3> QED
      BY <1>1, <3>2, <3>3, <3>4, LambdasStayApart
  <2> QED
    BY <2>1, <2>2, <2>3
<1>3. /\ atRedis' \in [Proxies -> Seq(Messages)]
      /\ \A r \in Proxies \ Live : atRedis'[r] = << >>
      /\ \A r \in Proxies : \A i \in 1 .. Len(atRedis'[r]) :
           OwnSession(r, atRedis'[r][i])
  <2>1. CASE RedisPublishes(p)
    BY <2>1
    DEF RedisPublishes, Apart, Typed, FreedEmpty, MessagesKeptApart
  <2>2. CASE RedisAnswers(p) \/ RedisBreaks(p)
    BY <2>2, RequestsStayApart DEF RedisAnswers, RedisBreaks
  <2> QED
    BY <2>1, <2>2
<1>4. Live' = Live /\ Open' = Open
  BY <1>1 DEF RedisFrame, Live, Open
<1>5. Typed' /\ FreedEmpty' /\ StaleOnlyInPoll'
  BY <1>1, <1>2, <1>3, <1>4
  DEF RedisFrame, Apart, Typed, FreedEmpty, StaleOnlyInPoll
<1>6. ConsMatchProxies' /\ RepliesToOwner'
  BY <1>1, <1>4 DEF RedisFrame, Apart, ConsMatchProxies, RepliesToOwner
<1>7. MessagesKeptApart'
  BY <1>1, <1>2, <1>3, <1>4 DEF RedisFrame, MessagesKeptApart, OwnSession
<1> QED
  BY <1>5, <1>6, <1>7 DEF Apart

-----------------------------------------------------------------------------
(* The theorems.                                                           *)

LEMMA NextApart == WsAssumption /\ Apart /\ [Next]_vars => Apart'
<1> SUFFICES ASSUME WsAssumption, Apart, [Next]_vars
             PROVE  Apart'
  OBVIOUS
<1>1. CASE Poll
  BY <1>1, BeginPollApart, EndEventsApart, RunExecutablesApart,
     OnConnectApart, OnDataApart, OnDisconnectApart
  DEF Poll
<1>2. CASE Redis
  BY <1>2, RedisApart DEF Redis
<1>3. CASE UNCHANGED vars
  BY <1>3 DEF vars, Apart, Typed, FreedEmpty, ConsMatchProxies,
              StaleOnlyInPoll, MessagesKeptApart, OwnSession, RepliesToOwner,
              Live, Open
<1> QED
  BY <1>1, <1>2, <1>3 DEF Next

\* Apart holds in every reachable state.
THEOREM Invariance == Spec => []Apart
BY InitApart, NextApart, WsAssumption, PTL DEF Spec

\* However web sockets and proxies come, go and reuse each other's memory, the map
\* of the handler has one proxy for each open web socket and none for a closed
\* one.
THEOREM MapMatchesProxies == Spec => []ConsMatchProxies
BY Invariance, PTL DEF Apart

\* A browser is only ever sent what Redis answered to itself.
THEOREM RepliesReachTheirOwner == Spec => []RepliesToOwner
BY Invariance, PTL DEF Apart

-----------------------------------------------------------------------------
(* The order of the answers.                                               *)

\* Two answers to one session come in the order of their numbers.
Before(m, l) == m.of = l.of /\ m.n > 0 /\ l.n > 0 => m.n < l.n

\* An answer that waits is later than the last one its session was sent, and answers a
\* request that was made.
Waits(m, last, made) == m.n > 0 => last[m.of] < m.n /\ m.n <= made[m.of]

\* A session has one web socket.
OneSocket ==
  /\ \A c \in Conns : session[c] <= begun
  /\ \A c, d \in Open : session[c] = session[d] => c = d

\* What waits in server.execute comes before what waits at Redis.
Queued ==
  /\ answered \in [Sessions -> 0 .. MaxRequests]
  /\ \A s \in Sessions : answered[s] <= sent[s]
  /\ OneSocket
  /\ \A i \in 1 .. Len(pending) : Waits(pending[i].msg, answered, sent)
  /\ \A i, j \in 1 .. Len(pending) : i < j => Before(pending[i].msg, pending[j].msg)
  /\ \A p \in Proxies : \A k \in 1 .. Len(atRedis[p]) : Waits(atRedis[p][k], answered, sent)
  /\ \A p \in Proxies : \A k, l \in 1 .. Len(atRedis[p]) :
       k < l => Before(atRedis[p][k], atRedis[p][l])
  /\ \A i \in 1 .. Len(pending) : \A p \in Proxies : \A k \in 1 .. Len(atRedis[p]) :
       Before(pending[i].msg, atRedis[p][k])

LEMMA InitQueued == Init => Queued
<1> SUFFICES ASSUME Init PROVE Queued
  OBVIOUS
<1>1. Len(pending) = 0 /\ \A p \in Proxies : Len(atRedis[p]) = 0
  BY DEF Init
<1>2. /\ answered \in [Sessions -> 0 .. MaxRequests] /\ OneSocket
      /\ \A s \in Sessions : answered[s] <= sent[s]
  BY WsAssumption DEF Init, OneSocket, Open
<1> QED BY <1>1, <1>2 DEF Queued

\* The requests of one session are with one proxy.
LEMMA OneProxy ==
  ASSUME WsAssumption, Apart, OneSocket, NEW p \in Proxies, NEW q \in Proxies,
         NEW k \in 1 .. Len(atRedis[p]), NEW l \in 1 .. Len(atRedis[q]),
         atRedis[p][k].of = atRedis[q][l].of
  PROVE  p = q
<1>1. ASSUME NEW r \in Proxies, NEW i \in 1 .. Len(atRedis[r])
      PROVE  /\ r \in Live /\ ws[r] \in Open /\ cons[ws[r]] = r
             /\ session[ws[r]] = atRedis[r][i].of
  <2>1. r \in Live
    BY <1>1 DEF Apart, FreedEmpty
  <2>2. cons[ws[r]] = r /\ session[ws[r]] = atRedis[r][i].of
    BY <1>1, <2>1 DEF Apart, ConsMatchProxies, MessagesKeptApart, OwnSession
  <2>3. ws[r] \in Conns /\ r # NoProxy
    BY <2>1, WsAssumption DEF Apart, Typed, Live
  <2> QED BY <2>1, <2>2, <2>3 DEF Apart, ConsMatchProxies
<1>2. ws[p] = ws[q]
  <2>1. ws[p] \in Open /\ session[ws[p]] = atRedis[p][k].of
    BY <1>1
  <2>2. ws[q] \in Open /\ session[ws[q]] = atRedis[q][l].of
    BY <1>1
  <2> QED BY <2>1, <2>2 DEF OneSocket
<1> QED BY <1>1, <1>2

LEMMA LambdaMessages ==
  ASSUME Apart
  PROVE  /\ Len(pending) \in Nat /\ pending \in Seq(Lambdas)
         /\ \A i \in 1 .. Len(pending) : pending[i].msg \in Messages
<1>1. pending \in Seq(Lambdas)
  BY DEF Apart, Typed
<1>2. \A i \in 1 .. Len(pending) : pending[i] \in Lambdas
  BY <1>1
<1> QED BY <1>1, <1>2 DEF Lambdas

\* A web socket is opened or closed.
LEMMA OnConnectQueued ==
  ASSUME WsAssumption, Apart, Queued, NEW c \in Conns, OnConnect(c)
  PROVE  Queued'
<1>1. /\ UNCHANGED <<atRedis, pending, sent, answered>>
      /\ begun' = begun + 1 /\ begun \in Nat
      /\ session' = [session EXCEPT ![c] = begun + 1]
      /\ session \in [Conns -> 0 .. MaxSessions]
  BY WsAssumption DEF OnConnect, outVars, Apart, Typed
<1>2. \A d \in Conns : session[d] \in Nat /\ session[d] <= begun
  BY <1>1, WsAssumption DEF Queued, OneSocket
<1>3. OneSocket'
  <2>1. \A d \in Conns : session'[d] = IF d = c THEN begun + 1 ELSE session[d]
    BY <1>1
  <2>2. \A d \in Conns : session'[d] <= begun'
    BY <1>1, <1>2, <2>1
  <2>3. ASSUME NEW d \in Open', NEW e \in Open', session'[d] = session'[e]
        PROVE  d = e
    <3>1. d \in Conns /\ e \in Conns
      BY DEF Open
    <3>2. CASE d = c \/ e = c
      BY <1>1, <1>2, <2>1, <2>3, <3>1, <3>2
    <3>3. CASE d # c /\ e # c
      BY <2>1, <2>3, <3>1, <3>3 DEF Queued, OneSocket, Open
    <3> QED BY <3>2, <3>3
  <2> QED BY <2>2, <2>3 DEF OneSocket
<1> QED BY <1>1, <1>3 DEF Queued, Waits

\* A Redis that is gone, or deleted with its proxy.
LEMMA DroppedQueued ==
  ASSUME Queued, Apart, NEW p \in Proxies, atRedis' = [atRedis EXCEPT ![p] = << >>],
         OneSocket', UNCHANGED <<pending, sent, answered>>
  PROVE  Queued'
<1>1. \A q \in Proxies : atRedis'[q] = IF q = p THEN << >> ELSE atRedis[q]
  BY DEF Apart, Typed
<1>2. \A q \in Proxies : \A k \in 1 .. Len(atRedis'[q]) : q # p /\ atRedis'[q] = atRedis[q]
  BY <1>1
<1> QED BY <1>2 DEF Queued, Waits

LEMMA OnDisconnectQueued ==
  ASSUME WsAssumption, Apart, Queued, NEW c \in Conns, OnDisconnect(c)
  PROVE  Queued'
<1>1. /\ session' = [session EXCEPT ![c] = 0] /\ session \in [Conns -> 0 .. MaxSessions]
      /\ UNCHANGED <<pending, sent, answered, begun>> /\ begun \in Nat
  BY WsAssumption DEF OnDisconnect, outVars, Apart, Typed
<1>2. OneSocket'
  <2>1. \A d \in Conns : session'[d] = IF d = c THEN 0 ELSE session[d]
    BY <1>1
  <2>2. \A d \in Conns : session'[d] <= begun'
    BY <1>1, <2>1 DEF Queued, OneSocket
  <2>3. \A d \in Open' : d \in Open /\ session'[d] = session[d]
    BY <2>1 DEF Open
  <2> QED BY <2>2, <2>3 DEF Queued, OneSocket
<1>3. cons[c] \in Proxies /\ atRedis' = [atRedis EXCEPT ![cons[c]] = << >>]
  <2>1. cons[c] \in Proxies
    BY WsAssumption DEF OnDisconnect, Apart, Typed, ConsMatchProxies, Open
  <2> QED BY <2>1 DEF OnDisconnect, RedisDeleted, Apart, Typed
<1> QED BY <1>1, <1>2, <1>3, DroppedQueued

\* A request is later than all that wait.
LEMMA OnDataQueued ==
  ASSUME WsAssumption, Apart, Queued, NEW c \in Conns, OnData(c)
  PROVE  Queued'
<1> DEFINE p == cons[c]
           s == session[c]
<1>0. PICK msg : msg = [of |-> s, n |-> sent[s] + 1]
  OBVIOUS
<1>1. /\ UNCHANGED <<session, begun, pending, answered>>
      /\ s \in Sessions /\ p \in Proxies
      /\ sent' = [sent EXCEPT ![s] = @ + 1]
      /\ sent \in [Sessions -> Nat] /\ answered \in [Sessions -> Nat]
  BY WsAssumption DEF OnData, proxyVars, outVars, Apart, Typed, ConsMatchProxies, Open, Sessions,
     Queued
<1>2. /\ atRedis[p] \in Seq(Messages)
      /\ atRedis' = [atRedis EXCEPT ![p] = Append(@, msg)]
      /\ atRedis \in [Proxies -> Seq(Messages)]
  BY <1>0, <1>1 DEF OnData, Apart, Typed
<1>3. /\ Len(atRedis[p]) \in Nat
      /\ Len(atRedis'[p]) = Len(atRedis[p]) + 1
      /\ atRedis'[p][Len(atRedis[p]) + 1] = msg
      /\ \A k \in 1 .. Len(atRedis[p]) : atRedis'[p][k] = atRedis[p][k]
      /\ \A q \in Proxies : q # p => atRedis'[q] = atRedis[q]
  <2> DEFINE a == atRedis[p]
  <2>1. a \in Seq(Messages) /\ atRedis'[p] = Append(a, msg)
    BY <1>1, <1>2
  <2> HIDE DEF a
  <2>2. /\ Len(a) \in Nat /\ Len(Append(a, msg)) = Len(a) + 1
        /\ Append(a, msg)[Len(a) + 1] = msg
        /\ \A k \in 1 .. Len(a) : Append(a, msg)[k] = a[k]
    BY <2>1
  <2>3. \A q \in Proxies : q # p => atRedis'[q] = atRedis[q]
    BY <1>1, <1>2
  <2> QED BY <2>1, <2>2, <2>3 DEF a
<1>4. ASSUME NEW m \in Messages, Waits(m, answered, sent)
      PROVE  Waits(m, answered', sent') /\ Before(m, msg)
  <2>1. m.of \in Sessions /\ m.n \in Nat
    BY DEF Messages
  <2>2. sent'[m.of] >= sent[m.of] /\ sent[m.of] \in Nat /\ sent'[m.of] \in Nat
    BY <1>1, <2>1
  <2>3. Waits(m, answered', sent')
    BY <1>1, <1>4, <2>1, <2>2 DEF Waits
  <2>4. Before(m, msg)
    BY <1>0, <1>1, <1>4, <2>1, <2>2 DEF Waits, Before
  <2> QED BY <2>3, <2>4
<1>5. Waits(msg, answered', sent')
  <2>1. msg.of = s /\ msg.n = sent[s] + 1 /\ sent'[s] = sent[s] + 1
    BY <1>0, <1>1
  <2>2. sent[s] \in Nat /\ answered[s] \in Nat
    BY <1>1
  <2>3. answered[s] <= sent[s]
    BY <1>1 DEF Queued
  <2> QED BY <1>1, <2>1, <2>2, <2>3 DEF Waits
<1> HIDE DEF p
<1>6. ASSUME NEW q \in Proxies, NEW k \in 1 .. Len(atRedis'[q])
      PROVE  \/ k \in 1 .. Len(atRedis[q]) /\ atRedis'[q][k] = atRedis[q][k]
             \/ q = p /\ k = Len(atRedis[p]) + 1 /\ atRedis'[q][k] = msg
  BY <1>3
<1>7. /\ \A i \in 1 .. Len(pending) : pending[i].msg \in Messages
      /\ \A q \in Proxies : \A k \in 1 .. Len(atRedis[q]) : atRedis[q][k] \in Messages
  <2>1. \A q \in Proxies : \A k \in 1 .. Len(atRedis[q]) : atRedis[q][k] \in Messages
    BY <1>2
  <2> QED BY <2>1, LambdaMessages
<1>8. \A i \in 1 .. Len(pending) : Waits(pending'[i].msg, answered', sent') /\ Before(pending[i].msg, msg)
  BY <1>1, <1>4, <1>7 DEF Queued
<1>9. \A q \in Proxies : \A k \in 1 .. Len(atRedis[q]) :
        Waits(atRedis[q][k], answered, sent) /\ Before(atRedis[q][k], msg)
  BY <1>4, <1>7 DEF Queued
<1>10. ASSUME NEW q \in Proxies, NEW k \in 1 .. Len(atRedis'[q])
       PROVE  Waits(atRedis'[q][k], answered', sent')
  BY <1>4, <1>5, <1>6, <1>7, <1>9
<1>11. ASSUME NEW q \in Proxies, NEW k \in 1 .. Len(atRedis'[q]), NEW l \in 1 .. Len(atRedis'[q]),
              k < l
       PROVE  Before(atRedis'[q][k], atRedis'[q][l])
  <2>1. Len(atRedis[p]) \in Nat
    BY <1>3
  <2>2. k \in 1 .. Len(atRedis[q]) /\ atRedis'[q][k] = atRedis[q][k]
    BY <1>3, <1>6, <1>11, <2>1
  <2> QED BY <1>6, <1>9, <1>11, <2>2 DEF Queued
<1>12. ASSUME NEW i \in 1 .. Len(pending'), NEW q \in Proxies, NEW k \in 1 .. Len(atRedis'[q])
       PROVE  Before(pending'[i].msg, atRedis'[q][k])
  BY <1>1, <1>6, <1>8 DEF Queued
<1>13. /\ answered' \in [Sessions -> 0 .. MaxRequests] /\ OneSocket'
       /\ \A t \in Sessions : answered'[t] <= sent'[t]
  <2>1. answered' \in [Sessions -> 0 .. MaxRequests] /\ OneSocket'
    BY <1>1 DEF Queued, OneSocket, Open
  <2>2. ASSUME NEW t \in Sessions PROVE answered'[t] <= sent'[t]
    <3>1. answered[t] \in Nat /\ sent[t] \in Nat /\ answered[t] <= sent[t]
      BY <1>1 DEF Queued
    <3>2. sent'[t] = IF t = s THEN sent[t] + 1 ELSE sent[t]
      BY <1>1
    <3> QED BY <1>1, <3>1, <3>2
  <2> QED BY <2>1, <2>2
<1>14. /\ \A i \in 1 .. Len(pending') : Waits(pending'[i].msg, answered', sent')
       /\ \A i, j \in 1 .. Len(pending') : i < j => Before(pending'[i].msg, pending'[j].msg)
  BY <1>1, <1>8 DEF Queued, Waits
<1> QED BY <1>10, <1>11, <1>12, <1>13, <1>14 DEF Queued

-----------------------------------------------------------------------------
(* Redis answers, publishes or goes away.                                  *)

\* A lambda that is none of the answers that wait, or comes before those at Redis.
LEMMA DeferredQueued ==
  ASSUME Apart, Queued, NEW p \in Proxies, NEW STATE m, m \in Messages, Waits(m, answered, sent),
         pending' = Deferred(p, m),
         \A i \in 1 .. Len(pending) : Before(pending[i].msg, m)
  PROVE  /\ \A i \in 1 .. Len(pending') : /\ Waits(pending'[i].msg, answered, sent)
                                          /\ \/ \E j \in 1 .. Len(pending) : pending'[i] = pending[j]
                                             \/ pending'[i].msg = m
         /\ \A i, j \in 1 .. Len(pending') : i < j => Before(pending'[i].msg, pending'[j].msg)
<1> DEFINE lambda == [proxy |-> p, msg |-> m]
<1>1. pending \in Seq(Lambdas) /\ lambda \in Lambdas /\ pending' = Append(pending, lambda)
  BY DEF Apart, Typed, Deferred, Lambdas
<1>2. lambda.msg = m
  OBVIOUS
<1> HIDE DEF lambda
<1>3. /\ Len(pending) \in Nat /\ Len(pending') = Len(pending) + 1
      /\ pending'[Len(pending) + 1] = lambda
      /\ \A i \in 1 .. Len(pending) : pending'[i] = pending[i]
  BY <1>1
<1>4. ASSUME NEW i \in 1 .. Len(pending')
      PROVE  \/ i \in 1 .. Len(pending) /\ pending'[i] = pending[i]
             \/ i = Len(pending) + 1 /\ pending'[i] = lambda
  BY <1>3
<1>5. ASSUME NEW i \in 1 .. Len(pending')
      PROVE  /\ Waits(pending'[i].msg, answered, sent)
             /\ \/ \E j \in 1 .. Len(pending) : pending'[i] = pending[j]
                \/ pending'[i].msg = m
  BY <1>2, <1>4 DEF Queued
<1>6. ASSUME NEW i \in 1 .. Len(pending'), NEW j \in 1 .. Len(pending'), i < j
      PROVE  Before(pending'[i].msg, pending'[j].msg)
  <2>1. i \in 1 .. Len(pending) /\ pending'[i] = pending[i]
    BY <1>3, <1>4, <1>6
  <2> QED BY <1>2, <1>4, <1>6, <2>1 DEF Queued
<1> QED BY <1>5, <1>6

LEMMA RedisPublishesQueued ==
  ASSUME WsAssumption, Apart, Queued, NEW p \in Proxies, RedisPublishes(p)
  PROVE  Queued'
<1> DEFINE m == [of |-> session[ws[p]], n |-> 0]
<1>1. UNCHANGED <<session, begun, atRedis, sent, answered>> /\ pending' = Deferred(p, m)
  BY DEF RedisPublishes, proxyVars, outVars
<1>2. m \in Messages /\ m.n = 0
  BY WsAssumption DEF RedisPublishes, Messages
<1> HIDE DEF m
<1>3. Waits(m, answered, sent) /\ \A l : Before(m, l) /\ Before(l, m)
  BY <1>2 DEF Waits, Before
<1>4. /\ \A i \in 1 .. Len(pending') : /\ Waits(pending'[i].msg, answered, sent)
                                       /\ \/ \E j \in 1 .. Len(pending) : pending'[i] = pending[j]
                                          \/ pending'[i].msg = m
      /\ \A i, j \in 1 .. Len(pending') : i < j => Before(pending'[i].msg, pending'[j].msg)
  BY <1>1, <1>2, <1>3, DeferredQueued
<1>5. \A i \in 1 .. Len(pending') : \A q \in Proxies : \A k \in 1 .. Len(atRedis[q]) :
        Before(pending'[i].msg, atRedis[q][k])
  BY <1>3, <1>4 DEF Queued
<1> QED BY <1>1, <1>4, <1>5 DEF Queued, Waits, OneSocket, Open

LEMMA RedisAnswersQueued ==
  ASSUME WsAssumption, Apart, Queued, NEW p \in Proxies, RedisAnswers(p)
  PROVE  Queued'
<1> DEFINE a == atRedis[p]
           m == Head(a)
<1>1. /\ UNCHANGED <<session, begun, sent, answered>>
      /\ pending' = Deferred(p, m) /\ a # << >>
      /\ a \in Seq(Messages) /\ atRedis \in [Proxies -> Seq(Messages)]
      /\ atRedis' = [atRedis EXCEPT ![p] = Tail(a)]
  BY DEF RedisAnswers, proxyVars, outVars, Apart, Typed
<1>2. atRedis'[p] = Tail(a) /\ \A q \in Proxies : q # p => atRedis'[q] = atRedis[q]
  BY <1>1
<1>3. /\ Len(a) \in Nat \ {0} /\ Len(Tail(a)) = Len(a) - 1
      /\ m = a[1] /\ m \in Messages
      /\ \A k \in 1 .. Len(a) - 1 : Tail(a)[k] = a[k + 1]
  BY <1>1, HeadTailProperties, EmptySeq
<1>4. ASSUME NEW q \in Proxies, NEW k \in 1 .. Len(atRedis'[q])
      PROVE  \/ q # p /\ k \in 1 .. Len(atRedis[q]) /\ atRedis'[q][k] = atRedis[q][k]
             \/ q = p /\ k + 1 \in 1 .. Len(atRedis[p]) /\ atRedis'[q][k] = atRedis[p][k + 1]
  <2>1. CASE q # p
    BY <1>2, <2>1
  <2>2. CASE q = p
    <3>1. k \in 1 .. Len(a) - 1 /\ atRedis'[q][k] = Tail(a)[k]
      BY <1>2, <1>3, <2>2
    <3>2. k + 1 \in 1 .. Len(a)
      BY <1>3, <3>1
    <3> QED BY <1>3, <2>2, <3>1, <3>2
  <2> QED BY <2>1, <2>2
<1>5. 1 \in 1 .. Len(atRedis[p]) /\ m = atRedis[p][1]
  BY <1>3
<1> HIDE DEF m, a
<1>6. Waits(m, answered, sent) /\ \A i \in 1 .. Len(pending) : Before(pending[i].msg, m)
  BY <1>5 DEF Queued
<1>7. /\ \A i \in 1 .. Len(pending') : /\ Waits(pending'[i].msg, answered, sent)
                                       /\ \/ \E j \in 1 .. Len(pending) : pending'[i] = pending[j]
                                          \/ pending'[i].msg = m
      /\ \A i, j \in 1 .. Len(pending') : i < j => Before(pending'[i].msg, pending'[j].msg)
  BY <1>1, <1>3, <1>6, DeferredQueued
<1>8. ASSUME NEW q \in Proxies, NEW k \in 1 .. Len(atRedis'[q])
      PROVE  Before(m, atRedis'[q][k]) /\ Waits(atRedis'[q][k], answered, sent)
  <2>1. CASE q # p /\ k \in 1 .. Len(atRedis[q]) /\ atRedis'[q][k] = atRedis[q][k]
    <3>1. m.of # atRedis[q][k].of
      BY <1>5, <2>1, OneProxy DEF Queued
    <3> QED BY <2>1, <3>1 DEF Queued, Before
  <2>2. CASE q = p /\ k + 1 \in 1 .. Len(atRedis[p]) /\ atRedis'[q][k] = atRedis[p][k + 1]
    <3>1. 1 < k + 1
      OBVIOUS
    <3> QED BY <1>5, <2>2, <3>1 DEF Queued
  <2> QED BY <1>4, <2>1, <2>2
<1>9. \A i \in 1 .. Len(pending') : \A q \in Proxies : \A k \in 1 .. Len(atRedis'[q]) :
        Before(pending'[i].msg, atRedis'[q][k])
  <2>1. \A i \in 1 .. Len(pending) : \A q \in Proxies : \A k \in 1 .. Len(atRedis'[q]) :
          Before(pending[i].msg, atRedis'[q][k])
    BY <1>4 DEF Queued
  <2> QED BY <1>7, <1>8, <2>1
<1>10. ASSUME NEW q \in Proxies, NEW k \in 1 .. Len(atRedis'[q]), NEW l \in 1 .. Len(atRedis'[q]),
              k < l
       PROVE  Before(atRedis'[q][k], atRedis'[q][l])
  <2>1. CASE q # p
    BY <1>4, <1>10, <2>1 DEF Queued
  <2>2. CASE q = p
    <3>1. k + 1 < l + 1
      BY <1>10
    <3> QED BY <1>4, <2>2, <3>1 DEF Queued
  <2> QED BY <2>1, <2>2
<1>11. answered' \in [Sessions -> 0 .. MaxRequests] /\ OneSocket'
       /\ \A s \in Sessions : answered'[s] <= sent'[s]
  BY <1>1 DEF Queued, OneSocket, Open
<1> QED BY <1>1, <1>7, <1>8, <1>9, <1>10, <1>11 DEF Queued, Waits

-----------------------------------------------------------------------------
(* The deferred lambdas run.                                               *)

LEMMA RunExecutablesQueued ==
  ASSUME WsAssumption, Apart, Queued, RunExecutables
  PROVE  /\ Queued'
         /\ shown' \in Seq([to : Sessions \cup {NoConn}, msg : Messages])
         /\ \A s \in Sessions : \A i \in Answers(s, shown') :
              /\ shown'[i].msg.n > answered[s]
              /\ \A j \in Answers(s, shown') : j < i => shown'[j].msg.n < shown'[i].msg.n
<1> DEFINE n == Len(pending)
<1>1. /\ UNCHANGED <<session, begun, atRedis, sent>> /\ pending' = << >>
      /\ shown' = [i \in 1 .. n |-> [to |-> Reached(pending[i]), msg |-> pending[i].msg]]
      /\ answered' = [s \in Sessions |->
                        IF Answers(s, shown') = {} THEN answered[s]
                        ELSE shown'[Max(Answers(s, shown'))].msg.n]
  BY DEF RunExecutables, proxyVars
<1>2. n \in Nat /\ pending \in Seq(Lambdas) /\ \A i \in 1 .. n : pending[i].msg \in Messages
  BY LambdaMessages
<1>3. Len(shown') = n /\ \A i \in 1 .. n : shown'[i].msg = pending[i].msg /\ shown'[i].to = Reached(pending[i])
  <2> HIDE DEF n
  <2> QED BY <1>1, <1>2
<1>4. ASSUME NEW i \in 1 .. n
      PROVE  Reached(pending[i]) \in {pending[i].msg.of, NoConn}
  BY <1>4 DEF Apart, MessagesKeptApart, OwnSession, Reached
<1>5. shown' \in Seq([to : Sessions \cup {NoConn}, msg : Messages])
  <2> DEFINE S == [to : Sessions \cup {NoConn}, msg : Messages]
             l(i) == [to |-> Reached(pending[i]), msg |-> pending[i].msg]
  <2>1. \A i \in 1 .. n : l(i) \in S
    BY <1>2, <1>4 DEF Messages
  <2>2. shown' = [i \in 1 .. n |-> l(i)]
    BY <1>1
  <2> HIDE DEF n, S, l
  <2>3. shown' \in Seq(S)
    BY <1>2, <2>1, <2>2
  <2> QED BY <2>3 DEF S
<1>6. ASSUME NEW s \in Sessions, NEW i \in Answers(s, shown')
      PROVE  /\ i \in 1 .. n /\ shown'[i].msg = pending[i].msg
             /\ pending[i].msg.of = s /\ pending[i].msg.n > 0
  <2>1. i \in 1 .. n /\ shown'[i].to = s /\ shown'[i].msg.n > 0
    BY <1>3 DEF Answers
  <2>2. s # NoConn
    BY WsAssumption DEF Sessions
  <2> QED BY <1>3, <1>4, <2>1, <2>2
<1>7. ASSUME NEW s \in Sessions, NEW i \in Answers(s, shown')
      PROVE  /\ shown'[i].msg.n > answered[s]
             /\ \A j \in Answers(s, shown') : j < i => shown'[j].msg.n < shown'[i].msg.n
  <2>1. answered[s] \in Nat /\ pending[i].msg.n \in Nat
    BY <1>2, <1>6 DEF Queued, Messages
  <2>2. shown'[i].msg.n > answered[s]
    BY <1>6, <2>1 DEF Queued, Waits
  <2>3. ASSUME NEW j \in Answers(s, shown'), j < i PROVE shown'[j].msg.n < shown'[i].msg.n
    BY <1>6, <2>3 DEF Queued, Before
  <2> QED BY <2>2, <2>3
\* The last answer sent is one that waited, or the one before.
<1>8. ASSUME NEW s \in Sessions
      PROVE  \/ answered'[s] = answered[s]
             \/ \E i \in 1 .. n : /\ answered'[s] = pending[i].msg.n
                                  /\ pending[i].msg.of = s /\ pending[i].msg.n > 0
  <2>1. CASE Answers(s, shown') = {}
    BY <1>1, <2>1
  <2>2. CASE Answers(s, shown') # {}
    <3>1. Answers(s, shown') \in SUBSET (1 .. n)
      BY <1>6
    <3>2. Max(Answers(s, shown')) \in Answers(s, shown')
      BY <1>2, <2>2, <3>1, MaxIn
    <3>3. answered'[s] = shown'[Max(Answers(s, shown'))].msg.n
      BY <1>1, <2>2
    <3> QED BY <1>6, <3>2, <3>3
  <2> QED BY <2>1, <2>2
<1>9. ASSUME NEW s \in Sessions PROVE answered'[s] \in 0 .. MaxRequests /\ answered'[s] <= sent[s]
  <2>1. CASE answered'[s] = answered[s]
    BY <2>1 DEF Queued
  <2>2. ASSUME NEW i \in 1 .. n, answered'[s] = pending[i].msg.n,
               pending[i].msg.of = s, pending[i].msg.n > 0
        PROVE  answered'[s] \in 0 .. MaxRequests /\ answered'[s] <= sent[s]
    <3>1. pending[i].msg.n \in 0 .. MaxRequests
      BY <1>2 DEF Messages
    <3>2. pending[i].msg.n <= sent[s]
      BY <2>2 DEF Queued, Waits
    <3> QED BY <2>2, <3>1, <3>2
  <2> QED BY <1>8, <2>1, <2>2
<1>10. ASSUME NEW p \in Proxies, NEW k \in 1 .. Len(atRedis[p]), atRedis[p][k].n > 0
       PROVE  LET m == atRedis[p][k] IN answered'[m.of] < m.n /\ m.n <= sent[m.of]
  <2> DEFINE m == atRedis[p][k]
  <2>1. m \in Messages
    BY DEF Apart, Typed
  <2>2. m.of \in Sessions
    BY <2>1 DEF Messages
  <2>3. Waits(m, answered, sent) /\ \A i \in 1 .. n : Before(pending[i].msg, m)
    BY DEF Queued
  <2>4. m.n > 0
    BY <1>10
  <2> HIDE DEF m
  <2> QED BY <1>8, <2>2, <2>3, <2>4 DEF Waits, Before, m
<1>11. Queued'
  <2>1. Len(pending') = 0
    BY <1>1
  <2>2. answered' \in [Sessions -> 0 .. MaxRequests]
    <3> DEFINE g == [s \in Sessions |->
                        IF Answers(s, shown') = {} THEN answered[s]
                        ELSE shown'[Max(Answers(s, shown'))].msg.n]
    <3>1. answered' = g /\ \A s \in Sessions : g[s] \in 0 .. MaxRequests
      BY <1>1, <1>9
    <3>2. DOMAIN g = Sessions /\ g = [s \in Sessions |-> g[s]]
      OBVIOUS
    <3> HIDE DEF g
    <3> QED BY <3>1, <3>2
  <2>3. OneSocket' /\ \A s \in Sessions : answered'[s] <= sent'[s]
    BY <1>1, <1>9 DEF Queued, OneSocket, Open
  <2>4. \A p \in Proxies : \A k \in 1 .. Len(atRedis'[p]) : Waits(atRedis'[p][k], answered', sent')
    BY <1>1, <1>10 DEF Waits
  <2>5. \A p \in Proxies : \A k, l \in 1 .. Len(atRedis'[p]) :
          k < l => Before(atRedis'[p][k], atRedis'[p][l])
    BY <1>1 DEF Queued
  <2>6. \A i : i \notin 1 .. Len(pending')
    BY <2>1
  <2> QED BY <2>2, <2>3, <2>4, <2>5, <2>6 DEF Queued
<1> QED BY <1>5, <1>7, <1>11

LEMMA NextQueued ==
  ASSUME WsAssumption, Apart, Queued, [Next]_vars
  PROVE  Queued'
<1>1. ASSUME UNCHANGED <<session, begun, atRedis, pending, sent, answered>> PROVE Queued'
  BY <1>1 DEF Queued, Waits, OneSocket, Open
<1>2. CASE BeginPoll \/ EndEvents \/ UNCHANGED vars
  BY <1>1, <1>2 DEF BeginPoll, EndEvents, vars, proxyVars, outVars
<1>3. ASSUME NEW p \in Proxies, RedisBreaks(p) PROVE Queued'
  <2>1. /\ atRedis' = [atRedis EXCEPT ![p] = << >>]
        /\ UNCHANGED <<session, begun, pending, sent, answered>>
    BY <1>3 DEF RedisBreaks, proxyVars, outVars
  <2>2. OneSocket'
    BY <2>1 DEF Queued, OneSocket, Open
  <2> QED BY <2>1, <2>2, DroppedQueued
<1> QED BY <1>2, <1>3, RunExecutablesQueued, OnConnectQueued, OnDataQueued, OnDisconnectQueued,
     RedisAnswersQueued, RedisPublishesQueued DEF Next, Poll, Redis

\* A browser gets the answers to its requests in the order of the requests, each at most
\* once, also while lambdas of closed sessions wait among its own, while its memory was
\* another session's before, and while the connection to Redis breaks.
THEOREM AnswersComeInOrder == Spec => AnswersInOrder
<1>1. Init => Apart /\ Queued
  BY InitApart, InitQueued
<1>2. Apart /\ Queued /\ [Next]_vars => Apart' /\ Queued'
  BY NextApart, NextQueued, WsAssumption
<1>3. Apart /\ Queued /\ [Next]_vars =>
        [RunExecutables =>
           \A s \in Sessions : \A i \in Answers(s, shown') :
             /\ shown'[i].msg.n > answered[s]
             /\ \A j \in Answers(s, shown') : j < i => shown'[j].msg.n < shown'[i].msg.n]_vars
  BY RunExecutablesQueued, WsAssumption
<1> QED BY <1>1, <1>2, <1>3, PTL DEF Spec, AnswersInOrder

\* What TypeOK says beyond the invariants.
Kinds ==
  /\ phase \in {"loop", "events", "deletes"} /\ crashed \in BOOLEAN
  /\ shown \in Seq([to : Sessions \cup {NoConn}, msg : Messages])

\* Every variable keeps its type; nothing is sent to a web socket that is closed.
THEOREM WsTypes == Spec => []TypeOK
<1>1. Init => Apart /\ Queued /\ Kinds
  <2>1. Init => Kinds
    <3> DEFINE S == [to : Sessions \cup {NoConn}, msg : Messages]
    <3> HIDE DEF S
    <3>1. Init => shown \in Seq(S)
      BY DEF Init
    <3>2. Init => phase \in {"loop", "events", "deletes"} /\ crashed \in BOOLEAN
      BY DEF Init
    <3> QED BY <3>1, <3>2 DEF Kinds, S
  <2> QED BY <2>1, InitApart, InitQueued
<1>2. Apart /\ Queued /\ Kinds /\ [Next]_vars => Apart' /\ Queued' /\ Kinds'
  <2> SUFFICES ASSUME Apart, Queued, Kinds, [Next]_vars PROVE Kinds'
    BY NextApart, NextQueued, WsAssumption
  <2>1. CASE RunExecutables
    <3>1. phase' = "loop" /\ crashed' \in BOOLEAN
      BY <2>1, Zenon DEF RunExecutables
    <3> QED BY <2>1, <3>1, RunExecutablesQueued, WsAssumption DEF Kinds
  <2>2. CASE BeginPoll \/ EndEvents \/ UNCHANGED vars
    BY <2>2 DEF BeginPoll, EndEvents, vars, outVars, Kinds
  <2>3. ASSUME NEW c \in Conns, OnConnect(c) \/ OnData(c) \/ OnDisconnect(c) PROVE Kinds'
    BY <2>3 DEF OnConnect, OnData, OnDisconnect, outVars, Kinds
  <2>4. CASE Redis
    BY <2>4 DEF Redis, RedisAnswers, RedisBreaks, RedisPublishes, outVars, Kinds
  <2> QED BY <2>1, <2>2, <2>3, <2>4 DEF Next, Poll
<1>3. Apart /\ Queued /\ Kinds => TypeOK
  BY DEF Apart, Typed, Queued, Kinds, TypeOK
<1> QED BY <1>1, <1>2, <1>3, PTL DEF Spec
=============================================================================
