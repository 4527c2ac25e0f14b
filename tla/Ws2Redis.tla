------------------------------ MODULE Ws2Redis ------------------------------
(***************************************************************************)
(* The web socket gateway: Handler and WsProxy of src/ws2redis.cpp.        *)
(*                                                                         *)
(* The worker thread runs the callbacks of the Redis connections and, as a *)
(* read invoker, server.poll of the seasocks library.  One poll goes       *)
(* through the events of all connections, then deletes the connections     *)
(* that closed, and in the end runs what server.execute has collected.     *)
(* What Redis answers is sent by such a deferred lambda, which refers to   *)
(* its proxy by a plain pointer.                                           *)
(*                                                                         *)
(* limero's Redis client and seasocks are not part of the repository; they *)
(* are modelled from their use.                                            *)
(***************************************************************************)
EXTENDS Naturals, Sequences, FiniteSetsExt

CONSTANTS
  Conns,        \* heap blocks a WebSocket may be allocated in
  Proxies,      \* heap blocks a WsProxy may be allocated in
  NoConn,       \* _ws of a block that holds no WsProxy; what its send reaches
  NoProxy,      \* _cons.find(...) == _cons.end()
  MaxSessions,  \* bound: web sockets opened
  MaxRequests,  \* bound: requests of one session
  MaxPending    \* bound: lambdas collected between two polls

ASSUME WsAssumption ==
  /\ NoConn \notin Conns \cup 0 .. MaxSessions
  /\ NoProxy \notin Proxies
  /\ MaxSessions \in Nat /\ MaxRequests \in Nat /\ MaxPending \in Nat

VARIABLES
  phase,    \* "loop", or in server.poll: "events", then "deletes"
  session,  \* per WebSocket block: the session it belongs to, 0 if free
  cons,     \* _cons, from WebSocket blocks to proxies
  ws,       \* per WsProxy block: its _ws
  atRedis,  \* per WsProxy block: requests its Redis has not answered
  pending,  \* lambdas given to server.execute: a proxy and a message
  crashed,  \* the process died running the lambda of a deleted proxy
  begun,    \* history: sessions opened so far
  sent,     \* history: requests of each session
  shown,    \* history: what the last poll sent: the session, if any, that
            \* it reached, and the message
  answered  \* history: number of the last answer sent to each session

proxyVars == <<session, cons, ws, begun>>
outVars   == <<shown, answered>>
vars == <<phase, session, cons, ws, atRedis, pending, crashed, begun, sent,
          shown, answered>>

-----------------------------------------------------------------------------
(* A message is named by its session and the number of the request it      *)
(* answers; number 0 is what Redis publishes to a subscriber.              *)

Sessions == 1 .. MaxSessions
Messages == [of : Sessions, n : 0 .. MaxRequests]
Lambdas  == [proxy : Proxies, msg : Messages]

Live == {p \in Proxies : ws[p] # NoConn}
Open == {c \in Conns : session[c] # 0}

Init ==
  /\ phase = "loop"
  /\ session = [c \in Conns |-> 0]
  /\ cons = [c \in Conns |-> NoProxy]
  /\ ws = [p \in Proxies |-> NoConn]
  /\ atRedis = [p \in Proxies |-> << >>]
  /\ pending = << >>
  /\ crashed = FALSE
  /\ begun = 0
  /\ sent = [s \in Sessions |-> 0]
  /\ shown = << >>
  /\ answered = [s \in Sessions |-> 0]

-----------------------------------------------------------------------------
(* Handler, called from server.poll.                                       *)

BeginPoll ==
  /\ phase = "loop"
  /\ phase' = "events"
  /\ UNCHANGED <<proxyVars, atRedis, pending, crashed, sent, outVars>>

\* onConnect: new WsProxy, and _cons.emplace, which leaves an entry that the
\* WebSocket already has as it is.
OnConnect(c) ==
  /\ phase = "events"
  /\ session[c] = 0
  /\ begun < MaxSessions
  /\ begun' = begun + 1
  /\ session' = [session EXCEPT ![c] = begun + 1]
  /\ \E p \in Proxies \ Live :
       /\ ws' = [ws EXCEPT ![p] = c]
       /\ cons' = [cons EXCEPT ![c] = IF @ = NoProxy THEN p ELSE @]
  /\ UNCHANGED <<phase, atRedis, pending, crashed, sent, outVars>>

\* onData: whatever the text parses to is given to the Redis of the proxy that
\* _cons has for the WebSocket.
OnData(c) ==
  /\ phase = "events"
  /\ session[c] # 0
  /\ LET s == session[c] IN
       /\ sent[s] < MaxRequests
       /\ sent' = [sent EXCEPT ![s] = @ + 1]
       /\ atRedis' = [p \in Proxies |->
                        IF p = cons[c]
                        THEN Append(atRedis[p], [of |-> s, n |-> sent[s] + 1])
                        ELSE atRedis[p]]
  /\ UNCHANGED <<phase, proxyVars, pending, crashed, outVars>>

EndEvents ==
  /\ phase = "events"
  /\ phase' = "deletes"
  /\ UNCHANGED <<proxyVars, atRedis, pending, crashed, sent, outVars>>

\* Mistakes: the destructor leaves its Redis to go on answering, the entry of a
\* closed WebSocket stays in the map, and its proxy is not deleted.
RedisLeft(q) == q
ErasedNever(p) == p
DeletedNever(c) == c

\* ~WsProxy disconnects and deletes its Redis: nothing is answered any more.
RedisDeleted(q) == << >>
\* _cons.erase(it), and delete it->second
Erased(p) == NoProxy
Deleted(c) == NoConn

\* onDisconnect, as the connection is deleted.  Lambdas that were collected for
\* the proxy stay where they are.
OnDisconnect(c) ==
  /\ phase = "deletes"
  /\ session[c] # 0
  /\ session' = [session EXCEPT ![c] = 0]
  /\ ws' = [p \in Proxies |-> IF p = cons[c] THEN Deleted(ws[p]) ELSE ws[p]]
  /\ atRedis' = [p \in Proxies |->
                   IF p = cons[c] THEN RedisDeleted(atRedis[p]) ELSE atRedis[p]]
  /\ cons' = [cons EXCEPT ![c] = Erased(@)]
  /\ UNCHANGED <<phase, pending, crashed, begun, sent, outVars>>

\* Where in q the answers are that were sent to session s.
Answers(s, q) == {i \in 1 .. Len(q) : q[i].to = s /\ q[i].msg.n > 0}

\* The session that proxy->ws()->send reaches.
Reached(l) == IF l.proxy \in Live THEN session[ws[l.proxy]] ELSE NoConn

\* The lambdas that onConnect's response lambda deferred, in order.  One whose
\* proxy was deleted reads freed memory: the process dies, or the message goes
\* nowhere.
RunExecutables ==
  /\ phase = "deletes"
  /\ phase' = "loop"
  /\ pending' = << >>
  /\ shown' = [i \in 1 .. Len(pending) |->
                 [to |-> Reached(pending[i]), msg |-> pending[i].msg]]
  /\ crashed' \in IF \E i \in 1 .. Len(pending) : pending[i].proxy \notin Live
                  THEN BOOLEAN ELSE {FALSE}
  /\ answered' = [s \in Sessions |->
                    LET mine == Answers(s, shown') IN
                    IF mine = {} THEN answered[s] ELSE shown'[Max(mine)].msg.n]
  /\ UNCHANGED <<proxyVars, atRedis, sent>>

-----------------------------------------------------------------------------
(* The Redis of a proxy, between polls: what it answers is given to        *)
(* server.execute.                                                         *)

\* A mistake: the newest lambda runs first.
DeferredInFront(p, m) == <<[proxy |-> p, msg |-> m]>> \o pending

Deferred(p, m) == Append(pending, [proxy |-> p, msg |-> m])

RedisAnswers(p) ==
  /\ phase = "loop"
  /\ atRedis[p] # << >>
  /\ Len(pending) < MaxPending
  /\ atRedis' = [atRedis EXCEPT ![p] = Tail(@)]
  /\ pending' = Deferred(p, Head(atRedis[p]))
  /\ UNCHANGED <<phase, proxyVars, crashed, sent, outVars>>

\* A connection that breaks, or was never made: the result of connect() is not
\* looked at.
RedisBreaks(p) ==
  /\ phase = "loop"
  /\ atRedis[p] # << >>
  /\ atRedis' = [atRedis EXCEPT ![p] = << >>]
  /\ UNCHANGED <<phase, proxyVars, pending, crashed, sent, outVars>>

\* A message on a channel the session subscribed to.
RedisPublishes(p) ==
  /\ phase = "loop"
  /\ p \in Live
  /\ session[ws[p]] \in {s \in Sessions : sent[s] > 0}
  /\ Len(pending) < MaxPending
  /\ pending' = Deferred(p, [of |-> session[ws[p]], n |-> 0])
  /\ UNCHANGED <<phase, proxyVars, atRedis, crashed, sent, outVars>>

-----------------------------------------------------------------------------
Poll ==
  \/ BeginPoll \/ EndEvents \/ RunExecutables
  \/ \E c \in Conns : OnConnect(c) \/ OnData(c) \/ OnDisconnect(c)

Redis == \E p \in Proxies : RedisAnswers(p) \/ RedisBreaks(p) \/ RedisPublishes(p)

Next == ~crashed /\ (Poll \/ Redis)

Spec == Init /\ [][Next]_vars

-----------------------------------------------------------------------------
(* Properties.                                                             *)

\* Every variable has its type; in particular nothing is sent to a web socket that
\* is closed.
TypeOK ==
  /\ phase \in {"loop", "events", "deletes"}
  /\ session \in [Conns -> 0 .. MaxSessions]
  /\ cons \in [Conns -> Proxies \cup {NoProxy}]
  /\ ws \in [Proxies -> Conns \cup {NoConn}]
  /\ atRedis \in [Proxies -> Seq(Messages)]
  /\ pending \in Seq(Lambdas)
  /\ crashed \in BOOLEAN
  /\ begun \in 0 .. MaxSessions
  /\ sent \in [Sessions -> 0 .. MaxRequests]
  /\ shown \in Seq([to : Sessions \cup {NoConn}, msg : Messages])
  /\ answered \in [Sessions -> 0 .. MaxRequests]

\* The map, the proxies and the web sockets agree: each open web socket has a
\* proxy of its own that writes to it, and none is left of a closed one.
ConsMatchProxies ==
  /\ \A c \in Conns : cons[c] # NoProxy => c \in Open /\ ws[cons[c]] = c
  /\ \A p \in Live : cons[ws[p]] = p
  /\ \A c \in Open : cons[c] # NoProxy

\* A lambda of a deleted proxy exists only until the end of the poll that deleted
\* it, in which no web socket is opened any more: none ever meets a proxy that
\* was built in the same block.
StaleOnlyInPoll ==
  phase # "deletes" => \A i \in 1 .. Len(pending) : pending[i].proxy \in Live

\* What is on its way from Redis in a proxy belongs to the session the proxy
\* writes to.
OwnSession(p, m) == p \in Live => m.of = session[ws[p]]
MessagesKeptApart ==
  /\ \A p \in Proxies : \A i \in 1 .. Len(atRedis[p]) :
       OwnSession(p, atRedis[p][i])
  /\ \A i \in 1 .. Len(pending) : OwnSession(pending[i].proxy, pending[i].msg)

\* A browser is only ever sent what Redis answered to itself, however web sockets
\* and proxies come, go and reuse each other's memory.
RepliesToOwner ==
  \A i \in 1 .. Len(shown) : shown[i].to \in {shown[i].msg.of, NoConn}

\* A session's answers are sent in the order of its requests, each at most once.
AnswersInOrder ==
  [][RunExecutables =>
       \A s \in Sessions : \A i \in Answers(s, shown') :
         /\ shown'[i].msg.n > answered[s]
         /\ \A j \in Answers(s, shown') : j < i => shown'[j].msg.n < shown'[i].msg.n]_vars
=============================================================================
