------------------------------ MODULE UdpFrame ------------------------------
(***************************************************************************)
(* The UDP link of the firmware: examples/espUdp/components/spine/         *)
(* UdpFrame.cpp.  Three threads share _socket without protection: the task *)
(* of the WiFi events opens and closes it when online changes, the receiver*)
(* thread waits on it, and the worker thread sends through it.             *)
(*                                                                         *)
(* A datagram of the gateway goes to the port the last request came from:  *)
(* the agreed one, 9999, or one the stack chose for a socket that could not*)
(* be bound.                                                               *)
(***************************************************************************)
EXTENDS Integers, FiniteSets

CONSTANTS
  MaxSockets,  \* sockets the stack has
  MaxSends     \* bound: requests sent

ASSUME UdpFrameAssumption == MaxSockets \in Nat \ {0} /\ MaxSends \in Nat

Sockets == 1 .. MaxSockets
NoSocket == -1

VARIABLES
  online,
  step,      \* what the event task does: "idle", "socket", "bind" or "close"
  socket,    \* _socket; 0, which is no socket of the stack, at first
  open,      \* sockets that are open
  bound,     \* the one that has port 9999, or NoSocket
  arrived,   \* sockets with a datagram to be read
  peer,      \* the socket to whose port the gateway answers, NoSocket for none
  receiver,  \* "timer", "loop" at the head of the while, or "recvfrom"
  waits,     \* the socket it waits on
  sends,     \* requests sent
  reopened   \* history: online was set while it was set

udpFrameVars == <<online, step, socket, open, bound, arrived, peer, receiver,
                  waits, sends, reopened>>
eventTask == <<online, step, socket, open, bound, reopened>>
gateway   == <<arrived, peer, sends>>
thread    == <<receiver, waits>>

UdpFrameInit ==
  /\ online = FALSE /\ step = "idle" /\ socket = 0
  /\ open = {} /\ bound = NoSocket
  /\ arrived = {} /\ peer = NoSocket
  /\ receiver = "timer" /\ waits = NoSocket
  /\ sends = 0 /\ reopened = FALSE

-----------------------------------------------------------------------------
(* The event task: the subscriber of online runs after the value is set.   *)

SetOnline(b) ==
  /\ online' = b
  /\ reopened' = (reopened \/ (b /\ online))
  /\ step' = IF b THEN "socket" ELSE "close"
  /\ UNCHANGED <<socket, open, bound, gateway, thread>>

\* createSocket: the stack gives the lowest free socket, if there is one.
CreateSocket ==
  /\ step = "socket"
  /\ IF open = Sockets
     THEN socket' = NoSocket /\ step' = "idle" /\ UNCHANGED open
     ELSE /\ socket' = CHOOSE s \in Sockets \ open : \A r \in Sockets \ open : s <= r
          /\ open' = open \cup {socket'}
          /\ step' = "bind"
  /\ UNCHANGED <<online, bound, reopened, gateway, thread>>

\* createSocket: bind fails while another socket has the port.
BindSocket ==
  /\ step = "bind"
  /\ bound' = IF bound = NoSocket THEN socket ELSE bound
  /\ step' = "idle"
  /\ UNCHANGED <<online, socket, open, reopened, gateway, thread>>

\* A mistake: the socket is only shut down.
Shutdown == open

\* close(_socket)
Closed == open \ {socket}

\* closeSocket: what was not read is gone, and a thread that waits is woken with an
\* error.  _socket keeps its value.
CloseSocket ==
  /\ step = "close"
  /\ open' = Closed
  /\ bound' = IF bound = socket /\ socket \notin open' THEN NoSocket ELSE bound
  /\ arrived' = arrived \cap open'
  /\ peer' = IF peer \in open' THEN peer ELSE NoSocket
  /\ IF receiver = "recvfrom" /\ waits \notin open'
     THEN receiver' = "timer" /\ waits' = NoSocket
     ELSE UNCHANGED thread
  /\ step' = "idle"
  /\ UNCHANGED <<online, socket, sends, reopened>>

-----------------------------------------------------------------------------
(* The worker thread and the gateway.                                      *)

\* sendData: a request that is sent tells the gateway where to answer.
SendData ==
  /\ online
  /\ sends < MaxSends
  /\ sends' = sends + 1
  /\ peer' = IF socket \in open THEN socket ELSE peer
  /\ UNCHANGED <<arrived, eventTask, thread>>

\* A datagram of the gateway arrives.
DatagramArrives ==
  /\ peer # NoSocket
  /\ arrived' = arrived \cup {peer}
  /\ UNCHANGED <<peer, sends, eventTask, thread>>

-----------------------------------------------------------------------------
(* The receiver thread.                                                    *)

\* The timer of 1 s: if (online()) waitForData()
ReceiverTimer ==
  /\ receiver = "timer"
  /\ online
  /\ receiver' = "loop"
  /\ UNCHANGED <<waits, eventTask, gateway>>

\* The head of the while in waitForData, and the call of recvfrom.
WaitForData ==
  /\ receiver = "loop"
  /\ IF online /\ socket \in open
     THEN receiver' = "recvfrom" /\ waits' = socket
     ELSE receiver' = "timer" /\ UNCHANGED waits
  /\ UNCHANGED <<eventTask, gateway>>

\* recvfrom returns a datagram, which goes to rxdFrame.
RecvFrom ==
  /\ receiver = "recvfrom"
  /\ waits \in arrived
  /\ arrived' = arrived \ {waits}
  /\ receiver' = "loop" /\ waits' = NoSocket
  /\ UNCHANGED <<peer, sends, eventTask>>

EventTaskNext == CreateSocket \/ BindSocket \/ CloseSocket
ReceiverNext  == ReceiverTimer \/ WaitForData \/ RecvFrom
UdpFrameNext  == EventTaskNext \/ ReceiverNext \/ SendData \/ DatagramArrives

-----------------------------------------------------------------------------
(* Properties.                                                             *)

UdpFrameTypeOK ==
  /\ online \in BOOLEAN /\ reopened \in BOOLEAN
  /\ step \in {"idle", "socket", "bind", "close"}
  /\ socket \in Sockets \cup {0, NoSocket}
  /\ open \subseteq Sockets /\ arrived \subseteq open
  /\ bound \in open \cup {NoSocket} /\ peer \in open \cup {NoSocket}
  /\ receiver \in {"timer", "loop", "recvfrom"}
  /\ waits \in Sockets \cup {NoSocket}
  /\ sends \in 0 .. MaxSends

\* As long as online was not set twice in a row, however the threads interleave:
\* no socket leaks, the current one gets its port, and the receiver waits on it.
OneSocket ==
  ~reopened =>
    /\ open \subseteq {socket}
    /\ step = "idle" => open = IF online THEN {socket} ELSE {}
    /\ step = "idle" /\ online => bound = socket
    /\ receiver = "recvfrom" => waits = socket /\ socket \in open

\* README.MD:74 "UDP with each datagram a request and response": a receiver that
\* waits for the response to a request waits on the socket that sent it.
ResponseIsAwaited ==
  step = "idle" /\ online /\ receiver = "recvfrom" /\ peer = socket => waits = socket

\* A datagram for the current socket is read, unless the socket is closed first or
\* online was set twice in a row.
DatagramHeard ==
  socket \in arrived ~> socket \notin arrived \/ reopened
=============================================================================
