------------------------------ MODULE UdpLink -------------------------------
(***************************************************************************)
(* The WiFi station and the UDP link as examples/espUdp/main/main.cpp joins*)
(* them: wifi.connected >> udpFrame.online.  The task of the WiFi events   *)
(* sets online inside the handler of an IP event, and handles no other     *)
(* event before the socket is open or closed.                              *)
(***************************************************************************)
EXTENDS Wifi, UdpFrame

udpLinkVars == <<wifiVars, udpFrameVars>>

UdpLinkInit == WifiInit /\ UdpFrameInit

IpHandlers ==
  \/ OnGotIp /\ SetOnline(TRUE)
  \/ OnLostIp /\ SetOnline(FALSE)

UdpLinkNext ==
  \/ (DriverNext \/ (step = "idle" /\ WifiHandlers)) /\ UNCHANGED udpFrameVars
  \/ step = "idle" /\ IpHandlers
  \/ UdpFrameNext /\ UNCHANGED wifiVars

\* The driver ends what it begins and an attempt to connect that may succeed does
\* so in the end; the event task and the receiver thread run.
UdpLinkFairness ==
  /\ WF_udpLinkVars((ScanEnds \/ AttemptFails) /\ UNCHANGED udpFrameVars)
  /\ SF_udpLinkVars(Associates /\ UNCHANGED udpFrameVars)
  /\ WF_udpLinkVars(step = "idle" /\ (IpHandlers \/ (WifiHandlers /\ UNCHANGED udpFrameVars)))
  /\ WF_udpLinkVars(EventTaskNext /\ UNCHANGED wifiVars)
  /\ WF_udpLinkVars(ReceiverNext /\ UNCHANGED wifiVars)

UdpLinkSpec == UdpLinkInit /\ [][UdpLinkNext]_udpLinkVars /\ UdpLinkFairness
=============================================================================
