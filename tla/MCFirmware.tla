----------------------------- MODULE MCFirmware -----------------------------
(***************************************************************************)
(* A small instance for TLC of the parts of the firmware of                *)
(* examples/espUdp that share no state: a semaphore, the serial link, the  *)
(* WiFi and UDP link, the distance sensor, and what the spine thread       *)
(* publishes.  No property of one depends on what the others do meanwhile, *)
(* and it is enough to let one of them run alone in each behaviour.        *)
(***************************************************************************)
EXTENDS Sema, SerialLink, UdpLink, UltraSonic, Telemetry

CONSTANTS home, attic, cafe

VARIABLE part

MCBodies == {<<125>>, <<94, 126>>}
MCRssi == [a \in APs |-> IF a = cafe THEN -30 ELSE IF a = home THEN -50 ELSE -70]
MCTimes == {0, 1, 6, 29, 57, 58, 100, 511}
MCRawAngles == {0, 1, 2048, 4095}

firmwareVars ==
  <<semaVars, serialLinkVars, udpLinkVars, ultraSonicVars, telemetryVars, part>>

MCInit ==
  /\ SemaInit /\ SerialLinkInit /\ UdpLinkInit /\ UltraSonicInit /\ TelemetryInit
  /\ part \in {"sema", "serial", "udp", "sensor", "telemetry"}
  \* what a part that does not run may begin with makes no difference
  /\ part # "sema" => kind = "linux"
  /\ part # "udp" => inRange = {}
  /\ part # "sensor" => delta = 0

MCNext ==
  /\ UNCHANGED part
  /\ \/ /\ part = "sema" /\ SemaNext
        /\ UNCHANGED <<serialLinkVars, udpLinkVars, ultraSonicVars, telemetryVars>>
     \/ /\ part = "serial" /\ SerialLinkNext
        /\ UNCHANGED <<semaVars, udpLinkVars, ultraSonicVars, telemetryVars>>
     \/ /\ part = "udp" /\ UdpLinkNext
        /\ UNCHANGED <<semaVars, serialLinkVars, ultraSonicVars, telemetryVars>>
     \/ /\ part = "sensor" /\ UltraSonicNext
        /\ UNCHANGED <<semaVars, serialLinkVars, udpLinkVars, telemetryVars>>
     \/ /\ part = "telemetry" /\ TelemetryNext
        /\ UNCHANGED <<semaVars, serialLinkVars, udpLinkVars, ultraSonicVars>>

\* In the initial state of a part none of its fair actions is enabled: a part that
\* does not run owes none.
MCSpec ==
  MCInit /\ [][MCNext]_firmwareVars /\ SerialLinkFairness /\ UdpLinkFairness

FirmwareTypeOK ==
  /\ SemaTypeOK
  /\ SerialLinkTypeOK
  /\ WifiTypeOK /\ UdpFrameTypeOK
  /\ UltraSonicTypeOK
  /\ TelemetryTypeOK
=============================================================================
