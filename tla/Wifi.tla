-------------------------------- MODULE Wifi --------------------------------
(***************************************************************************)
(* The WiFi station of the firmware: the event handlers of                 *)
(* examples/espUdp/components/spine/Wifi.cpp over the driver they call.    *)
(*                                                                         *)
(* The driver scans, connects or is associated; what comes of it is posted *)
(* as an event, and one task runs the handlers of the events in order.     *)
(* After a disconnection the address survives for a while: LOST_IP is only *)
(* posted when the driver's timer of 120 s runs out before a new lease.    *)
(***************************************************************************)
EXTENDS Integers, Sequences, FiniteSets

CONSTANTS
  APs,       \* access points
  NoAP,      \* no access point configured yet
  Rssi,      \* Rssi[ap]: its signal strength
  Prefixed,  \* those whose ssid begins with WIFI_SSID
  MaxDrops   \* bound: access points that come or go and associations that end

ASSUME WifiAssumption ==
  /\ NoAP \notin APs /\ Prefixed \subseteq APs
  /\ Rssi \in [APs -> -199 .. 0]
  /\ MaxDrops \in Nat

VARIABLES
  driver,     \* "off", "idle", "scanning", "connecting" or "associated"
  inRange,    \* the access points the driver would find
  found,      \* those the last scan found
  ap,         \* the access point of the driver's configuration
  lease,      \* "none", "valid", or "lost" while the timer runs
  events,     \* the event queue
  connected,  \* wifi.connected
  drops       \* history: how often that was

wifiVars == <<driver, inRange, found, ap, lease, events, connected, drops>>

-----------------------------------------------------------------------------
(* The driver.                                                             *)

WifiInit ==
  /\ driver = "off"
  /\ inRange \in SUBSET APs
  /\ found = {} /\ ap = NoAP
  /\ lease = "none"
  /\ events = << >>
  /\ connected = FALSE
  /\ drops = 0

Post(e) == events' = Append(events, e)

\* esp_wifi_start
StationStarts ==
  /\ driver = "off"
  /\ driver' = "idle"
  /\ Post("STA_START")
  /\ UNCHANGED <<inRange, found, ap, lease, connected, drops>>

\* An access point comes or goes.  The driver notices one that goes when it is
\* associated with it.
RangeChanges(a) ==
  /\ drops < MaxDrops
  /\ drops' = drops + 1
  /\ inRange' = IF a \in inRange THEN inRange \ {a} ELSE inRange \cup {a}
  /\ UNCHANGED <<driver, found, ap, lease, events, connected>>

ScanEnds ==
  /\ driver = "scanning"
  /\ driver' = "idle"
  /\ found' = inRange
  /\ Post("SCAN_DONE")
  /\ UNCHANGED <<inRange, ap, lease, connected, drops>>

Associates ==
  /\ driver = "connecting"
  /\ ap \in inRange
  /\ driver' = "associated"
  /\ Post("STA_CONNECTED")
  /\ UNCHANGED <<inRange, found, ap, lease, connected, drops>>

\* An attempt fails, or an association is lost; the address is kept for 120 s.
AttemptFails ==
  /\ driver = "connecting"
  /\ driver' = "idle"
  /\ Post("STA_DISCONNECTED")
  /\ UNCHANGED <<inRange, found, ap, lease, connected, drops>>
Disassociates ==
  /\ driver = "associated"
  /\ \/ ap \notin inRange /\ UNCHANGED drops
     \/ drops < MaxDrops /\ drops' = drops + 1
  /\ driver' = "idle"
  /\ lease' = IF lease = "valid" THEN "lost" ELSE lease
  /\ Post("STA_DISCONNECTED")
  /\ UNCHANGED <<inRange, found, ap, connected>>

\* DHCP gives an address, perhaps the same as before.
Leases ==
  /\ driver = "associated"
  /\ lease # "valid"
  /\ lease' = "valid"
  /\ Post("STA_GOT_IP")
  /\ UNCHANGED <<driver, inRange, found, ap, connected, drops>>

\* The 120 s are over.
LeaseEnds ==
  /\ lease = "lost"
  /\ lease' = "none"
  /\ Post("STA_LOST_IP")
  /\ UNCHANGED <<driver, inRange, found, ap, connected, drops>>

-----------------------------------------------------------------------------
(* The handlers.                                                           *)

Handle(e) == events # << >> /\ Head(events) = e /\ events' = Tail(events)

\* startScan and esp_wifi_connect: the driver refuses while it does something else.
StartScan == driver' = IF driver = "idle" THEN "scanning" ELSE driver
Connect   == driver' = IF driver = "idle" THEN "connecting" ELSE driver

\* scanDoneHandler: the strongest of the access points with the prefix.
Strongest ==
  {a \in found \cap Prefixed : \A b \in found \cap Prefixed : Rssi[b] <= Rssi[a]}

\* A mistake: a scan without result is not repeated.
OnScanDoneOnce ==
  /\ Handle("SCAN_DONE")
  /\ \/ \E a \in Strongest : ap' = a /\ Connect
     \/ Strongest = {} /\ UNCHANGED <<driver, ap>>
  /\ UNCHANGED <<inRange, found, lease, connected, drops>>

OnStaStart ==
  /\ Handle("STA_START")
  /\ StartScan
  /\ UNCHANGED <<inRange, found, ap, lease, connected, drops>>

OnScanDone ==
  /\ Handle("SCAN_DONE")
  /\ \/ \E a \in Strongest : ap' = a /\ Connect
     \/ Strongest = {} /\ StartScan /\ UNCHANGED ap
  /\ UNCHANGED <<inRange, found, lease, connected, drops>>

OnStaConnected ==
  /\ Handle("STA_CONNECTED")
  /\ UNCHANGED <<driver, inRange, found, ap, lease, connected, drops>>

\* A mistake: nothing is done about a disconnection.
IgnoreDisconnected ==
  /\ Handle("STA_DISCONNECTED")
  /\ UNCHANGED <<driver, inRange, found, ap, lease, connected, drops>>

OnStaDisconnected ==
  /\ Handle("STA_DISCONNECTED")
  /\ Connect
  /\ UNCHANGED <<inRange, found, ap, lease, connected, drops>>

OnGotIp ==
  /\ Handle("STA_GOT_IP")
  /\ connected' = TRUE
  /\ UNCHANGED <<driver, inRange, found, ap, lease, drops>>

OnLostIp ==
  /\ Handle("STA_LOST_IP")
  /\ connected' = FALSE
  /\ UNCHANGED <<driver, inRange, found, ap, lease, drops>>

DriverNext ==
  \/ StationStarts \/ ScanEnds \/ Associates \/ AttemptFails \/ Disassociates
  \/ Leases \/ LeaseEnds
  \/ \E a \in APs : RangeChanges(a)

WifiHandlers == OnStaStart \/ OnScanDone \/ OnStaConnected \/ OnStaDisconnected

-----------------------------------------------------------------------------
(* Properties.                                                             *)

WifiTypeOK ==
  /\ driver \in {"off", "idle", "scanning", "connecting", "associated"}
  /\ inRange \subseteq APs /\ found \subseteq APs /\ ap \in APs \cup {NoAP}
  /\ lease \in {"none", "valid", "lost"}
  /\ \A i \in 1 .. Len(events) :
       events[i] \in {"STA_START", "SCAN_DONE", "STA_CONNECTED",
                      "STA_DISCONNECTED", "STA_GOT_IP", "STA_LOST_IP"}
  /\ connected \in BOOLEAN /\ drops \in 0 .. MaxDrops

\* The events whose handlers make the driver do something.
Triggers ==
  {i \in 1 .. Len(events) : events[i] \in {"STA_START", "SCAN_DONE", "STA_DISCONNECTED"}}

\* The station is never stranded and never asked for two things at once: either
\* the driver is at work, or exactly one event is on its way whose handler makes
\* it work again.
OneActivity ==
  Cardinality(Triggers) = IF driver = "idle" THEN 1 ELSE 0

\* Once started the station finds its way back: again and again it is associated, or
\* the access point it has chosen (before that, any with the prefix) is away.
Reassociates ==
  []<>(\/ driver \in {"off", "associated"}
       \/ IF ap = NoAP THEN inRange \cap Prefixed = {} ELSE ap \notin inRange)
=============================================================================
