----------------------------- MODULE Telemetry ------------------------------
(***************************************************************************)
(* What the spine thread of the firmware publishes:                        *)
(* examples/espUdp/main/main.cpp with limero/Poller.h, as5600/As5600.cpp   *)
(* and I2C_ESP32 of limero/Hardware.cpp.                                   *)
(*                                                                         *)
(* Two timers share the thread.  The poller's asks one source in turn, as  *)
(* long as the device is connected; the ticker's reads the angle of a      *)
(* sensor in two transactions on the I2C bus, each of which blocks the     *)
(* thread for up to a second when the sensor does not answer.              *)
(***************************************************************************)
EXTENDS Integers

CONSTANTS
  NumSources, \* what "poller >> ..." added: 5
  IdxSize,    \* 2^32, of _idx
  RawAngles   \* values of the sensor's 12 bit register

ASSUME TelemetryAssumption ==
  /\ NumSources \in Nat
  /\ IdxSize \in Nat \ {0}
  /\ RawAngles \subseteq 0 .. 4095

VARIABLES
  setUp,           \* how far app_main is: "sensor", "threads" or "done"
  busDriver,       \* i2c_driver_install has succeeded
  pollerConnected, \* the poller's connected
  idx,             \* the poller's _idx
  asked,           \* the last source the poller asked; NumSources before the first
  transaction,     \* what the ticker's handler waits for: "none", "write" or "read"
  angle            \* what it published last

telemetryVars ==
  <<setUp, busDriver, pollerConnected, idx, asked, transaction, angle>>

-----------------------------------------------------------------------------
\* A number of 4096ths, as an int: cut off towards 0.
Truncated(n) == IF n >= 0 THEN n \div 4096 ELSE -((-n) \div 4096)

\* A mistake: a register of 11 bits.
DegreesWide(raw) == Truncated(2 * 360 * raw - 180 * 4096)

Degrees(raw) == Truncated(360 * raw - 180 * 4096)

\* A mistake: _idx is advanced before the test.
NextIdxAlways == (idx + 1) % IdxSize

\* _idx after a turn of the poller's timer.
NextIdx == IF NumSources > 0 /\ pollerConnected THEN (idx + 1) % IdxSize ELSE idx

-----------------------------------------------------------------------------
TelemetryInit ==
  /\ setUp = "sensor" /\ busDriver = FALSE
  /\ pollerConnected = FALSE /\ idx = 0 /\ asked = NumSources
  /\ transaction = "none" /\ angle = 0

\* I2C_ESP32::init: the driver is installed, or it is not.
InitBus == busDriver' \in BOOLEAN

\* As5600::init; app_main does not look at what it returns.
InitSensor ==
  /\ setUp = "sensor" /\ setUp' = "threads"
  /\ InitBus
  /\ UNCHANGED <<pollerConnected, idx, asked, transaction, angle>>

\* spineThread.start()
StartThreads ==
  /\ setUp = "threads" /\ setUp' = "done"
  /\ UNCHANGED <<busDriver, pollerConnected, idx, asked, transaction, angle>>

\* spine.connected, which the worker thread sets at any time.
SpineConnects ==
  /\ setUp = "done"
  /\ pollerConnected' = ~pollerConnected
  /\ UNCHANGED <<setUp, busDriver, idx, asked, transaction, angle>>

\* The spine thread is between two handlers.
Idle == setUp = "done" /\ transaction = "none"

\* The poller's timer.
Poll ==
  /\ Idle
  /\ asked' = IF NumSources > 0 /\ pollerConnected THEN idx % NumSources ELSE asked
  /\ idx' = NextIdx
  /\ UNCHANGED <<setUp, busDriver, pollerConnected, transaction, angle>>

\* The ticker's timer: angle() writes the register's number.
StartReading ==
  /\ Idle
  /\ transaction' = "write"
  /\ UNCHANGED <<setUp, busDriver, pollerConnected, idx, asked, angle>>

Publish(raw) ==
  /\ transaction' = "none"
  /\ angle' = Degrees(raw)
  /\ UNCHANGED <<setUp, busDriver, pollerConnected, idx, asked>>

\* i2c_master_cmd_begin returns, or gives up after 1000 ms; without a busDriver it fails.
Written ==
  /\ transaction = "write" /\ busDriver
  /\ transaction' = "read"
  /\ UNCHANGED <<setUp, busDriver, pollerConnected, idx, asked, angle>>

AngleRead ==
  /\ transaction = "read" /\ busDriver
  /\ \E raw \in RawAngles : Publish(raw)

\* readReg16 gives 0 when it fails, and that is published.
ReadingFails == transaction # "none" /\ Publish(0)

Ticker == StartReading \/ Written \/ AngleRead \/ ReadingFails

TelemetryNext ==
  InitSensor \/ StartThreads \/ SpineConnects \/ Poll \/ Ticker

TelemetrySpec == TelemetryInit /\ [][TelemetryNext]_telemetryVars

-----------------------------------------------------------------------------
(* Properties.                                                             *)

TelemetryTypeOK ==
  /\ setUp \in {"sensor", "threads", "done"}
  /\ busDriver \in BOOLEAN /\ pollerConnected \in BOOLEAN
  /\ idx \in 0 .. IdxSize - 1
  /\ asked \in 0 .. NumSources
  /\ transaction \in {"none", "write", "read"}
  /\ angle \in -180 .. 179

\* Whatever pattern the connection drops and returns in and whatever the sensor does
\* meanwhile, the sources are asked in turn, so that none is left out: a poll that
\* finds the device disconnected is no turn.  Only where _idx wraps around the turns
\* begin again with the first source.
SourcesInTurn ==
  [][Poll /\ pollerConnected =>
       asked' = IF idx = 0 THEN 0 ELSE (asked + 1) % NumSources]_telemetryVars
=============================================================================
