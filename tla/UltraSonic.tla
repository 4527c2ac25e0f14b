----------------------------- MODULE UltraSonic -----------------------------
(***************************************************************************)
(* The distance sensor of the firmware:                                    *)
(* examples/espUdp/components/ultrasonic/HCSR04.cpp and UltraSonic.cpp.    *)
(*                                                                         *)
(* A timer reads the time between the last trigger and its echo, filters   *)
(* it, averages it and triggers again.  The interrupt of the echo writes   *)
(* that time whenever it comes: before the timer, after it, between two    *)
(* reads of one turn, or not at all.                                       *)
(*                                                                         *)
(* The averages are int32_t, the time is a uint64_t, and their difference  *)
(* is taken and halved as a uint64_t.                                      *)
(***************************************************************************)
EXTENDS Integers

CONSTANTS
  Times,       \* values _delta_usec may have, whatever memory holds at first included
  MaxDistance, \* 4000, the millimeters of the filter
  IntSize,     \* 2^32
  LongSize     \* 2^64

ASSUME UltraSonicAssumption ==
  /\ Times \subseteq 0 .. LongSize - 1
  /\ MaxDistance \in Nat \ {0}
  /\ IntSize \in Nat \ {0} /\ LongSize \in Nat \ {0}
  /\ LongSize % (2 * IntSize) = 0 /\ IntSize % 2 = 0

VARIABLES
  delta,     \* _delta_usec
  turn,      \* what the timer's handler does next: "read", "average" or "trigger"
  mm,        \* its variable mm
  distance,
  delay

ultraSonicVars == <<delta, turn, mm, distance, delay>>

-----------------------------------------------------------------------------
\* A uint64_t, and the int32_t it is assigned to.
Unsigned(n) == n % LongSize
Signed(n) == LET w == n % IntSize IN IF 2 * w < IntSize THEN w ELSE w - IntSize

\* The quotient of an int by 2, towards 0.
Half(n) == IF n >= 0 THEN n \div 2 ELSE -((-n) \div 2)

\* getMillimeters: a time over 5.80
Millimeters(t) == (10 * t) \div 58

\* A mistake: the time is halved as a uint32_t.
HalvedShort(t, d) == Signed(d + ((t - d) % IntSize) \div 2)

NextDistance(m, d) == d + Half(m - d)
NextDelay(t, d)    == Signed(d + Unsigned(t - d) \div 2)

Plausible(m) == m < MaxDistance /\ m > 0

-----------------------------------------------------------------------------
UltraSonicInit ==
  /\ delta \in Times
  /\ turn = "read" /\ mm = 0
  /\ distance = 0 /\ delay = 0

\* onEcho, the interrupt
OnEcho ==
  /\ delta' \in Times
  /\ UNCHANGED <<turn, mm, distance, delay>>

\* on(TimerMsg): the first read of the time
ReadMillimeters ==
  /\ turn = "read"
  /\ mm' = Signed(Millimeters(delta))
  /\ turn' = "average"
  /\ UNCHANGED <<delta, distance, delay>>

\* on(TimerMsg): the averages; the time is read again
Average ==
  /\ turn = "average"
  /\ IF Plausible(mm)
     THEN distance' = NextDistance(mm, distance) /\ delay' = NextDelay(delta, delay)
     ELSE UNCHANGED <<distance, delay>>
  /\ turn' = "trigger"
  /\ UNCHANGED <<delta, mm>>

\* HCSR04::trigger
Trigger ==
  /\ turn = "trigger"
  /\ turn' = "read"
  /\ UNCHANGED <<delta, mm, distance, delay>>

UltraSonicNext == OnEcho \/ ReadMillimeters \/ Average \/ Trigger

UltraSonicSpec == UltraSonicInit /\ [][UltraSonicNext]_ultraSonicVars

-----------------------------------------------------------------------------
(* Properties.                                                             *)

UltraSonicTypeOK ==
  /\ delta \in Times
  /\ turn \in {"read", "average", "trigger"}
  /\ {mm, distance, delay} \subseteq -(IntSize \div 2) .. IntSize \div 2 - 1

Between(x, a, b) == (a <= x /\ x <= b) \/ (b <= x /\ x <= a)

\* Both averages move towards what was read and never past it: the difference of
\* the times may wrap around to almost 2^64, and the delay still comes out right.
AveragesApproach ==
  [][Average /\ Plausible(mm) =>
       /\ Between(distance', distance, mm)
       /\ delta < IntSize \div 2 => Between(delay', delay, delta)]_ultraSonicVars
=============================================================================
