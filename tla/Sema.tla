-------------------------------- MODULE Sema --------------------------------
(***************************************************************************)
(* The semaphore with which the firmware and its log guard what several    *)
(* threads use: examples/espUdp/components/limero/Sema.cpp.  It has an     *)
(* implementation per platform:                                            *)
(*   "linux"  an unnamed sem_t                                             *)
(*   "mac"    a named sem_t, which outlives the process                    *)
(*   "esp32"  a binary semaphore of FreeRTOS                               *)
(* In all of them wait() goes on when the wait failed (a signal, or the    *)
(* time-out of 100000 ticks) and both functions keep a counter of their    *)
(* own, which the threads update without protection.                       *)
(***************************************************************************)
EXTENDS Integers, FiniteSets

CONSTANTS
  Threads,      \* the threads that use the semaphore
  CounterSize,  \* 2^32, the values of a uint32_t
  MaxFailures,  \* bound: waits that fail
  MaxCrashes    \* bound: crashes of the process

ASSUME SemaAssumption ==
  /\ IsFiniteSet(Threads)
  /\ CounterSize \in Nat \ {0, 1}
  /\ MaxFailures \in Nat /\ MaxCrashes \in Nat

VARIABLES
  kind,      \* the platform
  sem,       \* the value of the semaphore
  counter,   \* the member counter
  at,        \* at[t]: what thread t does next
  loaded,    \* loaded[t]: the counter as t read it
  failures,  \* history: waits that failed and went on
  alarm,     \* history: a check of the counter found it wrong
  crashes    \* crashes of the process

semaVars == <<kind, sem, counter, at, loaded, failures, alarm, crashes>>

Kinds == {"linux", "mac", "esp32"}

-----------------------------------------------------------------------------
(* The program text of wait() and release(), a step for each access to     *)
(* what the threads share.                                                 *)

Places ==
  {"outside", "load++", "store++", "check++", "inside", "load--", "store--",
   "check--", "give"}

\* A mistake: the semaphore is given before the counter is updated.
GiveFirst ==
  [p \in Places |->
     CASE p = "outside" -> "load++"
       [] p = "load++"  -> "store++"
       [] p = "store++" -> "check++"
       [] p = "check++" -> "inside"
       [] p = "inside"  -> "give"
       [] p = "give"    -> "load--"
       [] p = "load--"  -> "store--"
       [] p = "store--" -> "check--"
       [] p = "check--" -> "outside"]

NextPlace ==
  [p \in Places |->
     CASE p = "outside" -> "load++"
       [] p = "load++"  -> "store++"
       [] p = "store++" -> "check++"
       [] p = "check++" -> "inside"
       [] p = "inside"  -> "load--"
       [] p = "load--"  -> "store--"
       [] p = "store--" -> "check--"
       [] p = "check--" -> "give"
       [] p = "give"    -> "outside"]

Goes(t) == at' = [at EXCEPT ![t] = NextPlace[@]]

\* The threads between the return of the take and the call of the give.
Holders == {t \in Threads : at[t] # "outside"}

-----------------------------------------------------------------------------
SemaInit ==
  /\ kind \in Kinds
  /\ sem = 1
  /\ counter = 0
  /\ at = [t \in Threads |-> "outside"]
  /\ loaded = [t \in Threads |-> 0]
  /\ failures = 0
  /\ alarm = FALSE
  /\ crashes = 0

\* Mistakes: a take that does not wait, as that of the Arduino version, and a give
\* without the bound of a binary semaphore.
NoWait == TRUE
GivenUnbounded == sem + 1

Available == sem > 0
Given == IF kind = "esp32" THEN 1 ELSE sem + 1

\* sem_wait or xSemaphoreTake
Take(t) ==
  /\ at[t] = "outside"
  /\ Available
  /\ sem' = sem - 1
  /\ Goes(t)
  /\ UNCHANGED <<kind, counter, loaded, failures, alarm, crashes>>

\* It is interrupted or times out while it waits; the thread goes on.
TakeFails(t) ==
  /\ at[t] = "outside"
  /\ sem = 0
  /\ failures < MaxFailures
  /\ failures' = failures + 1
  /\ Goes(t)
  /\ UNCHANGED <<kind, sem, counter, loaded, alarm, crashes>>

Load(t) ==
  /\ at[t] \in {"load++", "load--"}
  /\ loaded' = [loaded EXCEPT ![t] = counter]
  /\ Goes(t)
  /\ UNCHANGED <<kind, sem, counter, failures, alarm, crashes>>

Store(t) ==
  /\ \/ at[t] = "store++" /\ counter' = (loaded[t] + 1) % CounterSize
     \/ at[t] = "store--" /\ counter' = (loaded[t] - 1) % CounterSize
  /\ Goes(t)
  /\ UNCHANGED <<kind, sem, loaded, failures, alarm, crashes>>

\* On a Mac nothing is checked.
Check(t) ==
  /\ at[t] \in {"check++", "check--"}
  /\ alarm' = \/ alarm
              \/ kind # "mac" /\ counter # (IF at[t] = "check++" THEN 1 ELSE 0)
  /\ Goes(t)
  /\ UNCHANGED <<kind, sem, counter, loaded, failures, crashes>>

\* The thread has done what the semaphore guards, and calls release().
Release(t) ==
  /\ at[t] = "inside"
  /\ Goes(t)
  /\ UNCHANGED <<kind, sem, counter, loaded, failures, alarm, crashes>>

\* sem_post or xSemaphoreGive, which fails on a binary semaphore that is given.
Give(t) ==
  /\ at[t] = "give"
  /\ sem' = Given
  /\ Goes(t)
  /\ UNCHANGED <<kind, counter, loaded, failures, alarm, crashes>>

\* The process starts again.  sem_open finds the named semaphore as it was left.
SemaCrash ==
  /\ crashes < MaxCrashes
  /\ crashes' = crashes + 1
  /\ sem' = IF kind = "mac" THEN sem ELSE 1
  /\ failures' = IF kind = "mac" THEN failures ELSE 0
  /\ alarm' = FALSE
  /\ counter' = 0
  /\ at' = [t \in Threads |-> "outside"]
  /\ loaded' = [t \in Threads |-> 0]
  /\ UNCHANGED kind

SemaNext ==
  \/ \E t \in Threads :
       \/ Take(t) \/ TakeFails(t) \/ Load(t) \/ Store(t) \/ Check(t)
       \/ Release(t) \/ Give(t)
  \/ SemaCrash

SemaSpec == SemaInit /\ [][SemaNext]_semaVars

-----------------------------------------------------------------------------
(* Properties.                                                             *)

\* Every variable has its type, and a binary semaphore is 0 or 1.
SemaTypeOK ==
  /\ kind \in Kinds
  /\ sem \in Nat /\ (kind = "esp32" => sem <= 1)
  /\ counter \in 0 .. CounterSize - 1
  /\ at \in [Threads -> Places]
  /\ loaded \in [Threads -> 0 .. CounterSize - 1]
  /\ failures \in 0 .. MaxFailures /\ crashes \in 0 .. MaxCrashes
  /\ alarm \in BOOLEAN

\* As long as no wait has failed, one thread at a time is between wait() and
\* release(), over any number of crashes.
Exclusion == failures = 0 => \A t, u \in Holders : t = u

\* The unprotected counter is nevertheless exact then: no thread sees another
\* value than 1 in wait() and 0 in release(), so the messages about the counter
\* are only ever printed after a wait has failed.
NoFalseAlarm == failures = 0 => ~alarm

\* What failures cost.  A failed wait gives a permit nobody took: a counting
\* semaphore keeps it for good, so from then on two threads may be inside, again
\* and again; a binary one forgets it as soon as nobody is inside.  Permits are
\* lost only by a crash on a Mac, where the semaphore stays taken.
Permits ==
  /\ Cardinality(Holders) + sem <= 1 + failures
  /\ (kind # "esp32" /\ (kind = "mac" => crashes = 0))
       => Cardinality(Holders) + sem = 1 + failures
  /\ kind = "esp32" /\ Holders = {} => sem = 1
=============================================================================
