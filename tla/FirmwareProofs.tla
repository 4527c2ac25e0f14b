--------------------------- MODULE FirmwareProofs ---------------------------
(***************************************************************************)
(* Proofs about the parts of the firmware, which share no state:           *)
(*   - the semaphores, for any finite number of threads, failed waits and  *)
(*     crashes, on each of the three platforms;                            *)
(*   - the WiFi and UDP link, for any access points and any number of      *)
(*     sockets the stack has, of drops and of requests;                    *)
(*   - the serial link, for any frames, losses, chunks, and any depth of   *)
(*     the buffers;                                                        *)
(*   - what the spine thread publishes, for any number of sources;         *)
(*   - the distance sensor, for any times and word sizes;                  *)
(*   - the types of all of them, as MCFirmware puts them together.         *)
(***************************************************************************)
EXTENDS MCFirmware, DataLemmas

-----------------------------------------------------------------------------
(* Semaphores.                                                             *)
(*                                                                         *)
(* Exclusion and NoFalseAlarm hold together: as long as no wait has failed *)
(* a thread inside has the only permit, so that between its two accesses   *)
(* of the counter no other thread comes, and the counter follows from the  *)
(* place of the thread that is inside (Exact).  Permits is inductive with  *)
(* the types alone.                                                        *)

\* The value of the counter while a thread is at a place.
CounterAt(p) ==
  IF p \in {"check++", "inside", "load--", "store--"} THEN 1 ELSE 0

\* At most one thread is inside, it has the permit, and the counter is what it
\* should be, also as that thread has read it.
Exact ==
  /\ \A t, u \in Holders : t = u
  /\ sem \in {0, 1}
  /\ Holders # {} => sem = 0
  /\ Holders = {} => counter = 0
  /\ \A t \in Holders : counter = CounterAt(at[t])
  /\ \A t \in Threads : at[t] \in {"store++", "store--"} => loaded[t] = counter
  /\ ~alarm

\* The inductive invariant.
SemaInv == SemaTypeOK /\ Permits /\ (failures = 0 => Exact)

-----------------------------------------------------------------------------
(* What a step does to the set of threads inside.                          *)

\* The program text is a cycle through its places.
LEMMA NextPlaceCycle ==
  /\ NextPlace \in [Places -> Places]
  /\ \A p \in Places : NextPlace[p] = "outside" <=> p = "give"
BY DEF NextPlace, Places

LEMMA HoldersGrow ==
  ASSUME SemaTypeOK, NEW t \in Threads, at[t] = "outside", Goes(t)
  PROVE  Holders' = Holders \cup {t} /\ t \notin Holders
BY NextPlaceCycle DEF SemaTypeOK, Goes, Holders, Places

LEMMA HoldersShrink ==
  ASSUME SemaTypeOK, NEW t \in Threads, at[t] = "give", Goes(t)
  PROVE  Holders' = Holders \ {t} /\ t \in Holders
BY NextPlaceCycle DEF SemaTypeOK, Goes, Holders, Places

LEMMA HoldersKeep ==
  ASSUME SemaTypeOK, NEW t \in Threads, at[t] \notin {"outside", "give"}, Goes(t)
  PROVE  Holders' = Holders /\ t \in Holders
BY NextPlaceCycle DEF SemaTypeOK, Goes, Holders, Places

LEMMA GoesType ==
  ASSUME SemaTypeOK, NEW t \in Threads, Goes(t)
  PROVE  at' \in [Threads -> Places]
BY NextPlaceCycle DEF SemaTypeOK, Goes

LEMMA HoldersFinite == IsFiniteSet(Holders) /\ Cardinality(Holders) \in Nat
<1>1. IsFiniteSet(Holders)
  BY SemaAssumption, FS_Subset DEF Holders
<1> QED
  BY <1>1, FS_CardinalityType

-----------------------------------------------------------------------------
(* Every variable keeps its type.                                          *)

LEMMA SemaInitType == SemaInit => SemaTypeOK
<1> SUFFICES ASSUME SemaInit
             PROVE  SemaTypeOK
  OBVIOUS
<1>1. at \in [Threads -> Places]
  BY DEF SemaInit, Places
<1>2. counter \in 0 .. CounterSize - 1 /\ loaded \in [Threads -> 0 .. CounterSize - 1]
  BY SemaAssumption DEF SemaInit
<1>3. failures \in 0 .. MaxFailures /\ crashes \in 0 .. MaxCrashes
  BY SemaAssumption DEF SemaInit
<1>4. kind \in Kinds /\ sem \in Nat /\ sem <= 1
  BY DEF SemaInit
<1>5. alarm \in BOOLEAN
  BY DEF SemaInit
<1> QED
  BY <1>1, <1>2, <1>3, <1>4, <1>5 DEF SemaTypeOK

LEMMA SemaTypeStep ==
  ASSUME SemaTypeOK, [SemaNext]_semaVars
  PROVE  SemaTypeOK'
<1> USE SemaAssumption
<1>1. ASSUME NEW t \in Threads, Take(t)
      PROVE  SemaTypeOK'
  BY <1>1, GoesType DEF Take, Available, SemaTypeOK
<1>2. ASSUME NEW t \in Threads, TakeFails(t)
      PROVE  SemaTypeOK'
  BY <1>2, GoesType DEF TakeFails, SemaTypeOK
<1>3. ASSUME NEW t \in Threads, Load(t)
      PROVE  SemaTypeOK'
  BY <1>3, GoesType DEF Load, SemaTypeOK
<1>4. ASSUME NEW t \in Threads, Store(t)
      PROVE  SemaTypeOK'
  <2>1. counter' \in 0 .. CounterSize - 1
    BY <1>4 DEF Store, SemaTypeOK
  <2> QED
    BY <1>4, <2>1, GoesType DEF Store, SemaTypeOK
<1>5. ASSUME NEW t \in Threads, Check(t)
      PROVE  SemaTypeOK'
  <2>1. alarm' \in BOOLEAN
    BY <1>5 DEF Check, SemaTypeOK
  <2> QED
    BY <1>5, <2>1, GoesType DEF Check, SemaTypeOK
<1>6. ASSUME NEW t \in Threads, Release(t)
      PROVE  SemaTypeOK'
  BY <1>6, GoesType DEF Release, SemaTypeOK
<1>7. ASSUME NEW t \in Threads, Give(t)
      PROVE  SemaTypeOK'
  BY <1>7, GoesType DEF Give, Given, SemaTypeOK
<1>8. CASE SemaCrash
  <2>1. at' \in [Threads -> Places]
    BY <1>8 DEF SemaCrash, Places
  <2>2. counter' \in 0 .. CounterSize - 1 /\ loaded' \in [Threads -> 0 .. CounterSize - 1]
    BY <1>8 DEF SemaCrash
  <2>3. failures' \in 0 .. MaxFailures /\ crashes' \in 0 .. MaxCrashes
    BY <1>8 DEF SemaCrash, SemaTypeOK
  <2>4. kind' \in Kinds /\ sem' \in Nat /\ (kind' = "esp32" => sem' <= 1)
    BY <1>8 DEF SemaCrash, SemaTypeOK
  <2>5. alarm' \in BOOLEAN
    BY <1>8 DEF SemaCrash
  <2> QED
    BY <2>1, <2>2, <2>3, <2>4, <2>5 DEF SemaTypeOK
<1>9. CASE UNCHANGED semaVars
  BY <1>9 DEF semaVars, SemaTypeOK
<1> QED
  BY <1>1, <1>2, <1>3, <1>4, <1>5, <1>6, <1>7, <1>8, <1>9 DEF SemaNext

-----------------------------------------------------------------------------
(* What failed waits cost.                                                 *)

LEMMA SemaInitPermits == SemaInit => Permits
<1> SUFFICES ASSUME SemaInit
             PROVE  Permits
  OBVIOUS
<1>1. Holders = {} /\ Cardinality(Holders) = 0
  BY FS_EmptySet DEF SemaInit, Holders
<1> QED
  BY <1>1 DEF SemaInit, Permits

LEMMA PermitsStep ==
  ASSUME SemaTypeOK, Permits, [SemaNext]_semaVars
  PROVE  Permits'
<1>1. Cardinality(Holders) \in Nat /\ sem \in Nat /\ failures \in Nat
  BY HoldersFinite, SemaAssumption DEF SemaTypeOK
<1>2. ASSUME NEW t \in Threads, at[t] = "outside", Goes(t)
      PROVE  Holders' # {} /\ Cardinality(Holders') = Cardinality(Holders) + 1
  BY <1>2, HoldersGrow, HoldersFinite, FS_AddElement
<1>3. ASSUME NEW t \in Threads, Take(t)
      PROVE  Permits'
  BY <1>1, <1>2, <1>3 DEF Take, Available, Permits
<1>4. ASSUME NEW t \in Threads, TakeFails(t)
      PROVE  Permits'
  BY <1>1, <1>2, <1>4 DEF TakeFails, Permits
<1>5. ASSUME NEW t \in Threads, Load(t) \/ Store(t) \/ Check(t) \/ Release(t)
      PROVE  Permits'
  <2>1. Holders' = Holders
    BY <1>5, HoldersKeep DEF Load, Store, Check, Release
  <2>2. UNCHANGED <<kind, sem, failures, crashes>>
    BY <1>5 DEF Load, Store, Check, Release
  <2> QED
    BY <2>1, <2>2 DEF Permits
<1>6. ASSUME NEW t \in Threads, Give(t)
      PROVE  Permits'
  <2>1. t \in Holders /\ Holders' = Holders \ {t}
    BY <1>6, HoldersShrink DEF Give
  <2>2. Cardinality(Holders') = Cardinality(Holders) - 1
    BY <2>1, HoldersFinite, FS_RemoveElement
  <2>3. /\ UNCHANGED <<kind, failures, crashes>>
        /\ sem' = IF kind = "esp32" THEN 1 ELSE sem + 1
    BY <1>6 DEF Give, Given
  <2> QED
    BY <1>1, <2>1, <2>2, <2>3 DEF Permits, SemaTypeOK
<1>7. CASE SemaCrash
  <2>1. Holders' = {} /\ Cardinality(Holders') = 0
    BY <1>7, FS_EmptySet DEF SemaCrash, Holders
  <2> QED
    BY <1>1, <1>7, <2>1 DEF SemaCrash, Permits, SemaTypeOK
<1>8. CASE UNCHANGED semaVars
  BY <1>8 DEF semaVars, Permits, Holders
<1> QED
  BY <1>3, <1>4, <1>5, <1>6, <1>7, <1>8 DEF SemaNext

-----------------------------------------------------------------------------
(* What holds until a wait fails.                                          *)

LEMMA SemaInitExact == SemaInit => Exact
<1> SUFFICES ASSUME SemaInit
             PROVE  Exact
  OBVIOUS
<1>1. Holders = {}
  BY DEF SemaInit, Holders
<1>2. ~alarm
  BY DEF SemaInit
<1> QED
  BY <1>1, <1>2 DEF SemaInit, Exact

\* The only thread inside goes on: it stays the only one, or it leaves.
LEMMA ExactTake ==
  ASSUME SemaTypeOK, Exact, NEW t \in Threads, Take(t)
  PROVE  Exact'
<1>1. Holders' = Holders \cup {t} /\ Holders = {} /\ sem = 1
  BY HoldersGrow DEF Take, Available, Exact
<1>2. at' = [at EXCEPT ![t] = "load++"] /\ at \in [Threads -> Places]
  BY DEF Take, Goes, NextPlace, Places, SemaTypeOK
<1>3. sem' = 0 /\ UNCHANGED <<counter, loaded, alarm>>
  BY <1>1 DEF Take
<1>4. \A u \in Holders' : u = t
  BY <1>1
<1>5. at'[t] = "load++" /\ \A u \in Threads \ {t} : at'[u] = at[u]
  BY <1>2
<1>6. ~alarm'
  BY <1>3 DEF Exact
<1> QED
  BY <1>1, <1>3, <1>4, <1>5, <1>6 DEF Exact, CounterAt

LEMMA ExactInside ==
  ASSUME SemaTypeOK, Exact, NEW t \in Threads,
         Load(t) \/ Store(t) \/ Check(t) \/ Release(t)
  PROVE  Exact'
<1>1. Holders' = Holders /\ t \in Holders /\ sem' = sem
  BY HoldersKeep DEF Load, Store, Check, Release
<1>2. at' = [at EXCEPT ![t] = NextPlace[at[t]]] /\ at \in [Threads -> Places]
  BY DEF Load, Store, Check, Release, Goes, SemaTypeOK
<1>3. at'[t] = NextPlace[at[t]] /\ \A u \in Threads \ {t} : at'[u] = at[u]
  BY <1>2
<1>4. \A u \in Threads \ {t} : at[u] = "outside"
  BY <1>1 DEF Exact, Holders
<1>5. counter = CounterAt(at[t])
  BY <1>1 DEF Exact
<1>6. /\ counter' = CounterAt(at'[t])
      /\ at'[t] \in {"store++", "store--"} => loaded'[t] = counter'
  <2>1. CASE Load(t)
    BY <1>3, <1>5, <2>1 DEF Load, NextPlace, Places, CounterAt, SemaTypeOK
  <2>2. CASE Store(t)
    <3>1. loaded[t] = counter
      BY <2>2 DEF Store, Exact
    <3>2. (0 + 1) % CounterSize = 1 /\ (1 - 1) % CounterSize = 0
      BY SemaAssumption
    <3> QED
      BY <1>3, <1>5, <2>2, <3>1, <3>2 DEF Store, NextPlace, Places, CounterAt
  <2>3. CASE Check(t)
    BY <1>3, <1>5, <2>3 DEF Check, NextPlace, Places, CounterAt
  <2>4. CASE Release(t)
    BY <1>3, <1>5, <2>4 DEF Release, NextPlace, Places, CounterAt
  <2> QED
    BY <2>1, <2>2, <2>3, <2>4
<1>7. ~alarm'
  <2>1. CASE Check(t)
    <3>1. counter = (IF at[t] = "check++" THEN 1 ELSE 0)
      BY <1>5, <2>1 DEF Check, CounterAt
    <3> QED
      BY <2>1, <3>1 DEF Check, Exact
  <2>2. CASE Load(t) \/ Store(t) \/ Release(t)
    BY <2>2 DEF Load, Store, Release, Exact
  <2> QED
    BY <2>1, <2>2
<1>8. \A u \in Holders' : u = t
  BY <1>1 DEF Exact
<1> QED
  BY <1>1, <1>3, <1>4, <1>6, <1>7, <1>8 DEF Exact

LEMMA ExactGive ==
  ASSUME SemaTypeOK, Exact, NEW t \in Threads, Give(t)
  PROVE  Exact'
<1>1. t \in Holders /\ Holders' = Holders \ {t}
  BY HoldersShrink DEF Give
<1>2. Holders' = {} /\ sem = 0
  BY <1>1 DEF Exact
<1>3. sem' = 1 /\ UNCHANGED <<counter, loaded, alarm>>
  BY <1>2 DEF Give, Given
<1>4. counter = 0
  BY <1>1 DEF Give, Exact, CounterAt
<1>5. \A u \in Threads : at'[u] = "outside"
  BY <1>2 DEF Holders
<1>6. ~alarm'
  BY <1>3 DEF Exact
<1> QED
  BY <1>2, <1>3, <1>4, <1>5, <1>6 DEF Exact

LEMMA ExactStep ==
  ASSUME SemaTypeOK, failures = 0 => Exact, [SemaNext]_semaVars
  PROVE  (failures = 0 => Exact)'
<1>1. ASSUME NEW t \in Threads,
             Take(t) \/ Load(t) \/ Store(t) \/ Check(t) \/ Release(t) \/ Give(t)
      PROVE  (failures = 0 => Exact)'
  <2>1. failures' = failures
    BY <1>1 DEF Take, Load, Store, Check, Release, Give
  <2> QED
    BY <1>1, <2>1, ExactTake, ExactInside, ExactGive
<1>2. ASSUME NEW t \in Threads, TakeFails(t)
      PROVE  (failures = 0 => Exact)'
  BY <1>2, SemaAssumption DEF TakeFails, SemaTypeOK
<1>3. CASE SemaCrash
  <2>1. Holders' = {} /\ \A t \in Threads : at'[t] = "outside"
    BY <1>3 DEF SemaCrash, Holders
  <2>2. ~alarm' /\ counter' = 0
    BY <1>3 DEF SemaCrash
  <2>3. failures' = 0 => sem' \in {0, 1}
    BY <1>3 DEF SemaCrash, Exact
  <2> QED
    BY <2>1, <2>2, <2>3 DEF Exact
<1>4. CASE UNCHANGED semaVars
  BY <1>4 DEF semaVars, Exact, Holders
<1> QED
  BY <1>1, <1>2, <1>3, <1>4 DEF SemaNext

-----------------------------------------------------------------------------
\* The inductive invariant behind the other theorems.
THEOREM SemaInvariance == SemaSpec => []SemaInv
<1>1. SemaInit => SemaInv
  BY SemaInitType, SemaInitPermits, SemaInitExact DEF SemaInv
<1>2. SemaInv /\ [SemaNext]_semaVars => SemaInv'
  BY SemaTypeStep, PermitsStep, ExactStep DEF SemaInv
<1> QED
  BY <1>1, <1>2, PTL DEF SemaSpec

\* As long as no wait has failed, one thread at a time is between wait() and
\* release() of Sema.cpp, over any number of crashes.
THEOREM SemaExclusion == SemaSpec => []Exclusion
<1>1. SemaInv => Exclusion
  BY DEF SemaInv, Exact, Exclusion
<1> QED
  BY <1>1, SemaInvariance, PTL

\* Until then the unprotected counter is exact, and no message about it printed.
THEOREM SemaNoFalseAlarm == SemaSpec => []NoFalseAlarm
<1>1. SemaInv => NoFalseAlarm
  BY DEF SemaInv, Exact, NoFalseAlarm
<1> QED
  BY <1>1, SemaInvariance, PTL

\* Each failed wait costs at most one permit too many: for good with a counting
\* semaphore, until nobody is inside with a binary one.
THEOREM SemaPermits == SemaSpec => []Permits
<1>1. SemaInv => Permits
  BY DEF SemaInv
<1> QED
  BY <1>1, SemaInvariance, PTL

-----------------------------------------------------------------------------
(* The WiFi and UDP link.                                                  *)
(*                                                                         *)
(* Activity says where the event is that makes the driver work again; each *)
(* handler that makes it work has taken that event from the queue, so the  *)
(* driver is idle and does not refuse.  Sound says, step by step of the    *)
(* event task, which sockets there are; it holds until online is set twice.*)

Working == {"STA_START", "SCAN_DONE", "STA_DISCONNECTED"}
Told    == {"STA_CONNECTED", "STA_GOT_IP", "STA_LOST_IP"}
Names   == Working \cup Told
DriverIdle == driver = "idle"

\* OneActivity, with the place of the event.
Activity ==
  /\ events \in Seq(Names)
  /\ DriverIdle => \E k \in 1 .. Len(events) : Triggers = {k}
  /\ ~DriverIdle => Triggers = {}

-----------------------------------------------------------------------------
(* What posting and handling an event do to Triggers.                      *)

LEMMA PostTriggers ==
  ASSUME events \in Seq(Names), NEW e \in Names, Post(e)
  PROVE  /\ events' \in Seq(Names)
         /\ Len(events') = Len(events) + 1
         /\ Triggers' = IF e \in Working THEN Triggers \cup {Len(events) + 1} ELSE Triggers
<1>1. /\ events' \in Seq(Names)
      /\ Len(events') = Len(events) + 1
      /\ Len(events) \in Nat
      /\ events'[Len(events) + 1] = e
      /\ \A i \in 1 .. Len(events) : events'[i] = events[i]
  BY AppendProperties DEF Post
<1>2. \A i : i \in Triggers' <=> i \in Triggers \/ (i = Len(events) + 1 /\ e \in Working)
  BY <1>1 DEF Triggers, Working
<1> QED
  BY <1>1, <1>2

LEMMA HandleTriggers ==
  ASSUME events \in Seq(Names), NEW e, Handle(e)
  PROVE  /\ events' \in Seq(Names)
         /\ Len(events) # 0 /\ Len(events') = Len(events) - 1
         /\ 1 \in Triggers <=> e \in Working
         /\ \A i \in 1 .. Len(events') : i \in Triggers' <=> i + 1 \in Triggers
<1>1. /\ events # << >> /\ events' = Tail(events)
      /\ events' \in Seq(Names)
      /\ Len(events) \in Nat /\ Len(events) # 0
      /\ Len(events') = Len(events) - 1
      /\ \A i \in 1 .. Len(events') : events'[i] = events[i + 1]
  BY HeadTailProperties, EmptySeq, LenProperties DEF Handle
<1>2. events[1] = e
  BY <1>1 DEF Handle
<1> QED
  BY <1>1, <1>2 DEF Triggers, Working

-----------------------------------------------------------------------------
(* Every step keeps Activity.                                              *)

\* The driver ends what it does and says so.
LEMMA ActivityPosted ==
  ASSUME Activity, ~DriverIdle, DriverIdle', NEW e \in Working, Post(e)
  PROVE  Activity'
<1>1. e \in Names /\ Triggers = {} /\ Len(events) \in Nat
  BY LenProperties DEF Names, Activity
<1>2. /\ events' \in Seq(Names)
      /\ Triggers' = {Len(events) + 1}
      /\ Len(events') = Len(events) + 1
  BY <1>1, PostTriggers DEF Activity
<1> QED
  BY <1>1, <1>2 DEF Activity

\* The other events, and the steps that change neither the queue nor what it does.
LEMMA ActivityOther ==
  ASSUME Activity, DriverIdle <=> DriverIdle', NEW e \in Told, Post(e)
  PROVE  Activity'
<1>1. e \in Names /\ e \notin Working /\ Len(events) \in Nat
  BY LenProperties DEF Names, Told, Working, Activity
<1>2. /\ Triggers' = Triggers /\ events' \in Seq(Names)
      /\ Len(events') = Len(events) + 1
  BY <1>1, PostTriggers DEF Activity
<1> QED
  BY <1>1, <1>2 DEF Activity

\* A handler that makes the driver work.
LEMMA ActivityWorks ==
  ASSUME Activity, NEW e \in Working, Handle(e), DriverIdle => ~DriverIdle', ~DriverIdle => driver' = driver
  PROVE  Activity'
<1>1. events' \in Seq(Names) /\ 1 \in Triggers
  BY HandleTriggers DEF Activity
<1>2. DriverIdle /\ Triggers = {1}
  BY <1>1 DEF Activity
<1>3. Triggers' = {}
  <2>1. Len(events') \in Nat
    BY <1>1, LenProperties
  <2>2. \A i \in 1 .. Len(events') : i \notin Triggers'
    BY <1>2, <2>1, HandleTriggers DEF Activity
  <2> QED
    BY <2>2 DEF Triggers
<1> QED
  BY <1>1, <1>2, <1>3 DEF Activity

\* A handler that does not.
LEMMA ActivityListens ==
  ASSUME Activity, NEW e \in Told, Handle(e), DriverIdle <=> DriverIdle'
  PROVE  Activity'
<1>1. /\ events' \in Seq(Names) /\ 1 \notin Triggers
      /\ Len(events') = Len(events) - 1
      /\ \A i \in 1 .. Len(events') : i \in Triggers' <=> i + 1 \in Triggers
      /\ Len(events) \in Nat /\ Len(events') \in Nat
  BY HandleTriggers, LenProperties DEF Activity, Told, Working
<1>2. Triggers \subseteq 1 .. Len(events) /\ Triggers' \subseteq 1 .. Len(events')
  BY DEF Triggers
<1>3. ASSUME NEW k \in 1 .. Len(events), Triggers = {k}
      PROVE  k - 1 \in 1 .. Len(events') /\ Triggers' = {k - 1}
  <2>1. k # 1 /\ k - 1 \in 1 .. Len(events')
    BY <1>1, <1>3
  <2>2. \A i \in 1 .. Len(events') : i \in Triggers' <=> i + 1 = k
    BY <1>1, <1>3
  <2>3. \A i \in 1 .. Len(events') : i + 1 = k <=> i = k - 1
    BY <1>1
  <2> QED
    BY <1>2, <2>1, <2>2, <2>3
<1>4. Triggers = {} => Triggers' = {}
  BY <1>1, <1>2
<1> QED
  BY <1>1, <1>3, <1>4 DEF Activity

LEMMA ActivityStep ==
  ASSUME Activity, [UdpLinkNext]_udpLinkVars
  PROVE  Activity'
<1>1. CASE StationStarts \/ ScanEnds \/ AttemptFails \/ Disassociates
  BY <1>1, ActivityPosted
  DEF StationStarts, ScanEnds, AttemptFails, Disassociates, DriverIdle, Working
<1>2. CASE Associates \/ Leases \/ LeaseEnds
  BY <1>2, ActivityOther DEF Associates, Leases, LeaseEnds, DriverIdle, Told
<1>3. CASE UNCHANGED <<driver, events>>
  BY <1>3 DEF Activity, DriverIdle, Triggers
<1>4. CASE \E a \in APs : RangeChanges(a)
  BY <1>3, <1>4 DEF RangeChanges
<1>5. CASE OnStaStart \/ OnScanDone \/ OnStaDisconnected
  <2>1. (DriverIdle => ~DriverIdle') /\ (~DriverIdle => driver' = driver)
    BY <1>5 DEF OnStaStart, OnScanDone, OnStaDisconnected, StartScan, Connect, DriverIdle
  <2>2. \E e \in Working : Handle(e)
    BY <1>5 DEF OnStaStart, OnScanDone, OnStaDisconnected, Working
  <2> QED
    BY <2>1, <2>2, ActivityWorks
<1>6. CASE OnStaConnected \/ OnGotIp \/ OnLostIp
  <2>1. DriverIdle <=> DriverIdle'
    BY <1>6 DEF OnStaConnected, OnGotIp, OnLostIp, DriverIdle
  <2>2. \E e \in Told : Handle(e)
    BY <1>6 DEF OnStaConnected, OnGotIp, OnLostIp, Told
  <2> QED
    BY <2>1, <2>2, ActivityListens
<1> QED
  BY <1>1, <1>2, <1>3, <1>4, <1>5, <1>6
  DEF UdpLinkNext, DriverNext, WifiHandlers, IpHandlers, udpLinkVars, wifiVars

LEMMA ActivityStart == UdpLinkInit => Activity
BY DEF UdpLinkInit, WifiInit, Activity, DriverIdle, Triggers

\* The station is never stranded and never asked for two things at once: either
\* the driver is at work, or exactly one event is queued whose handler in Wifi.cpp
\* makes it work again.
THEOREM NeverStranded == UdpLinkSpec => []OneActivity
<1>1. UdpLinkInit => Activity
  BY ActivityStart
<1>2. Activity /\ [UdpLinkNext]_udpLinkVars => Activity'
  BY ActivityStep
<1>3. Activity => OneActivity
  BY FS_EmptySet, FS_Singleton DEF Activity, OneActivity, DriverIdle
<1> QED
  BY <1>1, <1>2, <1>3, PTL DEF UdpLinkSpec

-----------------------------------------------------------------------------
(* The sockets.                                                            *)

\* No socket is open, or the current one alone and with its port.
NoneOpen == open = {} /\ bound = NoSocket
OneOpen  == open = {socket} /\ bound = socket

\* Which sockets there are before each step of the event task.
Sound ==
  /\ online \in BOOLEAN
  /\ step \in {"idle", "socket", "bind", "close"}
  /\ step = "idle" => IF online THEN OneOpen ELSE NoneOpen
  /\ step = "socket" => online /\ NoneOpen
  /\ step = "bind" => online /\ open = {socket} /\ bound = NoSocket
  /\ step = "close" => ~online /\ (NoneOpen \/ OneOpen)
  /\ receiver = "recvfrom" => waits = socket /\ socket \in open

\* The inductive invariant.
SocketInv == reopened \in BOOLEAN /\ (~reopened => Sound)

LEMMA SoundSetOnline ==
  ASSUME SocketInv, step = "idle", NEW b \in BOOLEAN, SetOnline(b)
  PROVE  SocketInv'
<1>1. reopened' \in BOOLEAN
  BY DEF SetOnline, SocketInv
<1>2. ASSUME ~reopened'
      PROVE  Sound'
  <2>1. ~reopened /\ ~(b /\ online) /\ Sound
    BY <1>2 DEF SetOnline, SocketInv
  <2>2. CASE b
    <3>1. ~online /\ NoneOpen /\ receiver # "recvfrom"
      BY <2>1, <2>2 DEF Sound, NoneOpen
    <3>2. online' /\ step' = "socket" /\ UNCHANGED <<socket, open, bound, receiver>>
      BY <2>2 DEF SetOnline, thread
    <3> QED
      BY <3>1, <3>2 DEF Sound, NoneOpen
  <2>3. CASE ~b
    <3>1. NoneOpen \/ OneOpen
      BY <2>1 DEF Sound
    <3>2. ~online' /\ step' = "close" /\ UNCHANGED <<socket, open, bound, receiver, waits>>
      BY <2>3 DEF SetOnline, thread
    <3>3. (NoneOpen \/ OneOpen)'
      BY <3>1, <3>2 DEF NoneOpen, OneOpen
    <3>4. receiver' = "recvfrom" => waits' = socket' /\ socket' \in open'
      BY <2>1, <3>2 DEF Sound
    <3>5. step' = "close" /\ step' \notin {"idle", "socket", "bind"}
      BY <3>2
    <3>6. online' \in BOOLEAN
      BY DEF SetOnline
    <3> QED
      BY <3>2, <3>3, <3>4, <3>5, <3>6, Zenon DEF Sound
  <2> QED
    BY <2>2, <2>3
<1> QED
  BY <1>1, <1>2 DEF SocketInv

\* In the other steps reopened stays, so that Sound may be assumed.
LEMMA SoundCreate ==
  ASSUME Sound, CreateSocket
  PROVE  Sound'
<1>1. open = {} /\ bound = NoSocket /\ online /\ receiver # "recvfrom"
  BY DEF Sound, NoneOpen, CreateSocket
<1>2. 1 \in Sockets
  BY UdpFrameAssumption DEF Sockets
<1>3. open' = {socket'} /\ step' = "bind"
  BY <1>1, <1>2 DEF CreateSocket
<1> QED
  BY <1>1, <1>3 DEF CreateSocket, Sound, thread

LEMMA SoundBind ==
  ASSUME Sound, BindSocket
  PROVE  Sound'
<1>1. online /\ open = {socket} /\ bound = NoSocket
  BY DEF Sound, BindSocket
<1> QED
  BY <1>1 DEF BindSocket, Sound, OneOpen, thread

LEMMA SoundClose ==
  ASSUME Sound, CloseSocket
  PROVE  Sound'
<1>1. ~online /\ (NoneOpen \/ OneOpen)
  BY DEF Sound, CloseSocket
<1>2. open' = {} /\ step' = "idle" /\ online' = online
  BY <1>1 DEF CloseSocket, Closed, NoneOpen, OneOpen
<1>3. bound' = NoSocket
  BY <1>1, <1>2 DEF CloseSocket, NoneOpen, OneOpen
<1>4. receiver' # "recvfrom"
  BY <1>2 DEF CloseSocket, thread
<1> QED
  BY <1>1, <1>2, <1>3, <1>4 DEF Sound, NoneOpen

\* The receiver thread, the worker thread and the gateway.
LEMMA SoundOther ==
  ASSUME Sound, ReceiverNext \/ SendData \/ DatagramArrives
  PROVE  Sound'
<1>1. UNCHANGED <<online, step, socket, open, bound>>
  BY DEF ReceiverNext, ReceiverTimer, WaitForData, RecvFrom, SendData, DatagramArrives,
         eventTask
<1>2. receiver' = "recvfrom" => waits' = socket /\ socket \in open
  BY DEF ReceiverNext, ReceiverTimer, WaitForData, RecvFrom, SendData, DatagramArrives,
         thread, Sound
<1> QED
  BY <1>1, <1>2 DEF Sound, NoneOpen, OneOpen

LEMMA SocketStep ==
  ASSUME SocketInv, [UdpLinkNext]_udpLinkVars
  PROVE  SocketInv'
<1>1. CASE UNCHANGED udpFrameVars
  BY <1>1 DEF udpFrameVars, SocketInv, Sound, NoneOpen, OneOpen
<1>2. CASE step = "idle" /\ IpHandlers
  BY <1>2, SoundSetOnline DEF IpHandlers
<1>3. CASE UdpFrameNext
  <2>1. reopened' = reopened
    BY <1>3 DEF UdpFrameNext, EventTaskNext, ReceiverNext, CreateSocket, BindSocket,
       CloseSocket, ReceiverTimer, WaitForData, RecvFrom, SendData, DatagramArrives,
       eventTask
  <2>2. ASSUME Sound
        PROVE  Sound'
    BY <1>3, <2>2, SoundCreate, SoundBind, SoundClose, SoundOther
    DEF UdpFrameNext, EventTaskNext
  <2> QED
    BY <2>1, <2>2 DEF SocketInv
<1> QED
  BY <1>1, <1>2, <1>3 DEF UdpLinkNext, udpLinkVars

\* As long as online was not set twice in a row UdpFrame.cpp leaks no socket, the
\* current one has its port, and the receiver thread waits on it.
THEOREM NoSocketLeaks == UdpLinkSpec => []OneSocket
<1>1. UdpLinkInit => SocketInv
  BY DEF UdpLinkInit, UdpFrameInit, SocketInv, Sound, NoneOpen
<1>2. SocketInv /\ [UdpLinkNext]_udpLinkVars => SocketInv'
  BY SocketStep
<1>3. SocketInv => OneSocket
  BY DEF SocketInv, Sound, NoneOpen, OneOpen, OneSocket
<1> QED
  BY <1>1, <1>2, <1>3, PTL DEF UdpLinkSpec

-----------------------------------------------------------------------------
(* The types of the station and the link.  A socket that is to be bound is *)
(* open: that is what the types of the next step need.                     *)

UdpTypes ==
  WifiTypeOK /\ UdpFrameTypeOK /\ (step = "bind" => socket \in open)

LEMMA WifiTypesStep ==
  ASSUME Activity, Activity', WifiTypeOK, [UdpLinkNext]_udpLinkVars
  PROVE  WifiTypeOK'
<1>1. \A i \in 1 .. Len(events') : events'[i] \in Names
  BY LenProperties, ElementOfSeq DEF Activity
<1>2. CASE StationStarts \/ ScanEnds \/ Associates \/ AttemptFails \/ Leases \/ LeaseEnds
  BY <1>1, <1>2
  DEF StationStarts, ScanEnds, Associates, AttemptFails, Leases, LeaseEnds, WifiTypeOK,
      Names, Working, Told
<1>3. CASE Disassociates
  <2>1. drops' \in 0 .. MaxDrops
    BY <1>3, WifiAssumption DEF Disassociates, WifiTypeOK
  <2> QED BY <1>1, <1>3, <2>1 DEF Disassociates, WifiTypeOK, Names, Working, Told
<1>4. CASE \E a \in APs : RangeChanges(a)
  <2> PICK a \in APs : RangeChanges(a)
    BY <1>4
  <2>1. drops' \in 0 .. MaxDrops /\ inRange' \subseteq APs
    BY WifiAssumption DEF RangeChanges, WifiTypeOK
  <2> QED BY <2>1 DEF RangeChanges, WifiTypeOK
<1>5. CASE OnStaStart \/ OnScanDone \/ OnStaConnected \/ OnStaDisconnected
           \/ OnGotIp \/ OnLostIp
  <2>1. ap' \in APs \cup {NoAP}
    BY <1>5 DEF OnStaStart, OnScanDone, OnStaConnected, OnStaDisconnected, OnGotIp,
       OnLostIp, Strongest, WifiTypeOK
  <2>2. driver' \in {"off", "idle", "scanning", "connecting", "associated"}
    BY <1>5 DEF OnStaStart, OnScanDone, OnStaConnected, OnStaDisconnected, OnGotIp,
       OnLostIp, StartScan, Connect, WifiTypeOK
  <2>3. connected' \in BOOLEAN /\ UNCHANGED <<inRange, found, lease, drops>>
    BY <1>5 DEF OnStaStart, OnScanDone, OnStaConnected, OnStaDisconnected, OnGotIp,
       OnLostIp, WifiTypeOK
  <2> QED BY <1>1, <2>1, <2>2, <2>3 DEF WifiTypeOK, Names, Working, Told
<1>6. CASE UNCHANGED wifiVars
  BY <1>6 DEF wifiVars, WifiTypeOK
<1> QED
  BY <1>2, <1>3, <1>4, <1>5, <1>6
  DEF UdpLinkNext, DriverNext, WifiHandlers, IpHandlers, udpLinkVars

\* The stack gives a socket that is free.
LEMMA LowestFree ==
  ASSUME open # Sockets, open \subseteq Sockets
  PROVE  (CHOOSE s \in Sockets \ open : \A r \in Sockets \ open : s <= r) \in Sockets \ open
<1> DEFINE free == Sockets \ open
<1>1. free \in SUBSET Nat /\ free # {}
  <2>1. Sockets \in SUBSET Nat
    BY UdpFrameAssumption DEF Sockets
  <2> QED BY <2>1
<1> HIDE DEF free
<1>2. \E s \in free : \A r \in free : s <= r
  BY <1>1, LeastIn
<1>3. (CHOOSE s \in free : \A r \in free : s <= r) \in free
  BY <1>2
<1> QED BY <1>3 DEF free

LEMMA UdpTypesStep ==
  ASSUME Activity, Activity', UdpTypes, [UdpLinkNext]_udpLinkVars
  PROVE  UdpTypes'
<1>1. WifiTypeOK'
  BY WifiTypesStep DEF UdpTypes
<1>2. UdpFrameTypeOK /\ (step = "bind" => socket \in open)
  BY DEF UdpTypes
<1> SUFFICES (UdpFrameTypeOK /\ (step = "bind" => socket \in open))'
  BY <1>1 DEF UdpTypes
<1>3. CASE UNCHANGED udpFrameVars
  BY <1>2, <1>3 DEF udpFrameVars, UdpFrameTypeOK
<1>4. CASE step = "idle" /\ IpHandlers
  BY <1>2, <1>4 DEF IpHandlers, SetOnline, gateway, thread, UdpFrameTypeOK
<1>5. CASE CreateSocket
  <2>1. CASE open = Sockets
    BY <1>2, <1>5, <2>1 DEF CreateSocket, gateway, thread, UdpFrameTypeOK
  <2>2. CASE open # Sockets
    <3>1. socket' \in Sockets /\ open' = open \cup {socket'} /\ step' = "bind"
      BY <1>2, <1>5, <2>2, LowestFree DEF CreateSocket, UdpFrameTypeOK
    <3> QED BY <1>2, <1>5, <3>1 DEF CreateSocket, gateway, thread, UdpFrameTypeOK
  <2> QED BY <2>1, <2>2
<1>6. CASE BindSocket
  BY <1>2, <1>6 DEF BindSocket, gateway, thread, UdpFrameTypeOK
<1>7. CASE CloseSocket
  <2>1. open' = open \ {socket} /\ arrived' = arrived \cap open' /\ step' = "idle"
    BY <1>7 DEF CloseSocket, Closed
  <2>2. bound' \in open' \cup {NoSocket} /\ peer' \in open' \cup {NoSocket}
    BY <1>2, <1>7, <2>1 DEF CloseSocket, UdpFrameTypeOK
  <2>3. receiver' \in {"timer", "loop", "recvfrom"} /\ waits' \in Sockets \cup {NoSocket}
    BY <1>2, <1>7 DEF CloseSocket, thread, UdpFrameTypeOK
  <2>4. UNCHANGED <<online, socket, sends, reopened>>
    BY <1>7 DEF CloseSocket
  <2>5. open' \subseteq Sockets /\ arrived' \subseteq open'
    BY <1>2, <2>1 DEF UdpFrameTypeOK
  <2> QED BY <1>2, <2>1, <2>2, <2>3, <2>4, <2>5 DEF UdpFrameTypeOK
<1>8. CASE SendData
  <2>1. sends' \in 0 .. MaxSends
    BY <1>2, <1>8, UdpFrameAssumption DEF SendData, UdpFrameTypeOK
  <2>2. peer' \in open' \cup {NoSocket}
    BY <1>2, <1>8 DEF SendData, eventTask, UdpFrameTypeOK
  <2> QED BY <1>2, <1>8, <2>1, <2>2 DEF SendData, eventTask, thread, UdpFrameTypeOK
<1>9. CASE DatagramArrives
  BY <1>2, <1>9 DEF DatagramArrives, eventTask, thread, UdpFrameTypeOK
<1>10. CASE ReceiverNext
  BY <1>2, <1>10
  DEF ReceiverNext, ReceiverTimer, WaitForData, RecvFrom, eventTask, gateway,
      UdpFrameTypeOK
<1> QED
  BY <1>3, <1>4, <1>5, <1>6, <1>7, <1>8, <1>9, <1>10
  DEF UdpLinkNext, udpLinkVars, UdpFrameNext, EventTaskNext

LEMMA UdpTypesStart == UdpLinkInit => UdpTypes
<1> SUFFICES ASSUME UdpLinkInit PROVE UdpTypes
  OBVIOUS
<1>1. WifiTypeOK
  <2>1. Len(events) = 0 /\ \A i \in 1 .. Len(events) : FALSE
    BY DEF UdpLinkInit, WifiInit
  <2>2. drops \in 0 .. MaxDrops
    BY WifiAssumption DEF UdpLinkInit, WifiInit
  <2> QED BY <2>1, <2>2 DEF UdpLinkInit, WifiInit, WifiTypeOK
<1>2. UdpFrameTypeOK
  <2>1. sends \in 0 .. MaxSends
    BY UdpFrameAssumption DEF UdpLinkInit, UdpFrameInit
  <2>2. open \subseteq Sockets /\ arrived \subseteq open
    BY DEF UdpLinkInit, UdpFrameInit
  <2>3. bound \in open \cup {NoSocket} /\ peer \in open \cup {NoSocket}
        /\ waits \in Sockets \cup {NoSocket} /\ socket \in Sockets \cup {0, NoSocket}
    BY DEF UdpLinkInit, UdpFrameInit
  <2> QED BY <2>1, <2>2, <2>3 DEF UdpLinkInit, UdpFrameInit, UdpFrameTypeOK
<1>3. step # "bind"
  BY DEF UdpLinkInit, UdpFrameInit
<1> QED BY <1>1, <1>2, <1>3 DEF UdpTypes

-----------------------------------------------------------------------------
(* The serial link.                                                        *)
(*                                                                         *)
(* That the event task never waits in vain holds by the types and the sum  *)
(* of what is announced (SerialTypes).  That damage stays local has two    *)
(* parts: the bytes in the ring and on the wire are in the order they were *)
(* sent in and only bytes of damaged frames are missing (Follows), and     *)
(* what rxdByte keeps and has made agrees with the bytes it was given      *)
(* (Faithful).  A frame is read byte by byte along the trace that Parses   *)
(* describes.                                                              *)

-----------------------------------------------------------------------------
(* A byte-stuffed frame, and what a receiver makes of its bytes.           *)

\* A receiver inside a frame, and one that has just seen a flag.
Parsing == [rxd : Seq(0 .. 255), esc : BOOLEAN]
Clean == [rxd |-> << >>, esc |-> FALSE]

\* rxdByte on a byte that is no flag and finds room.
Unstuff(d, c) ==
  IF c = PPP_ESC_CHAR THEN [rxd |-> d.rxd, esc |-> TRUE]
  ELSE [rxd |-> Append(d.rxd, IF d.esc THEN Masked(c) ELSE c), esc |-> FALSE]

\* R goes from Clean through the bytes of w, none of them a flag, to what they stand for.
Unstuffs(R, w, p) ==
  /\ w \in Seq(0 .. 255) /\ p \in Seq(0 .. 255)
  /\ R \in [0 .. Len(w) -> Parsing]
  /\ R[0] = Clean
  /\ \A j \in 1 .. Len(w) : w[j] # PPP_FLAG_CHAR /\ R[j] = Unstuff(R[j - 1], w[j])
  /\ \A j \in 0 .. Len(w) : Len(R[j].rxd) <= Len(p)
  /\ R[Len(w)] = [rxd |-> p, esc |-> FALSE]

LEMMA MaskTwice ==
  ASSUME NEW c \in {PPP_ESC_CHAR, PPP_FLAG_CHAR}
  PROVE  /\ Masked(c) \in 0 .. 255 /\ Masked(Masked(c)) = c
         /\ Masked(c) \notin {PPP_ESC_CHAR, PPP_FLAG_CHAR}
BY DEF PPP_ESC_CHAR, PPP_FLAG_CHAR, PPP_MASK_CHAR, Masked

\* One byte more in the frame, stuffed or not.
LEMMA UnstuffMore ==
  ASSUME NEW R, NEW w, NEW p, Unstuffs(R, w, p), NEW c \in 0 .. 255
  PROVE  \E Q : Unstuffs(Q, w \o Escaped(c), Append(p, c))
<1> DEFINE n == Len(w)
           q == Append(p, c)
<1>1. /\ n \in Nat /\ w \in Seq(0 .. 255) /\ p \in Seq(0 .. 255)
      /\ q \in Seq(0 .. 255) /\ Len(q) = Len(p) + 1 /\ Len(p) \in Nat
  BY DEF Unstuffs
<1>2. PPP_ESC_CHAR \in 0 .. 255 /\ PPP_ESC_CHAR # PPP_FLAG_CHAR
  BY DEF PPP_ESC_CHAR, PPP_FLAG_CHAR
<1>3. CASE c \notin {PPP_ESC_CHAR, PPP_FLAG_CHAR}
  <2> DEFINE e == <<c>>
             v == w \o e
             Q == [j \in 0 .. n + 1 |-> IF j = n + 1 THEN [rxd |-> q, esc |-> FALSE] ELSE R[j]]
  <2>1. Escaped(c) = e
    BY <1>3 DEF Escaped
  <2>2. e \in Seq(0 .. 255) /\ Len(e) = 1 /\ e[1] = c
    OBVIOUS
  <2> HIDE DEF e
  <2>3. /\ v \in Seq(0 .. 255) /\ Len(v) = n + 1 /\ v[n + 1] = c
        /\ \A j \in 1 .. n : v[j] = w[j]
    <3>1. /\ v \in Seq(0 .. 255) /\ Len(v) = n + Len(e) /\ \A j \in 1 .. n : v[j] = w[j]
          /\ \A i \in 1 .. Len(e) : v[n + i] = e[i]
      <4> DEFINE S == 0 .. 255
      <4>1. w \in Seq(S) /\ e \in Seq(S)
        BY <1>1, <2>2
      <4> HIDE DEF S
      <4>2. /\ v \in Seq(S) /\ Len(v) = n + Len(e) /\ \A j \in 1 .. n : v[j] = w[j]
            /\ \A i \in 1 .. Len(e) : v[n + i] = e[i]
        BY <4>1
      <4> QED BY <4>2 DEF S
    <3>2. 1 \in 1 .. Len(e)
      BY <2>2
    <3> HIDE DEF v
    <3> QED BY <2>2, <3>1, <3>2
  <2>4. /\ Q \in [0 .. n + 1 -> Parsing]
        /\ Q[n + 1] = [rxd |-> q, esc |-> FALSE] /\ \A j \in 0 .. n : Q[j] = R[j]
    <3>1. \A j \in 0 .. n + 1 : j = n + 1 \/ j \in 0 .. n
      BY <1>1
    <3> QED BY <1>1, <3>1 DEF Unstuffs, Parsing
  <2> HIDE DEF v, Q
  <2>5. \A j \in 1 .. n + 1 : v[j] # PPP_FLAG_CHAR /\ Q[j] = Unstuff(Q[j - 1], v[j])
    <3>1. ASSUME NEW j \in 1 .. n
          PROVE  v[j] # PPP_FLAG_CHAR /\ Q[j] = Unstuff(Q[j - 1], v[j])
      <4>1. j - 1 \in 0 .. n /\ j \in 0 .. n
        BY <1>1
      <4> QED BY <2>3, <2>4, <4>1 DEF Unstuffs
    <3>2. Q[n + 1] = Unstuff(Q[n], c) /\ (n + 1) - 1 = n
      <4>1. n \in 0 .. n /\ (n + 1) - 1 = n
        BY <1>1
      <4>2. Q[n] = [rxd |-> p, esc |-> FALSE]
        BY <2>4, <4>1 DEF Unstuffs
      <4>3. Unstuff(Q[n], c) = [rxd |-> q, esc |-> FALSE]
        BY <1>3, <4>2 DEF Unstuff
      <4> QED BY <2>4, <4>1, <4>3
    <3>3. \A j \in 1 .. n + 1 : j = n + 1 \/ j \in 1 .. n
      BY <1>1
    <3> QED BY <1>3, <2>3, <3>1, <3>2, <3>3
  <2>6. \A j \in 0 .. n + 1 : Len(Q[j].rxd) <= Len(q)
    <3>1. ASSUME NEW j \in 0 .. n PROVE Len(Q[j].rxd) <= Len(q)
      <4>1. Len(R[j].rxd) <= Len(p) /\ R[j].rxd \in Seq(0 .. 255)
        BY DEF Unstuffs, Parsing
      <4> QED BY <1>1, <2>4, <4>1
    <3>2. \A j \in 0 .. n + 1 : j = n + 1 \/ j \in 0 .. n
      BY <1>1
    <3> QED BY <1>1, <2>4, <3>1, <3>2, SMTT(30)
  <2>7. Q[0] = Clean
    BY <1>1, <2>4 DEF Unstuffs
  <2>8. Unstuffs(Q, v, q)
    BY <1>1, <2>3, <2>4, <2>5, <2>6, <2>7 DEF Unstuffs
  <2> QED BY <2>1, <2>8 DEF v
<1>4. CASE c \in {PPP_ESC_CHAR, PPP_FLAG_CHAR}
  <2> DEFINE m == Masked(c)
             e == <<PPP_ESC_CHAR, m>>
             v == w \o e
             Q == [j \in 0 .. n + 2 |-> IF j = n + 2 THEN [rxd |-> q, esc |-> FALSE]
                                        ELSE IF j = n + 1 THEN [rxd |-> p, esc |-> TRUE]
                                        ELSE R[j]]
  <2>0. m \in 0 .. 255 /\ Masked(m) = c /\ m \notin {PPP_ESC_CHAR, PPP_FLAG_CHAR}
    BY <1>4, MaskTwice
  <2>1. Escaped(c) = e
    BY <1>4 DEF Escaped
  <2> HIDE DEF m
  <2>2. e \in Seq(0 .. 255) /\ Len(e) = 2 /\ e[1] = PPP_ESC_CHAR /\ e[2] = m
    BY <1>2, <2>0
  <2> HIDE DEF e
  <2>3. /\ v \in Seq(0 .. 255) /\ Len(v) = n + 2 /\ v[n + 1] = PPP_ESC_CHAR /\ v[n + 2] = m
        /\ \A j \in 1 .. n : v[j] = w[j]
    <3>1. /\ v \in Seq(0 .. 255) /\ Len(v) = n + Len(e) /\ \A j \in 1 .. n : v[j] = w[j]
          /\ \A i \in 1 .. Len(e) : v[n + i] = e[i]
      <4> DEFINE S == 0 .. 255
      <4>1. w \in Seq(S) /\ e \in Seq(S)
        BY <1>1, <2>2
      <4> HIDE DEF S
      <4>2. /\ v \in Seq(S) /\ Len(v) = n + Len(e) /\ \A j \in 1 .. n : v[j] = w[j]
            /\ \A i \in 1 .. Len(e) : v[n + i] = e[i]
        BY <4>1
      <4> QED BY <4>2 DEF S
    <3>2. 1 \in 1 .. Len(e) /\ 2 \in 1 .. Len(e)
      BY <2>2
    <3> HIDE DEF v
    <3> QED BY <2>2, <3>1, <3>2
  <2>4. /\ Q \in [0 .. n + 2 -> Parsing]
        /\ Q[n + 2] = [rxd |-> q, esc |-> FALSE] /\ Q[n + 1] = [rxd |-> p, esc |-> TRUE]
        /\ \A j \in 0 .. n : Q[j] = R[j]
    <3>1. \A j \in 0 .. n + 2 : j = n + 2 \/ j = n + 1 \/ j \in 0 .. n
      BY <1>1
    <3>2. /\ [rxd |-> q, esc |-> FALSE] \in Parsing /\ [rxd |-> p, esc |-> TRUE] \in Parsing
          /\ \A j \in 0 .. n : R[j] \in Parsing
      BY <1>1 DEF Unstuffs, Parsing
    <3>3. n + 2 \in 0 .. n + 2 /\ n + 1 \in 0 .. n + 2 /\ n + 1 # n + 2
          /\ \A j \in 0 .. n : j \in 0 .. n + 2 /\ j # n + 1 /\ j # n + 2
      BY <1>1
    <3> QED BY <3>1, <3>2, <3>3
  <2> HIDE DEF v, Q
  <2>5. \A j \in 1 .. n + 2 : v[j] # PPP_FLAG_CHAR /\ Q[j] = Unstuff(Q[j - 1], v[j])
    <3>1. ASSUME NEW j \in 1 .. n
          PROVE  v[j] # PPP_FLAG_CHAR /\ Q[j] = Unstuff(Q[j - 1], v[j])
      <4>1. j - 1 \in 0 .. n /\ j \in 0 .. n
        BY <1>1
      <4> QED BY <2>3, <2>4, <4>1 DEF Unstuffs
    <3>2. Q[n + 1] = Unstuff(Q[n], PPP_ESC_CHAR) /\ (n + 1) - 1 = n
      <4>1. n \in 0 .. n /\ (n + 1) - 1 = n
        BY <1>1
      <4>2. Q[n] = [rxd |-> p, esc |-> FALSE]
        BY <2>4, <4>1 DEF Unstuffs
      <4>3. Unstuff(Q[n], PPP_ESC_CHAR) = [rxd |-> p, esc |-> TRUE]
        BY <4>2 DEF Unstuff
      <4> QED BY <2>4, <4>1, <4>3
    <3>3. Q[n + 2] = Unstuff(Q[n + 1], m) /\ (n + 2) - 1 = n + 1
      <4>1. (n + 2) - 1 = n + 1
        BY <1>1
      <4>2. Unstuff(Q[n + 1], m) = [rxd |-> q, esc |-> FALSE]
        BY <2>0, <2>4 DEF Unstuff
      <4> QED BY <2>4, <4>1, <4>2
    <3>4. \A j \in 1 .. n + 2 : j = n + 2 \/ j = n + 1 \/ j \in 1 .. n
      BY <1>1
    <3> QED BY <1>2, <2>0, <2>3, <3>1, <3>2, <3>3, <3>4, ZenonT(30)
  <2>6. \A j \in 0 .. n + 2 : Len(Q[j].rxd) <= Len(q)
    <3>1. ASSUME NEW j \in 0 .. n PROVE Len(Q[j].rxd) <= Len(q)
      <4>1. Len(R[j].rxd) <= Len(p) /\ R[j].rxd \in Seq(0 .. 255)
        BY DEF Unstuffs, Parsing
      <4> QED BY <1>1, <2>4, <4>1
    <3>2. \A j \in 0 .. n + 2 : j = n + 2 \/ j = n + 1 \/ j \in 0 .. n
      BY <1>1
    <3>3. Len(Q[n + 1].rxd) <= Len(q) /\ Len(Q[n + 2].rxd) <= Len(q)
      <4>1. Q[n + 1].rxd = p /\ Q[n + 2].rxd = q
        BY <2>4
      <4> QED BY <1>1, <4>1
    <3> QED BY <3>1, <3>2, <3>3
  <2>7. Q[0] = Clean
    BY <1>1, <2>4 DEF Unstuffs
  <2>8. Unstuffs(Q, v, q)
    BY <1>1, <2>3, <2>4, <2>5, <2>6, <2>7 DEF Unstuffs
  <2> QED BY <2>1, <2>8 DEF v
<1> QED BY <1>3, <1>4

\* A flattened sequence is built up piece by piece.
LEMMA FlattenTrace ==
  ASSUME NEW S, NEW q \in Seq(Seq(S))
  PROVE  \E t \in [0 .. Len(q) -> Seq(S)] :
           /\ t[0] = << >>
           /\ \A k \in 1 .. Len(q) : t[k] = t[k - 1] \o q[k]
           /\ FlattenSeq(q) = t[Len(q)]
<1> DEFINE n == Len(q)
           D == Seq(S)
           base == << >>
           apply == [k \in 1 .. n |-> [d \in D |-> d \o q[k]]]
           Eq(f) == [i \in 1 .. n |-> IF i = 1 THEN q[i] ELSE f[i - 1] \o q[i]]
           flat == CHOOSE f : f = Eq(f)
<1>1. n \in Nat /\ base \in D /\ \A k \in 1 .. n : q[k] \in D
  OBVIOUS
<1>2. apply \in [1 .. n -> [D -> D]]
  <2>1. ASSUME NEW k \in 1 .. n, NEW d \in D PROVE d \o q[k] \in D
    BY <1>1, ConcatProperties
  <2> QED BY <2>1
<1>3. PICK t \in [0 .. n -> D] : Trace(t, n, base, apply)
  <2> HIDE DEF n, D, base, apply
  <2> QED BY <1>1, <1>2, RecursionExists
<1>4. t[0] = base /\ \A k \in 1 .. n : t[k] = t[k - 1] \o q[k]
  <2>1. ASSUME NEW k \in 1 .. n PROVE apply[k][t[k - 1]] = t[k - 1] \o q[k]
    <3>1. k - 1 \in 0 .. n
      BY <1>1
    <3>2. t[k - 1] \in D
      BY <3>1
    <3> HIDE DEF D
    <3> QED BY <3>2
  <2> HIDE DEF apply
  <2> QED BY <1>3, <2>1 DEF Trace
<1>5. flat = Eq(flat)
  <2> DEFINE f == [i \in 1 .. n |-> t[i]]
  <2>1. ASSUME NEW i \in 1 .. n PROVE f[i] = IF i = 1 THEN q[i] ELSE f[i - 1] \o q[i]
    <3>1. CASE i = 1
      <4>1. t[1] = base \o q[1] /\ q[1] \in D
        <5>1. 1 \in 1 .. n /\ 1 - 1 = 0
          BY <1>1, <3>1
        <5> QED BY <1>1, <1>4, <5>1
      <4> QED BY <3>1, <4>1, ConcatEmptySeq
    <3>2. CASE i # 1
      <4>1. i - 1 \in 1 .. n
        BY <1>1, <3>2
      <4> QED BY <1>4, <3>2, <4>1
    <3> QED BY <3>1, <3>2
  <2>2. f = Eq(f)
    BY <2>1
  <2> QED BY <2>2
<1>6. \A k \in 1 .. n : flat[k] = t[k]
  <2> DEFINE P == {k \in Nat : k + 1 <= n => flat[k + 1] = t[k + 1]}
  <2> HIDE DEF flat
  <2>1. 0 \in P
    <3> SUFFICES ASSUME 1 <= n PROVE flat[1] = t[1]
      OBVIOUS
    <3>1. 1 \in 1 .. n /\ 1 - 1 = 0
      BY <1>1
    <3>2. flat[1] = q[1]
      BY <1>5, <3>1
    <3>3. t[1] = base \o q[1] /\ q[1] \in D
      BY <1>1, <1>4, <3>1
    <3> QED BY <3>2, <3>3, ConcatEmptySeq
  <2>2. ASSUME NEW k \in P PROVE k + 1 \in P
    <3> SUFFICES ASSUME (k + 1) + 1 <= n PROVE flat[(k + 1) + 1] = t[(k + 1) + 1]
      OBVIOUS
    <3>1. (k + 1) + 1 \in 1 .. n /\ ((k + 1) + 1) - 1 = k + 1 /\ (k + 1) + 1 # 1 /\ k + 1 <= n
      BY <1>1
    <3>2. flat[(k + 1) + 1] = flat[k + 1] \o q[(k + 1) + 1]
      BY <1>5, <3>1
    <3> QED BY <1>4, <3>1, <3>2
  <2> HIDE DEF P
  <2>3. P = Nat
    BY <2>1, <2>2, Induction DEF P
  <2>4. ASSUME NEW k \in 1 .. n PROVE flat[k] = t[k]
    <3>1. k - 1 \in P /\ (k - 1) + 1 = k /\ k <= n
      BY <1>1, <2>3
    <3> QED BY <3>1 DEF P
  <2> QED BY <2>4
<1>7. FlattenSeq(q) = t[n]
  <2>1. CASE n = 0
    <3>1. q = << >>
      BY <2>1, EmptySeq
    <3> QED BY <1>4, <2>1, <3>1 DEF FlattenSeq
  <2>2. CASE n # 0
    <3>1. FlattenSeq(q) = flat[n]
      BY <2>2 DEF FlattenSeq
    <3>2. n \in 1 .. n
      BY <1>1, <2>2
    <3> QED BY <1>6, <3>1, <3>2
  <2> QED BY <2>1, <2>2
<1> QED BY <1>3, <1>4, <1>7

\* R goes through the bytes of the frame that carries the body, up to its last flag.
Parses(R, body) ==
  LET s == Stuffed(body)
      m == Len(Stuffed(body))
  IN /\ s \in Seq(0 .. 255) /\ m \in Nat /\ m >= 3
     /\ s[1] = PPP_FLAG_CHAR /\ s[m] = PPP_FLAG_CHAR
     /\ R \in [1 .. m - 1 -> Parsing]
     /\ R[1] = Clean
     /\ \A j \in 2 .. m - 1 : s[j] # PPP_FLAG_CHAR /\ R[j] = Unstuff(R[j - 1], s[j])
     /\ \A j \in 1 .. m - 1 : Len(R[j].rxd) <= Len(body)
     /\ R[m - 1] = [rxd |-> body, esc |-> FALSE]

\* The bytes of a body, stuffed, are read as that body.
LEMMA UnstuffsBody ==
  ASSUME NEW body \in Seq(0 .. 255)
  PROVE  \E Q : Unstuffs(Q, FlattenSeq([i \in 1 .. Len(body) |-> Escaped(body[i])]), body)
<1> DEFINE n == Len(body)
           q == [i \in 1 .. n |-> Escaped(body[i])]
<1>1. n \in Nat /\ \A i \in 1 .. n : body[i] \in 0 .. 255
  <2> DEFINE S == 0 .. 255
  <2>1. body \in Seq(S)
    OBVIOUS
  <2> HIDE DEF S
  <2>2. n \in Nat /\ \A i \in 1 .. n : body[i] \in S
    BY <2>1
  <2> QED BY <2>2 DEF S
<1>2. q \in Seq(Seq(0 .. 255)) /\ Len(q) = n /\ \A i \in 1 .. n : q[i] = Escaped(body[i])
  <2>1. ASSUME NEW i \in 1 .. n PROVE Escaped(body[i]) \in Seq(0 .. 255)
    <3>1. body[i] \in 0 .. 255
      BY <1>1
    <3>2. CASE body[i] \in {PPP_ESC_CHAR, PPP_FLAG_CHAR}
      <4>1. Masked(body[i]) \in 0 .. 255
        BY <3>2, MaskTwice
      <4>2. PPP_ESC_CHAR \in 0 .. 255
        BY DEF PPP_ESC_CHAR
      <4> QED BY <3>2, <4>1, <4>2 DEF Escaped
    <3>3. CASE body[i] \notin {PPP_ESC_CHAR, PPP_FLAG_CHAR}
      BY <3>1, <3>3 DEF Escaped
    <3> QED BY <3>2, <3>3
  <2> DEFINE B == Seq(0 .. 255)
  <2>2. \A i \in 1 .. n : Escaped(body[i]) \in B
    BY <2>1
  <2> HIDE DEF B
  <2>3. q \in Seq(B) /\ Len(q) = n /\ \A i \in 1 .. n : q[i] = Escaped(body[i])
    <3> HIDE DEF n
    <3> QED BY <1>1, <2>2
  <2> QED BY <2>3 DEF B
<1> HIDE DEF q
<1>3. PICK t \in [0 .. n -> Seq(0 .. 255)] :
        /\ t[0] = << >>
        /\ \A k \in 1 .. n : t[k] = t[k - 1] \o q[k]
        /\ FlattenSeq(q) = t[n]
  <2>1. \E t \in [0 .. Len(q) -> Seq(0 .. 255)] :
           /\ t[0] = << >>
           /\ \A k \in 1 .. Len(q) : t[k] = t[k - 1] \o q[k]
           /\ FlattenSeq(q) = t[Len(q)]
    BY <1>2, FlattenTrace, ZenonT(30)
  <2>2. Len(q) = n
    BY <1>2
  <2> HIDE DEF n
  <2> QED BY <2>1, <2>2
<1> DEFINE Reads(k) == \E Q : Unstuffs(Q, t[k], SubSeq(body, 1, k))
           P == {k \in Nat : k <= n => Reads(k)}
<1>4. 0 \in P
  <2> DEFINE Q == [j \in 0 .. 0 |-> Clean]
             e == SubSeq(body, 1, 0)
  <2>1. Clean \in Parsing /\ Clean.rxd = << >> /\ Clean.esc = FALSE
    <3>1. << >> \in Seq(0 .. 255)
      OBVIOUS
    <3> QED BY <3>1 DEF Clean, Parsing
  <2>2. e = << >> /\ Len(e) = 0 /\ e \in Seq(0 .. 255) /\ Len(t[0]) = 0 /\ t[0] \in Seq(0 .. 255)
    BY <1>1, <1>3
  <2>3. Q \in [0 .. 0 -> Parsing] /\ \A j \in 0 .. 0 : Q[j] = Clean
    BY <2>1
  <2> HIDE DEF Q, e
  <2>4. Clean = [rxd |-> e, esc |-> FALSE]
    BY <2>2 DEF Clean
  <2>5. 1 .. 0 = {} /\ 0 \in 0 .. 0
    OBVIOUS
  <2>6. Len(Clean.rxd) = Len(e)
    BY <2>1, <2>2
  <2>7. Unstuffs(Q, t[0], e)
    BY <2>1, <2>2, <2>3, <2>4, <2>5, <2>6 DEF Unstuffs
  <2> QED BY <2>7 DEF e
<1>5. ASSUME NEW k \in P PROVE k + 1 \in P
  <2> SUFFICES ASSUME k + 1 <= n PROVE Reads(k + 1)
    <3> HIDE DEF Reads
    <3> QED OBVIOUS
  <2>1. k + 1 \in 1 .. n /\ k <= n /\ (k + 1) - 1 = k /\ k \in Nat
    BY <1>1
  <2>2. PICK Q : Unstuffs(Q, t[k], SubSeq(body, 1, k))
    BY <2>1
  <2>3. body[k + 1] \in 0 .. 255
    BY <1>1, <2>1
  <2>4. \E S : Unstuffs(S, t[k] \o Escaped(body[k + 1]), Append(SubSeq(body, 1, k), body[k + 1]))
    BY <2>2, <2>3, UnstuffMore
  <2>5. t[k + 1] = t[k] \o Escaped(body[k + 1])
    BY <1>2, <1>3, <2>1
  <2>6. SubSeq(body, 1, k + 1) = Append(SubSeq(body, 1, k), body[k + 1])
    BY <1>1, <2>1
  <2> QED BY <2>4, <2>5, <2>6
<1>6. n \in P
  <2>1. P \in SUBSET Nat
    <3> HIDE DEF Reads
    <3> QED OBVIOUS
  <2> HIDE DEF P
  <2> QED BY <1>1, <1>4, <1>5, <2>1, Induction
<1>7. Reads(n)
  <2> HIDE DEF Reads
  <2> QED BY <1>6
<1>8. SubSeq(body, 1, n) = body
  OBVIOUS
<1> QED BY <1>3, <1>7, <1>8 DEF q

\* A frame begins and ends with a flag and has none in between, and it carries its body.
LEMMA StuffedShape ==
  ASSUME NEW body \in Seq(0 .. 255), body # << >>
  PROVE  \E R : Parses(R, body)
<1> DEFINE w == FlattenSeq([i \in 1 .. Len(body) |-> Escaped(body[i])])
           f == <<PPP_FLAG_CHAR>>
           S == 0 .. 255
           s == f \o w \o f
           n == Len(w)
<1>1. PICK Q : Unstuffs(Q, w, body)
  BY UnstuffsBody
<1>2. f \in Seq(S) /\ Len(f) = 1 /\ f[1] = PPP_FLAG_CHAR
  BY DEF PPP_FLAG_CHAR
<1>3. s = Stuffed(body)
  BY DEF Stuffed
<1> HIDE DEF w, f
<1>4. w \in Seq(S) /\ n \in Nat
  BY <1>1 DEF Unstuffs
<1>5. n # 0
  <2> SUFFICES ASSUME n = 0 PROVE FALSE
    OBVIOUS
  <2>1. Q[0] = Clean /\ Q[0] = [rxd |-> body, esc |-> FALSE]
    BY <1>1 DEF Unstuffs
  <2> QED BY <2>1 DEF Clean
<1>6. /\ s \in Seq(S) /\ Len(s) = n + 2
      /\ s[1] = PPP_FLAG_CHAR /\ s[n + 2] = PPP_FLAG_CHAR
      /\ \A j \in 1 .. n : s[j + 1] = w[j]
  <2> HIDE DEF S
  <2> DEFINE v == f \o w
  <2>1. /\ v \in Seq(S) /\ Len(v) = n + 1 /\ v[1] = f[1]
        /\ \A j \in 1 .. n : v[j + 1] = w[j]
    <3>1. /\ v \in Seq(S) /\ Len(v) = Len(f) + Len(w)
          /\ \A j \in 1 .. Len(f) : v[j] = f[j]
          /\ \A j \in 1 .. Len(w) : v[Len(f) + j] = w[j]
      <4>1. v = f \o w /\ f \in Seq(S) /\ w \in Seq(S)
        BY <1>2, <1>4
      <4> HIDE DEF v
      <4> QED BY <4>1, Joined
    <3>2. 1 \in 1 .. 1 /\ 1 + n = n + 1 /\ \A j \in 1 .. n : 1 + j = j + 1
      BY <1>4
    <3> HIDE DEF v
    <3> QED BY <1>2, <3>1, <3>2
  <2> HIDE DEF v
  <2>2. /\ v \o f \in Seq(S) /\ Len(v \o f) = n + 2 /\ (v \o f)[n + 2] = f[1]
        /\ \A j \in 1 .. n + 1 : (v \o f)[j] = v[j]
    <3> DEFINE x == v \o f
    <3>1. /\ x \in Seq(S) /\ Len(x) = Len(v) + Len(f)
          /\ \A j \in 1 .. Len(v) : x[j] = v[j]
          /\ \A j \in 1 .. Len(f) : x[Len(v) + j] = f[j]
      <4>1. x = v \o f /\ f \in Seq(S) /\ v \in Seq(S)
        BY <1>2, <2>1
      <4> HIDE DEF x
      <4> QED BY <4>1, Joined
    <3>2. 1 \in 1 .. 1 /\ (n + 1) + 1 = n + 2
      BY <1>4
    <3> HIDE DEF n, x
    <3>3. Len(x) = n + 2 /\ x[n + 2] = f[1] /\ \A j \in 1 .. n + 1 : x[j] = v[j]
      BY <1>2, <2>1, <3>1, <3>2
    <3> QED BY <3>1, <3>3 DEF x
  <2>3. s = v \o f
    BY DEF v
  <2>4. 1 \in 1 .. n + 1 /\ \A j \in 1 .. n : j + 1 \in 1 .. n + 1
    BY <1>4
  <2> HIDE DEF s
  <2> QED BY <1>2, <2>1, <2>2, <2>3, <2>4
<1> DEFINE R == [j \in 1 .. n + 1 |-> Q[j - 1]]
<1>7. \A j \in 1 .. n + 1 : j - 1 \in 0 .. n /\ R[j] = Q[j - 1]
  BY <1>4
<1>8. R \in [1 .. n + 1 -> Parsing] /\ R[1] = Clean /\ R[n + 1] = [rxd |-> body, esc |-> FALSE]
  <2>1. 1 \in 1 .. n + 1 /\ 1 - 1 = 0 /\ n + 1 \in 1 .. n + 1 /\ (n + 1) - 1 = n
    BY <1>4
  <2>2. Q \in [0 .. n -> Parsing] /\ Q[0] = Clean /\ Q[n] = [rxd |-> body, esc |-> FALSE]
    BY <1>1 DEF Unstuffs
  <2>3. R \in [1 .. n + 1 -> Parsing]
    BY <1>7, <2>2
  <2> HIDE DEF R
  <2> QED BY <1>7, <2>1, <2>2, <2>3
<1> HIDE DEF R, s
<1>9. \A j \in 2 .. n + 1 : s[j] # PPP_FLAG_CHAR /\ R[j] = Unstuff(R[j - 1], s[j])
  <2> SUFFICES ASSUME NEW j \in 2 .. n + 1
               PROVE  s[j] # PPP_FLAG_CHAR /\ R[j] = Unstuff(R[j - 1], s[j])
    OBVIOUS
  <2>1. /\ j - 1 \in 1 .. n /\ (j - 1) + 1 = j /\ j \in 1 .. n + 1 /\ j - 1 \in 1 .. n + 1
        /\ (j - 1) - 1 \in 0 .. n
    BY <1>4
  <2>2. s[j] = w[j - 1] /\ R[j] = Q[j - 1] /\ R[j - 1] = Q[(j - 1) - 1]
    BY <1>6, <1>7, <2>1
  <2>3. w[j - 1] # PPP_FLAG_CHAR /\ Q[j - 1] = Unstuff(Q[(j - 1) - 1], w[j - 1])
    BY <1>1, <2>1 DEF Unstuffs
  <2> QED BY <2>2, <2>3
<1>10. \A j \in 1 .. n + 1 : Len(R[j].rxd) <= Len(body)
  BY <1>1, <1>7 DEF Unstuffs
<1>11. (n + 2) - 1 = n + 1 /\ n + 2 >= 3 /\ n + 2 \in Nat
  BY <1>4, <1>5
<1>12. Parses(R, body)
  <2>1. Stuffed(body) = s /\ Len(Stuffed(body)) = n + 2 /\ s \in Seq(0 .. 255)
    BY <1>3, <1>6
  <2> HIDE DEF n
  <2> QED BY <1>6, <1>8, <1>9, <1>10, <1>11, <2>1 DEF Parses
<1> QED BY <1>12

-----------------------------------------------------------------------------
(* What the event task does with the bytes it reads, one by one.           *)

\* Bytes of the first n frames; what the receiver keeps and the frames it makes.
Bytes(n)     == [c : 0 .. 255, n : 1 .. n, at : Nat \ {0}, end : BOOLEAN]
Frames(n)    == [n : 1 .. n, body : Seq(0 .. 255)]
Receivers(n) == [rxd : Seq(0 .. 255), esc : BOOLEAN, out : Seq(Frames(n))]

LEMMA MaskedType ==
  ASSUME NEW c \in 0 .. 255 PROVE Masked(c) \in 0 .. 255
BY DEF Masked, PPP_MASK_CHAR

LEMMA AppendType ==
  ASSUME NEW S, NEW q \in Seq(S), NEW e \in S PROVE Append(q, e) \in Seq(S)
OBVIOUS

LEMMA EmptyType == ASSUME NEW S PROVE << >> \in Seq(S)
OBVIOUS

LEMMA RxdByteType ==
  ASSUME NEW n \in Nat, NEW r \in Receivers(n), NEW b \in Bytes(n)
  PROVE  RxdByte(r, b) \in Receivers(n)
<1> DEFINE S == 0 .. 255
           F == Frames(n)
<1>1. /\ r = [rxd |-> r.rxd, esc |-> r.esc, out |-> r.out]
      /\ r.rxd \in Seq(S) /\ r.esc \in BOOLEAN /\ r.out \in Seq(F)
  BY DEF Receivers
<1>2. b.c \in S /\ b.n \in 1 .. n
  BY DEF Bytes
<1>3. Masked(b.c) \in S
  BY <1>2, MaskedType
<1>4. [n |-> b.n, body |-> r.rxd] \in F
  BY <1>1, <1>2 DEF Frames
<1> HIDE DEF S, F
<1>5. << >> \in Seq(S)
  BY EmptyType
<1>6. Append(r.out, [n |-> b.n, body |-> r.rxd]) \in Seq(F)
  BY <1>1, <1>4, AppendType
<1>7. Append(r.rxd, Masked(b.c)) \in Seq(S) /\ Append(r.rxd, b.c) \in Seq(S)
  BY <1>1, <1>2, <1>3, AppendType
<1>8. ASSUME NEW rxd \in Seq(S), NEW esc \in BOOLEAN, NEW out \in Seq(F)
      PROVE  [rxd |-> rxd, esc |-> esc, out |-> out] \in Receivers(n)
  BY <1>8 DEF Receivers, S, F
<1>9. CASE b.c = PPP_ESC_CHAR
  <2>1. RxdByte(r, b) = [r EXCEPT !.esc = TRUE]
    BY <1>9 DEF RxdByte, PPP_ESC_CHAR, PPP_FLAG_CHAR
  <2> QED BY <2>1 DEF Receivers
<1>10. CASE b.c # PPP_ESC_CHAR /\ b.c = PPP_FLAG_CHAR
  <2> DEFINE out == IF r.rxd # << >> THEN Append(r.out, [n |-> b.n, body |-> r.rxd]) ELSE r.out
  <2>1. RxdByte(r, b) = [rxd |-> << >>, esc |-> r.esc, out |-> out]
    BY <1>1, <1>10 DEF RxdByte, RxdFlag
  <2>2. out \in Seq(F)
    BY <1>1, <1>6
  <2> HIDE DEF out
  <2> QED BY <1>1, <1>5, <1>8, <2>1, <2>2
<1>11. CASE b.c # PPP_ESC_CHAR /\ b.c # PPP_FLAG_CHAR
  <2>1. RxdByte(r, b) = RxdData(r, b)
    BY <1>11 DEF RxdByte
  <2>2. CASE r.esc
    <3>1. RxdData(r, b) = [rxd |-> Append(r.rxd, Masked(b.c)), esc |-> FALSE, out |-> r.out]
      BY <1>1, <2>2 DEF RxdData
    <3> QED BY <1>1, <1>7, <1>8, <2>1, <3>1
  <2>3. CASE ~r.esc /\ Len(r.rxd) < FRAME_MAX
    <3>0. Len(r.rxd) \in Nat /\ FRAME_MAX \in Nat
      BY <1>1, SerialLinkAssumption
    <3>1. RxdData(r, b) = [r EXCEPT !.rxd = Append(r.rxd, b.c)]
      BY <2>3, <3>0 DEF RxdData
    <3> DEFINE x == Append(r.rxd, b.c)
    <3>2. x \in Seq(S)
      BY <1>7
    <3> HIDE DEF x, S
    <3>3. [r EXCEPT !.rxd = x] \in Receivers(n)
      <4>1. [r EXCEPT !.rxd = x] = [rxd |-> x, esc |-> r.esc, out |-> r.out]
        BY <1>1
      <4> QED BY <1>1, <1>8, <3>2, <4>1
    <3> QED BY <2>1, <3>1, <3>3 DEF x
  <2>4. CASE ~r.esc /\ Len(r.rxd) >= FRAME_MAX
    <3>0. Len(r.rxd) \in Nat /\ FRAME_MAX \in Nat
      BY <1>1, SerialLinkAssumption
    <3>1. RxdData(r, b) = [rxd |-> << >>, esc |-> r.esc, out |-> r.out]
      BY <1>1, <2>4, <3>0, SMTT(30) DEF RxdData
    <3> QED BY <1>1, <1>5, <1>8, <2>1, <3>1
  <2>5. Len(r.rxd) < FRAME_MAX \/ Len(r.rxd) >= FRAME_MAX
    BY <1>1, SerialLinkAssumption
  <2> QED BY <2>2, <2>3, <2>4, <2>5
<1> QED BY <1>9, <1>10, <1>11

\* onRxd gives the bytes to rxdByte in their order.
RxdTrace(t, n, r, bytes) ==
  /\ t \in [0 .. Len(bytes) -> Receivers(n)]
  /\ t[0] = r
  /\ \A k \in 1 .. Len(bytes) : t[k] = RxdByte(t[k - 1], bytes[k])
  /\ OnRxd(r, bytes) = t[Len(bytes)]

LEMMA OnRxdTrace ==
  ASSUME NEW h \in Nat, NEW r \in Receivers(h), NEW in \in Seq(Bytes(h))
  PROVE  \E t : RxdTrace(t, h, r, in)
<1> DEFINE n == Len(in)
           D == Receivers(h)
           S == Bytes(h)
           base == r
           Iter(f) == [s \in SUBSET DOMAIN in |->
                         IF s = {} THEN base ELSE RxdByte(f[s \ {Max(s)}], in[Max(s)])]
           apply == [k \in 1 .. n |-> [d \in D |-> RxdByte(d, in[k])]]
           iter == CHOOSE f : f = Iter(f)
<1>0. n \in Nat /\ DOMAIN in = 1 .. n /\ \A k \in 1 .. n : in[k] \in S
  <2> HIDE DEF S
  <2>1. in \in Seq(S)
    BY DEF S
  <2> QED BY <2>1
<1>a. base \in D
  OBVIOUS
<1>b. apply \in [1 .. n -> [D -> D]]
  <2>1. ASSUME NEW k \in 1 .. n, NEW d \in D PROVE RxdByte(d, in[k]) \in D
    <3>1. in[k] \in S
      BY <1>0
    <3> QED BY <3>1, RxdByteType
  <2> HIDE DEF n, D
  <2> QED BY <2>1
<1> HIDE DEF D, base, S
<1>1. ASSUME NEW s \in SUBSET (1 .. n), s # {} PROVE Max(s) \in 1 .. n
  BY <1>0, <1>1, MaxIn
<1>2. iter = Iter(iter)
  <2>1. PICK f \in [SUBSET (1 .. n) -> D] : Folds(f, n, base, apply)
    <3> HIDE DEF n, apply
    <3> QED BY <1>0, <1>a, <1>b, FoldExists
  <2>2. ASSUME NEW s \in SUBSET (1 .. n), s # {}
        PROVE  apply[Max(s)][f[s \ {Max(s)}]] = RxdByte(f[s \ {Max(s)}], in[Max(s)])
    BY <1>1, <2>2
  <2>3. f = Iter(f)
    <3> HIDE DEF apply
    <3> QED BY <2>1, <2>2, <1>0 DEF Folds, FoldsAt
  <2> QED BY <2>3
<1>3. OnRxd(base, in) = iter[DOMAIN in]
  BY DEF OnRxd, FoldLeft, MapThenFoldSet
<1>4. PICK t \in [0 .. n -> D] : Trace(t, n, base, apply) /\ t[n] = iter[1 .. n]
  <2>1. iter[{}] = base
    BY <1>2
  <2>2. ASSUME NEW s \in SUBSET (1 .. n), s # {}, iter[s \ {Max(s)}] \in D
        PROVE  iter[s] = apply[Max(s)][iter[s \ {Max(s)}]]
    <3>1. iter[s] = RxdByte(iter[s \ {Max(s)}], in[Max(s)])
      <4> HIDE DEF iter
      <4> QED BY <1>0, <1>2, <2>2
    <3> HIDE DEF iter
    <3> QED BY <1>1, <2>2, <3>1
  <2>3. FoldsWithin(iter, n, D, base, apply)
    <3> HIDE DEF iter, n, apply
    <3> QED BY <2>1, <2>2 DEF FoldsWithin
  <2> HIDE DEF iter, n, apply
  <2>4. EndsTrace(iter[1 .. n], n, D, base, apply)
    BY <1>0, <1>a, <1>b, <2>3, FoldTrace
  <2> QED BY <2>4 DEF EndsTrace
<1>5. /\ t[0] = base
      /\ \A k \in 1 .. n : t[k] = RxdByte(t[k - 1], in[k])
  <2>1. ASSUME NEW k \in 1 .. n PROVE apply[k][t[k - 1]] = RxdByte(t[k - 1], in[k])
    <3>1. k - 1 \in 0 .. n
      BY <1>0
    <3> QED BY <3>1
  <2> HIDE DEF apply
  <2> QED BY <1>4, <2>1 DEF Trace
<1>6. OnRxd(base, in) = t[n]
  BY <1>0, <1>3, <1>4
<1> QED BY <1>4, <1>5, <1>6 DEF D, base, RxdTrace

-----------------------------------------------------------------------------
(* What the queue of events announces.                                     *)

Sum(q) == FoldLeft(LAMBDA a, b : a + b, 0, q)

LEMMA SumTrace ==
  ASSUME NEW q \in Seq(Nat)
  PROVE  \E t \in [0 .. Len(q) -> Nat] :
           /\ t[0] = 0
           /\ \A k \in 1 .. Len(q) : t[k] = t[k - 1] + q[k]
           /\ Sum(q) = t[Len(q)]
<1> DEFINE n == Len(q)
           Iter(f) == [s \in SUBSET DOMAIN q |-> IF s = {} THEN 0 ELSE f[s \ {Max(s)}] + q[Max(s)]]
           apply == [k \in 1 .. n |-> [d \in Nat |-> d + q[k]]]
           base == 0
           iter == CHOOSE f : f = Iter(f)
<1>0. n \in Nat /\ DOMAIN q = 1 .. n /\ apply \in [1 .. n -> [Nat -> Nat]] /\ base \in Nat
  OBVIOUS
<1>1. ASSUME NEW s \in SUBSET (1 .. n), s # {} PROVE Max(s) \in 1 .. n
  BY <1>0, <1>1, MaxIn
<1>2. iter = Iter(iter)
  <2>1. PICK f \in [SUBSET (1 .. n) -> Nat] : Folds(f, n, base, apply)
    <3> HIDE DEF n, apply, base
    <3> QED BY <1>0, FoldExists
  <2>2. ASSUME NEW s \in SUBSET (1 .. n), s # {} PROVE apply[Max(s)][f[s \ {Max(s)}]] = f[s \ {Max(s)}] + q[Max(s)]
    BY <1>1, <2>2
  <2>3. f = Iter(f)
    <3> HIDE DEF apply
    <3> QED BY <2>1, <2>2, <1>0 DEF Folds, FoldsAt
  <2> QED BY <2>3
<1>3. Sum(q) = iter[DOMAIN q]
  BY DEF Sum, FoldLeft, MapThenFoldSet
<1>4. PICK t \in [0 .. n -> Nat] : Trace(t, n, base, apply) /\ t[n] = iter[1 .. n]
  <2>1. iter[{}] = base
    BY <1>2
  <2>2. ASSUME NEW s \in SUBSET (1 .. n), s # {}, iter[s \ {Max(s)}] \in Nat
        PROVE  iter[s] = apply[Max(s)][iter[s \ {Max(s)}]]
    <3>1. iter[s] = iter[s \ {Max(s)}] + q[Max(s)]
      <4> HIDE DEF iter
      <4> QED BY <1>0, <1>2, <2>2
    <3> HIDE DEF iter
    <3> QED BY <1>1, <2>2, <3>1
  <2>3. FoldsWithin(iter, n, Nat, base, apply)
    <3> HIDE DEF iter, n, apply, base
    <3> QED BY <2>1, <2>2 DEF FoldsWithin
  <2> HIDE DEF iter, n, apply, base
  <2>4. EndsTrace(iter[1 .. n], n, Nat, base, apply)
    BY <1>0, <2>3, FoldTrace
  <2> QED BY <2>4 DEF EndsTrace
<1>5. /\ t[0] = 0
      /\ \A k \in 1 .. n : t[k] = t[k - 1] + q[k]
  <2>1. ASSUME NEW k \in 1 .. n PROVE apply[k][t[k - 1]] = t[k - 1] + q[k]
    <3>1. k - 1 \in 0 .. n
      BY <1>0
    <3> QED BY <3>1
  <2> HIDE DEF apply
  <2> QED BY <1>4, <2>1 DEF Trace
<1>6. Sum(q) = t[n]
  BY <1>0, <1>3, <1>4
<1> QED BY <1>4, <1>5, <1>6

LEMMA SumAppend ==
  ASSUME NEW q \in Seq(Nat), NEW e \in Nat
  PROVE  Sum(q) \in Nat /\ Sum(Append(q, e)) = Sum(q) + e
<1> DEFINE n == Len(q)
           a == Append(q, e)
<1>1. /\ n \in Nat /\ a \in Seq(Nat) /\ Len(a) = n + 1 /\ a[n + 1] = e
      /\ \A k \in 1 .. n : a[k] = q[k]
  OBVIOUS
<1>2. PICK t \in [0 .. n -> Nat] :
        t[0] = 0 /\ (\A k \in 1 .. n : t[k] = t[k - 1] + q[k]) /\ Sum(q) = t[n]
  BY SumTrace
<1> HIDE DEF a
<1>3. PICK u \in [0 .. n + 1 -> Nat] :
        u[0] = 0 /\ (\A k \in 1 .. n + 1 : u[k] = u[k - 1] + a[k]) /\ Sum(a) = u[n + 1]
  <2>1. \E u \in [0 .. Len(a) -> Nat] :
           u[0] = 0 /\ (\A k \in 1 .. Len(a) : u[k] = u[k - 1] + a[k]) /\ Sum(a) = u[Len(a)]
    BY <1>1, SumTrace
  <2> QED BY <1>1, <2>1
<1> DEFINE P == {k \in Nat : k <= n => u[k] = t[k]}
<1>4. P = Nat
  <2>1. 0 \in P
    BY <1>2, <1>3
  <2>2. ASSUME NEW k \in P PROVE k + 1 \in P
    <3> SUFFICES ASSUME k + 1 <= n PROVE u[k + 1] = t[k + 1]
      OBVIOUS
    <3>1. k + 1 \in 1 .. n /\ k + 1 \in 1 .. n + 1 /\ (k + 1) - 1 = k /\ u[k] = t[k]
      BY <1>1
    <3> QED BY <1>1, <1>2, <1>3, <3>1
  <2>3. P \in SUBSET Nat
    OBVIOUS
  <2> HIDE DEF P
  <2> QED BY <2>1, <2>2, <2>3, Induction
<1>5. u[n] = t[n] /\ t[n] \in Nat
  BY <1>1, <1>4
<1>6. u[n + 1] = u[n] + e
  <2>1. n + 1 \in 1 .. n + 1 /\ (n + 1) - 1 = n
    BY <1>1
  <2> QED BY <1>1, <1>3, <2>1
<1> HIDE DEF n
<1> QED BY <1>2, <1>3, <1>5, <1>6 DEF a

LEMMA SumTail ==
  ASSUME NEW q \in Seq(Nat), q # << >>
  PROVE  Sum(q) = Head(q) + Sum(Tail(q)) /\ Sum(Tail(q)) \in Nat /\ Head(q) \in Nat
<1> DEFINE n == Len(q)
           a == Tail(q)
<1>1. /\ n \in Nat /\ n # 0 /\ a \in Seq(Nat) /\ Len(a) = n - 1 /\ q[1] = Head(q) /\ q[1] \in Nat
      /\ \A k \in 1 .. n - 1 : a[k] = q[k + 1]
  OBVIOUS
<1>2. PICK t \in [0 .. n -> Nat] :
        t[0] = 0 /\ (\A k \in 1 .. n : t[k] = t[k - 1] + q[k]) /\ Sum(q) = t[n]
  BY SumTrace
<1> HIDE DEF a
<1>3. PICK u \in [0 .. n - 1 -> Nat] :
        u[0] = 0 /\ (\A k \in 1 .. n - 1 : u[k] = u[k - 1] + a[k]) /\ Sum(a) = u[n - 1]
  <2>1. \E u \in [0 .. Len(a) -> Nat] :
           u[0] = 0 /\ (\A k \in 1 .. Len(a) : u[k] = u[k - 1] + a[k]) /\ Sum(a) = u[Len(a)]
    BY <1>1, SumTrace
  <2> QED BY <1>1, <2>1
<1> DEFINE P == {k \in Nat : k <= n - 1 => t[k + 1] = q[1] + u[k]}
<1>4. P = Nat
  <2>1. 0 \in P
    <3>1. 1 \in 1 .. n /\ 1 - 1 = 0 /\ 0 + 1 = 1
      BY <1>1
    <3> QED BY <1>1, <1>2, <1>3, <3>1
  <2>2. ASSUME NEW k \in P PROVE k + 1 \in P
    <3> SUFFICES ASSUME k + 1 <= n - 1 PROVE t[(k + 1) + 1] = q[1] + u[k + 1]
      OBVIOUS
    <3>1. /\ k + 1 \in 1 .. n - 1 /\ (k + 1) + 1 \in 1 .. n /\ (k + 1) - 1 = k
          /\ ((k + 1) + 1) - 1 = k + 1 /\ k \in 0 .. n - 1 /\ k <= n - 1
      BY <1>1
    <3>2. t[(k + 1) + 1] = t[k + 1] + q[(k + 1) + 1] /\ u[k + 1] = u[k] + q[(k + 1) + 1]
      BY <1>1, <1>2, <1>3, <3>1
    <3>3. t[k + 1] = q[1] + u[k] /\ u[k] \in Nat
      BY <3>1
    <3>4. q[(k + 1) + 1] \in Nat
      BY <3>1
    <3>5. q[1] \in Nat
      BY <1>1
    <3> DEFINE x == q[(k + 1) + 1]
               y == u[k]
               z == q[1]
               s == t[(k + 1) + 1]
               v == u[k + 1]
    <3>6. s = (z + y) + x /\ v = y + x /\ x \in Nat /\ y \in Nat /\ z \in Nat
      BY <3>2, <3>3, <3>4, <3>5
    <3> HIDE DEF x, y, z, s, v
    <3>7. s = z + v
      BY <3>6
    <3> QED BY <3>7 DEF z, s, v
  <2>3. P \in SUBSET Nat
    OBVIOUS
  <2> HIDE DEF P
  <2> QED BY <2>1, <2>2, <2>3, Induction
<1>5. t[n] = q[1] + u[n - 1] /\ u[n - 1] \in Nat
  <2>1. n - 1 \in P /\ (n - 1) + 1 = n /\ n - 1 \in 0 .. n - 1
    <3> HIDE DEF P
    <3> QED BY <1>1, <1>4
  <2> QED BY <2>1, SMTT(30)
<1> HIDE DEF n
<1> QED BY <1>1, <1>2, <1>3, <1>5 DEF a

-----------------------------------------------------------------------------
(* Types, and what is announced.                                           *)

Sent == Len(bodies)
Lasts(n) == [c : 0 .. 255, n : 0 .. n, at : Nat \ {0}, end : BOOLEAN]

Lines ==
  /\ bodies \in Seq(Bodies) /\ Sent <= MaxFrames
  /\ wire \in Seq(Bytes(Sent)) /\ ring \in Seq(Bytes(Sent))
  /\ damaged \subseteq 1 .. Sent /\ losses \in 0 .. MaxLosses

Parsed ==
  /\ Receiver \in Receivers(Sent)
  /\ last \in Lasts(Sent)

Queued ==
  /\ rxdFrame \in Seq(Frames(Sent)) /\ Len(rxdFrame) <= FrameDepth
  /\ handled \subseteq 1 .. Sent /\ dropped \in BOOLEAN

\* The ring holds what is announced and what the event task is about to read.
Waiting ==
  /\ Len(ring) <= RingSize
  /\ uartEvents \in Seq(0 .. MaxChunk) /\ Len(uartEvents) <= EventDepth
  /\ task \in {"wait", "read", "flush", "reset"} /\ size \in 0 .. MaxChunk
  /\ size # 0 <=> task = "read"
  /\ task \in {"wait", "read"} => size + Sum(uartEvents) <= Len(ring)

SerialTypes == Lines /\ Parsed /\ Queued /\ Waiting

LEMMA MoreFrames ==
  ASSUME NEW n \in Nat
  PROVE  /\ Bytes(n) \subseteq Bytes(n + 1) /\ Lasts(n) \subseteq Lasts(n + 1)
         /\ Frames(n) \subseteq Frames(n + 1) /\ Receivers(n) \subseteq Receivers(n + 1)
<1>1. 1 .. n \subseteq 1 .. n + 1 /\ 0 .. n \subseteq 0 .. n + 1
  OBVIOUS
<1>2. Bytes(n) \subseteq Bytes(n + 1)
  BY <1>1 DEF Bytes
<1>3. Lasts(n) \subseteq Lasts(n + 1)
  BY <1>1 DEF Lasts
<1>4. Frames(n) \subseteq Frames(n + 1)
  BY <1>1 DEF Frames
<1>5. Receivers(n) \subseteq Receivers(n + 1)
  <2> SUFFICES ASSUME NEW r \in Receivers(n) PROVE r \in Receivers(n + 1)
    OBVIOUS
  <2> DEFINE F == Frames(n)
             G == Frames(n + 1)
  <2>1. r.out \in Seq(F) /\ F \subseteq G
    BY <1>4 DEF Receivers
  <2> HIDE DEF F, G
  <2>2. r.out \in Seq(G)
    BY <2>1
  <2> QED BY <2>2 DEF Receivers, G
<1> QED BY <1>2, <1>3, <1>4, <1>5

LEMMA WiderSeq ==
  ASSUME NEW S, NEW T, S \subseteq T, NEW q \in Seq(S) PROVE q \in Seq(T)
OBVIOUS

\* The bytes of a frame.
LEMMA WireFrameType ==
  ASSUME NEW n \in Nat \ {0}, NEW body \in Bodies
  PROVE  /\ WireFrame(n, body) \in Seq(Bytes(n))
         /\ Len(WireFrame(n, body)) = Len(Stuffed(body))
<1> DEFINE s == Stuffed(body)
           m == Len(s)
           S == 0 .. 255
           B == Bytes(n)
           w == WireFrame(n, body)
<1>1. body \in Seq(0 .. 255) /\ body # << >>
  BY SerialLinkAssumption
<1>2. PICK R : Parses(R, body)
  BY <1>1, StuffedShape
<1>3. s \in Seq(0 .. 255) /\ m \in Nat
  BY <1>2 DEF Parses
<1> HIDE DEF s
<1>4. \A i \in 1 .. m : s[i] \in 0 .. 255
  <2>1. s \in Seq(S)
    BY <1>3
  <2> HIDE DEF S
  <2>2. \A i \in 1 .. m : s[i] \in S
    BY <2>1
  <2> QED BY <2>2 DEF S
<1>5. w = [i \in 1 .. m |-> [c |-> s[i], n |-> n, at |-> i, end |-> i = m]]
  BY DEF WireFrame, s
<1>6. ASSUME NEW i \in 1 .. m PROVE [c |-> s[i], n |-> n, at |-> i, end |-> i = m] \in B
  <2>1. n \in 1 .. n /\ i \in Nat \ {0} /\ s[i] \in 0 .. 255
    BY <1>3, <1>4
  <2>2. (i = m) \in BOOLEAN
    BY Zenon
  <2> DEFINE e == i = m
  <2> HIDE DEF e
  <2>3. e \in BOOLEAN
    BY <2>2 DEF e
  <2>4. [c |-> s[i], n |-> n, at |-> i, end |-> e] \in B
    BY <2>1, <2>3 DEF Bytes
  <2> QED BY <2>4 DEF e
<1> HIDE DEF B, w
<1> DEFINE g(i) == [c |-> s[i], n |-> n, at |-> i, end |-> i = m]
<1>7. \A i \in 1 .. m : g(i) \in B
  BY <1>6
<1>8. w = [i \in 1 .. m |-> g(i)]
  BY <1>5
<1> HIDE DEF m, g
<1>9. w \in Seq(B) /\ Len(w) = m
  BY <1>3, <1>7, <1>8
<1> QED BY <1>9 DEF w, B, m, s

LEMMA NumbersType ==
  ASSUME NEW n \in Nat, NEW q \in Seq(Bytes(n)) PROVE Numbers(q) \subseteq 1 .. n
<1> DEFINE B == Bytes(n)
<1>1. \A b \in B : b.n \in 1 .. n
  BY DEF Bytes
<1>2. q \in Seq(B)
  OBVIOUS
<1> HIDE DEF B
<1>3. \A i \in 1 .. Len(q) : q[i] \in B
  BY <1>2
<1> QED BY <1>1, <1>3 DEF Numbers

-----------------------------------------------------------------------------
(* Every step keeps the types, and what is announced.                      *)

LEMMA SerialTypesInit == SerialLinkInit => SerialTypes
<1> SUFFICES ASSUME SerialLinkInit PROVE SerialTypes
  OBVIOUS
<1>1. Sent = 0 /\ Sum(<< >>) = 0 /\ Len(<< >>) = 0
  <2>1. \A q : q = << >> => Sum(q) = 0
    <3> SUFFICES ASSUME NEW q, q = << >> PROVE Sum(q) = 0
      OBVIOUS
    <3>1. q \in Seq(Nat) /\ Len(q) = 0
      OBVIOUS
    <3> QED BY <3>1, SumTrace
  <2> QED BY <2>1 DEF SerialLinkInit, Sent
<1>2. Lines
  BY <1>1, SerialLinkAssumption, EmptyType DEF SerialLinkInit, Lines
<1>3. Parsed
  <2>1. Receiver = [rxd |-> << >>, esc |-> FALSE, out |-> << >>]
    BY DEF SerialLinkInit, Receiver
  <2>2. Receiver \in Receivers(0)
    <3> DEFINE F == Frames(0)
               S == 0 .. 255
    <3>1. << >> \in Seq(F) /\ << >> \in Seq(S)
      BY EmptyType
    <3> HIDE DEF F, S
    <3>2. [rxd |-> << >>, esc |-> FALSE, out |-> << >>] \in [rxd : Seq(S), esc : BOOLEAN, out : Seq(F)]
      BY <3>1
    <3> QED BY <2>1, <3>2 DEF Receivers, F, S
  <2>3. last \in Lasts(0)
    BY DEF SerialLinkInit, Lasts, PPP_FLAG_CHAR
  <2> QED BY <1>1, <2>2, <2>3 DEF Parsed
<1>4. Queued
  <2> DEFINE F == Frames(Sent)
  <2>1. rxdFrame = << >> /\ handled = {} /\ dropped = FALSE
    BY DEF SerialLinkInit
  <2>2. rxdFrame \in Seq(F) /\ Len(rxdFrame) = 0
    <3> HIDE DEF F
    <3> QED BY <2>1, EmptyType
  <2>3. 0 <= FrameDepth
    BY SerialLinkAssumption
  <2> QED BY <2>1, <2>2, <2>3 DEF Queued
<1>5. Waiting
  BY <1>1, SerialLinkAssumption, EmptyType DEF SerialLinkInit, Waiting
<1> QED BY <1>2, <1>3, <1>4, <1>5 DEF SerialTypes

LEMMA TypesPeerSends == ASSUME SerialTypes, PeerSends PROVE SerialTypes'
<1> DEFINE K == Len(bodies)
<1>1. K \in Nat /\ bodies \in Seq(Bodies)
  BY DEF SerialTypes, Lines
<1>2. PICK body \in Bodies : bodies' = Append(bodies, body) /\ wire' = WireFrame(K + 1, body)
  BY DEF PeerSends
<1>3. Len(bodies') = K + 1 /\ bodies' \in Seq(Bodies) /\ K < MaxFrames
  BY <1>1, <1>2 DEF PeerSends
<1>4. /\ Bytes(K) \subseteq Bytes(K + 1) /\ Lasts(K) \subseteq Lasts(K + 1)
      /\ Frames(K) \subseteq Frames(K + 1) /\ Receivers(K) \subseteq Receivers(K + 1)
  BY <1>1, MoreFrames
<1>5. wire' \in Seq(Bytes(K + 1))
  <2>1. K + 1 \in Nat \ {0}
    BY <1>1
  <2> QED BY <1>2, <2>1, WireFrameType
<1>6. Lines'
  <2>1. ring' \in Seq(Bytes(K + 1))
    BY <1>4, WiderSeq DEF PeerSends, SerialTypes, Lines, Sent
  <2>2. damaged' \subseteq 1 .. K + 1 /\ losses' \in 0 .. MaxLosses
    BY <1>1 DEF PeerSends, SerialTypes, Lines, Sent
  <2>3. K + 1 <= MaxFrames
    BY <1>1, <1>3, SerialLinkAssumption
  <2> HIDE DEF K
  <2> QED BY <1>3, <1>5, <2>1, <2>2, <2>3 DEF Lines, Sent
<1>7. Parsed'
  <2>1. Receiver' = Receiver /\ last' = last
    BY DEF PeerSends, framing, Receiver
  <2>2. Receiver \in Receivers(K) /\ last \in Lasts(K)
    BY DEF SerialTypes, Parsed, Sent
  <2>3. Receiver' \in Receivers(K + 1) /\ last' \in Lasts(K + 1)
    BY <1>4, <2>1, <2>2
  <2> HIDE DEF K
  <2> QED BY <1>3, <2>3 DEF Parsed, Sent
<1>8. Queued'
  <2>1. rxdFrame' \in Seq(Frames(K + 1))
    BY <1>4, WiderSeq DEF PeerSends, SerialTypes, Queued, Sent
  <2>2. Len(rxdFrame') <= FrameDepth /\ handled' \subseteq 1 .. K + 1 /\ dropped' \in BOOLEAN
    BY <1>1 DEF PeerSends, SerialTypes, Queued, Sent
  <2> HIDE DEF K
  <2> QED BY <1>3, <2>1, <2>2 DEF Queued, Sent
<1>9. Waiting'
  <2>1. UNCHANGED <<ring, uartEvents, task, size>>
    BY DEF PeerSends
  <2> QED BY <2>1 DEF SerialTypes, Waiting
<1> QED BY <1>6, <1>7, <1>8, <1>9 DEF SerialTypes

\* An event that is posted, or lost.
LEMMA PostedSum ==
  ASSUME uartEvents \in Seq(0 .. MaxChunk), Len(uartEvents) <= EventDepth,
         NEW e \in 0 .. MaxChunk
  PROVE  /\ Posted(e) \in Seq(0 .. MaxChunk) /\ Len(Posted(e)) <= EventDepth
         /\ Sum(uartEvents) \in Nat /\ Sum(Posted(e)) \in Nat
         /\ Sum(Posted(e)) <= Sum(uartEvents) + e
<1> DEFINE S == 0 .. MaxChunk
           q == uartEvents
<1>1. q \in Seq(S) /\ S \subseteq Nat /\ e \in S /\ EventDepth \in Nat /\ Len(q) \in Nat /\ e \in Nat
  BY SerialLinkAssumption
<1> HIDE DEF S
<1>2. q \in Seq(Nat)
  BY <1>1, WiderSeq
<1>3. Sum(q) \in Nat /\ Sum(Append(q, e)) = Sum(q) + e
  BY <1>1, <1>2, SumAppend
<1>4. Append(q, e) \in Seq(S) /\ Len(Append(q, e)) = Len(q) + 1
  BY <1>1
<1>5. CASE Len(q) < EventDepth
  <2>1. Posted(e) = Append(q, e)
    BY <1>5 DEF Posted
  <2>2. Len(Append(q, e)) <= EventDepth
    BY <1>1, <1>4, <1>5
  <2> QED BY <1>1, <1>3, <1>4, <2>1, <2>2 DEF S
<1>6. CASE ~(Len(q) < EventDepth)
  <2>1. Posted(e) = q
    BY <1>6 DEF Posted
  <2> QED BY <1>1, <1>3, <2>1 DEF S
<1> QED BY <1>5, <1>6

\* The wire loses its first k bytes, to the ring or altogether.
LEMMA WireDrops ==
  ASSUME Lines, NEW k \in Nat, k <= Len(wire)
  PROVE  /\ SubSeq(wire, k + 1, Len(wire)) \in Seq(Bytes(Sent))
         /\ SubSeq(wire, 1, k) \in Seq(Bytes(Sent)) /\ Len(SubSeq(wire, 1, k)) = k
<1> DEFINE B == Bytes(Sent)
<1>1. wire \in Seq(B)
  BY DEF Lines
<1> HIDE DEF B
<1>2. k + 1 \in 1 .. Len(wire) + 1 /\ Len(wire) \in 0 .. Len(wire) /\ k \in 0 .. Len(wire)
      /\ 1 \in 1 .. Len(wire) + 1 /\ k + 1 <= Len(wire) + 1 /\ 1 <= k + 1 /\ (k - 1) + 1 = k
  BY <1>1
<1>3. SubSeq(wire, k + 1, Len(wire)) \in Seq(B) /\ SubSeq(wire, 1, k) \in Seq(B)
      /\ Len(SubSeq(wire, 1, k)) = k
  BY <1>1, <1>2
<1> QED BY <1>3 DEF B

LEMMA TypesArrive ==
  ASSUME SerialTypes, NEW k \in 1 .. MaxChunk, BytesArrive(k) PROVE SerialTypes'
<1> DEFINE s == SubSeq(wire, 1, k)
           B == Bytes(Sent)
<1>1. k \in Nat /\ k <= Len(wire) /\ Len(ring) + k <= RingSize /\ Lines
  <2>1. Len(wire) \in Nat
    BY DEF SerialTypes, Lines
  <2> QED BY <2>1, SerialLinkAssumption DEF BytesArrive, SerialTypes
<1>2. wire' \in Seq(B) /\ s \in Seq(B) /\ Len(s) = k
  <2>1. wire' = SubSeq(wire, k + 1, Len(wire))
    BY DEF BytesArrive
  <2> QED BY <1>1, <2>1, WireDrops
<1>3. ring' \in Seq(B) /\ Len(ring') = Len(ring) + k /\ Len(ring) \in Nat
  <2>1. ring' = ring \o s /\ ring \in Seq(B) /\ s \in Seq(B)
    BY <1>2 DEF BytesArrive, SerialTypes, Lines
  <2> HIDE DEF s, B
  <2>2. ring' \in Seq(B) /\ Len(ring') = Len(ring) + Len(s)
    BY <2>1, Joined
  <2>3. Len(ring) \in Nat
    BY <2>1
  <2> QED BY <1>2, <2>2, <2>3
<1>4. Sent' = Sent
  BY DEF BytesArrive, Sent
<1>5. Lines'
  BY <1>2, <1>3, <1>4 DEF BytesArrive, SerialTypes, Lines
<1>6. Parsed' /\ Queued'
  BY <1>4 DEF BytesArrive, SerialTypes, Parsed, Queued, Receiver, framing
<1>7. Waiting'
  <2>1. /\ uartEvents' \in Seq(0 .. MaxChunk) /\ Len(uartEvents') <= EventDepth
        /\ Sum(uartEvents) \in Nat /\ Sum(uartEvents') \in Nat
        /\ Sum(uartEvents') <= Sum(uartEvents) + k
    <3>1. k \in 0 .. MaxChunk
      BY SerialLinkAssumption
    <3>2. uartEvents' = Posted(k)
      BY DEF BytesArrive
    <3> QED BY <3>1, <3>2, PostedSum DEF SerialTypes, Waiting
  <2>2. task' = task /\ size' = size /\ size \in Nat
    BY SerialLinkAssumption DEF BytesArrive, SerialTypes, Waiting
  <2>3. task \in {"wait", "read"} => size' + Sum(uartEvents') <= Len(ring')
    <3> HIDE DEF B, s
    <3> QED BY <1>1, <1>3, <2>1, <2>2 DEF SerialTypes, Waiting
  <2> QED BY <1>1, <1>3, <2>1, <2>2, <2>3 DEF SerialTypes, Waiting
<1> QED BY <1>5, <1>6, <1>7 DEF SerialTypes

LEMMA TypesLoses == ASSUME SerialTypes, WireLoses PROVE SerialTypes'
<1> DEFINE B == Bytes(Sent)
<1>1. wire \in Seq(B) /\ wire # << >> /\ wire' = Tail(wire)
  BY DEF WireLoses, SerialTypes, Lines
<1>2. Head(wire) \in B /\ wire' \in Seq(B)
  <2> HIDE DEF B
  <2> QED BY <1>1
<1>3. Head(wire).n \in 1 .. Sent
  BY <1>2 DEF Bytes
<1>4. Sent' = Sent
  BY DEF WireLoses, Sent
<1>5. losses' \in 0 .. MaxLosses
  BY SerialLinkAssumption DEF WireLoses, SerialTypes, Lines
<1>6. Lines'
  BY <1>2, <1>3, <1>4, <1>5 DEF WireLoses, SerialTypes, Lines
<1>7. Parsed' /\ Queued'
  BY <1>4 DEF WireLoses, SerialTypes, Parsed, Queued, Receiver, framing
<1>8. Waiting'
  <2>1. UNCHANGED <<ring, uartEvents, task, size>>
    BY DEF WireLoses
  <2> QED BY <2>1 DEF SerialTypes, Waiting
<1> QED BY <1>6, <1>7, <1>8 DEF SerialTypes

LEMMA TypesOverflow ==
  ASSUME SerialTypes, NEW k \in 1 .. MaxChunk, BytesOverflow(k) PROVE SerialTypes'
<1> DEFINE s == SubSeq(wire, 1, k)
           B == Bytes(Sent)
<1>1. k \in Nat /\ k <= Len(wire) /\ Lines
  <2>1. Len(wire) \in Nat
    BY DEF SerialTypes, Lines
  <2> QED BY <2>1, SerialLinkAssumption DEF BytesOverflow, SerialTypes
<1>2. wire' \in Seq(B) /\ s \in Seq(B)
  <2>1. wire' = SubSeq(wire, k + 1, Len(wire))
    BY DEF BytesOverflow
  <2> QED BY <1>1, <2>1, WireDrops
<1>3. Numbers(s) \subseteq 1 .. Sent
  <2>1. Sent \in Nat
    BY <1>1 DEF Lines, Sent
  <2> QED BY <1>2, <2>1, NumbersType
<1>4. Sent' = Sent
  BY DEF BytesOverflow, Sent
<1>5. losses' \in 0 .. MaxLosses
  BY SerialLinkAssumption DEF BytesOverflow, SerialTypes, Lines
<1>6. Lines'
  BY <1>2, <1>3, <1>4, <1>5 DEF BytesOverflow, SerialTypes, Lines
<1>7. Parsed' /\ Queued'
  BY <1>4 DEF BytesOverflow, SerialTypes, Parsed, Queued, Receiver, framing
<1>8. Waiting'
  <2>1. /\ uartEvents' \in Seq(0 .. MaxChunk) /\ Len(uartEvents') <= EventDepth
        /\ Sum(uartEvents) \in Nat /\ Sum(uartEvents') \in Nat
        /\ Sum(uartEvents') <= Sum(uartEvents) + 0
    <3>1. 0 \in 0 .. MaxChunk
      BY SerialLinkAssumption
    <3>2. uartEvents' = Posted(0)
      BY DEF BytesOverflow
    <3> QED BY <3>1, <3>2, PostedSum DEF SerialTypes, Waiting
  <2>2. task' = task /\ size' = size /\ size \in Nat /\ ring' = ring /\ Len(ring) \in Nat
    BY SerialLinkAssumption DEF BytesOverflow, SerialTypes, Waiting, Lines
  <2>3. task \in {"wait", "read"} => size' + Sum(uartEvents') <= Len(ring')
    <3> HIDE DEF B, s
    <3> QED BY <2>1, <2>2 DEF SerialTypes, Waiting
  <2> QED BY <2>1, <2>2, <2>3 DEF SerialTypes, Waiting
<1> QED BY <1>6, <1>7, <1>8 DEF SerialTypes

LEMMA TypesNextEvent == ASSUME SerialTypes, NextEvent PROVE SerialTypes'
<1> DEFINE S == 0 .. MaxChunk
           q == uartEvents
<1>1. q \in Seq(S) /\ S \subseteq Nat /\ q # << >> /\ Len(q) <= EventDepth /\ EventDepth \in Nat
  BY SerialLinkAssumption DEF NextEvent, SerialTypes, Waiting
<1> HIDE DEF S
<1>2. Head(q) \in S /\ Tail(q) \in Seq(S) /\ Len(Tail(q)) = Len(q) - 1 /\ Len(q) \in Nat
  BY <1>1
<1>3. q \in Seq(Nat)
  BY <1>1, WiderSeq
<1>4. Sum(q) = Head(q) + Sum(Tail(q)) /\ Sum(Tail(q)) \in Nat /\ Head(q) \in Nat
  BY <1>1, <1>3, SumTail
<1>5. Sent' = Sent
  BY DEF NextEvent, Sent
<1>6. Lines' /\ Parsed' /\ Queued'
  BY <1>5 DEF NextEvent, SerialTypes, Lines, Parsed, Queued, Receiver, framing
<1>7. Waiting'
  <2>1. uartEvents' = Tail(q) /\ size' = Head(q) /\ ring' = ring
    BY DEF NextEvent
  <2>2. task' = IF Head(q) > 0 THEN "read" ELSE "flush"
    BY DEF NextEvent, EventSteps
  <2>3. task = "wait" /\ size \in Nat /\ size = 0 /\ Len(ring) \in Nat /\ size + Sum(q) <= Len(ring)
    BY SerialLinkAssumption DEF NextEvent, SerialTypes, Waiting, Lines
  <2>4. size' + Sum(uartEvents') <= Len(ring')
    BY <1>4, <2>1, <2>3
  <2>5. size' \in 0 .. MaxChunk /\ uartEvents' \in Seq(0 .. MaxChunk)
    BY <1>2, <2>1 DEF S
  <2>6. Len(uartEvents') <= EventDepth
    BY <1>1, <1>2, <2>1
  <2>7. task' \in {"wait", "read", "flush", "reset"} /\ (size' # 0 <=> task' = "read")
    BY <1>4, <2>1, <2>2
  <2> QED BY <2>1, <2>4, <2>5, <2>6, <2>7 DEF SerialTypes, Waiting
<1> QED BY <1>6, <1>7 DEF SerialTypes

LEMMA TypesFlush == ASSUME SerialTypes, FlushInput PROVE SerialTypes'
<1>1. Sent' = Sent /\ Sent \in Nat
  BY DEF FlushInput, Sent, SerialTypes, Lines
<1>2. Numbers(ring) \subseteq 1 .. Sent
  BY <1>1, NumbersType DEF SerialTypes, Lines
<1>3. Lines'
  BY <1>1, <1>2, EmptyType DEF FlushInput, SerialTypes, Lines
<1>4. Parsed' /\ Queued'
  BY <1>1 DEF FlushInput, SerialTypes, Parsed, Queued, Receiver, framing
<1>5. Waiting'
  <2>1. task' = "reset" /\ task = "flush" /\ ring' = << >> /\ UNCHANGED <<uartEvents, size>>
    BY DEF FlushInput, EventSteps
  <2>2. Len(ring') <= RingSize
    BY <2>1, SerialLinkAssumption
  <2> QED BY <2>1, <2>2 DEF SerialTypes, Waiting
<1> QED BY <1>3, <1>4, <1>5 DEF SerialTypes

LEMMA TypesReset == ASSUME SerialTypes, QueueReset PROVE SerialTypes'
<1>1. Sent' = Sent
  BY DEF QueueReset, Sent
<1>2. Lines' /\ Parsed' /\ Queued'
  BY <1>1 DEF QueueReset, SerialTypes, Lines, Parsed, Queued, Receiver, framing
<1>3. Waiting'
  <2>1. task' = "wait" /\ task = "reset" /\ uartEvents' = << >> /\ UNCHANGED <<ring, size>>
    BY DEF QueueReset, EventSteps
  <2>2. Sum(uartEvents') = 0 /\ uartEvents' \in Seq(0 .. MaxChunk) /\ Len(uartEvents') = 0
    <3> DEFINE q == uartEvents'
    <3>1. q \in Seq(Nat) /\ Len(q) = 0 /\ q \in Seq(0 .. MaxChunk)
      BY <2>1
    <3> QED BY <3>1, SumTrace
  <2>3. size = 0 /\ Len(ring) \in Nat
    BY <2>1 DEF SerialTypes, Waiting, Lines
  <2>4. size' + Sum(uartEvents') <= Len(ring')
    BY <2>1, <2>2, <2>3
  <2> QED BY <2>1, <2>2, <2>3, <2>4, SerialLinkAssumption DEF SerialTypes, Waiting
<1> QED BY <1>2, <1>3 DEF SerialTypes

LEMMA TypesWorker == ASSUME SerialTypes, WorkerTakes PROVE SerialTypes'
<1> DEFINE F == Frames(Sent)
<1>1. Sent' = Sent
  BY DEF WorkerTakes, Sent
<1>2. /\ rxdFrame \in Seq(F) /\ rxdFrame # << >> /\ Len(rxdFrame) <= FrameDepth
      /\ FrameDepth \in Nat
  BY SerialLinkAssumption DEF WorkerTakes, SerialTypes, Queued
<1> HIDE DEF F
<1>3. Head(rxdFrame) \in F /\ Tail(rxdFrame) \in Seq(F) /\ Len(Tail(rxdFrame)) <= FrameDepth
  BY <1>2
<1>4. Head(rxdFrame).n \in 1 .. Sent
  BY <1>3 DEF F, Frames
<1>5. Queued'
  BY <1>1, <1>3, <1>4 DEF WorkerTakes, SerialTypes, Queued, F
<1>6. Lines' /\ Parsed' /\ Waiting'
  BY <1>1 DEF WorkerTakes, SerialTypes, Lines, Parsed, Waiting, Receiver, framing
<1> QED BY <1>5, <1>6 DEF SerialTypes

\* What ReadBytes computes.
FreshFrames(out)  == SubSeq(out, Len(emitted) + 1, Len(out))
FreshRoom         == FrameDepth - Len(rxdFrame)
FreshTaken(fresh) == IF Len(fresh) < FreshRoom THEN Len(fresh) ELSE FreshRoom

\* What reading does, with the trace of rxdByte over the bytes that are read.
ReadsAlong(t) ==
  LET s == SubSeq(ring, 1, size)
      r == t[Len(s)]
  IN /\ RxdTrace(t, Sent, Receiver, s)
     /\ s \in Seq(Bytes(Sent)) /\ Len(s) = size
     /\ size \in Nat \ {0} /\ size <= Len(ring)
     /\ \A i \in 1 .. size : s[i] = ring[i]
     /\ Receiver' = r

LEMMA ReadAlong ==
  ASSUME SerialTypes, ReadBytes
  PROVE  \E t : ReadsAlong(t)
<1> DEFINE s == SubSeq(ring, 1, size)
           B == Bytes(Sent)
<1>1. size \in Nat \ {0} /\ ring \in Seq(B) /\ Len(ring) \in Nat /\ size <= Len(ring)
  BY SerialLinkAssumption DEF ReadBytes, SerialTypes, Waiting, Lines
<1>2. s \in Seq(B) /\ Len(s) = size /\ \A i \in 1 .. size : s[i] = ring[i]
  <2> HIDE DEF B
  <2>1. 1 \in 1 .. Len(ring) + 1 /\ size \in 0 .. Len(ring) /\ 1 <= size + 1 /\ (size - 1) + 1 = size
    BY <1>1
  <2>2. /\ s \in Seq(B) /\ Len(s) = (size - 1) + 1
        /\ \A i \in 1 .. (size - 1) + 1 : s[i] = ring[(1 + i) - 1]
    BY <1>1, <2>1, SubSeqShape
  <2>3. \A i \in 1 .. size : (1 + i) - 1 = i
    BY <1>1
  <2> HIDE DEF s
  <2> QED BY <2>1, <2>2, <2>3
<1>3. Sent \in Nat /\ Receiver \in Receivers(Sent)
  BY DEF SerialTypes, Lines, Sent, Parsed
<1>4. PICK t : RxdTrace(t, Sent, Receiver, s)
  BY <1>2, <1>3, OnRxdTrace
<1>5. t[Len(s)] = OnRxd(Receiver, s) /\ t[Len(s)] \in Receivers(Sent)
  <2>1. Len(s) \in 0 .. Len(s)
    BY <1>1, <1>2
  <2> HIDE DEF s
  <2> QED BY <1>4, <2>1 DEF RxdTrace
<1>6. Receiver' = t[Len(s)]
  <2> DEFINE r == OnRxd(Receiver, s)
  <2>1. frameRxd' = r.rxd /\ escFlag' = r.esc /\ emitted' = r.out
    BY DEF ReadBytes
  <2>2. r \in Receivers(Sent)
    BY <1>5
  <2> HIDE DEF r
  <2>3. r = [rxd |-> r.rxd, esc |-> r.esc, out |-> r.out]
    BY <2>2 DEF Receivers
  <2>4. Receiver' = r
    BY <2>1, <2>3 DEF Receiver
  <2> QED BY <1>5, <2>4 DEF r
<1> HIDE DEF s
<1>7. ReadsAlong(t)
  BY <1>1, <1>2, <1>4, <1>6 DEF ReadsAlong, s
<1> QED BY <1>7

LEMMA TypesRead == ASSUME SerialTypes, ReadBytes PROVE SerialTypes'
<1> DEFINE B == Bytes(Sent)
           F == Frames(Sent)
<1>1. PICK t : ReadsAlong(t)
  BY ReadAlong
<1>2. Sent' = Sent
  BY DEF ReadBytes, Sent
<1>3. /\ size \in Nat \ {0} /\ ring \in Seq(B) /\ Len(ring) \in Nat /\ size <= Len(ring)
      /\ Len(ring) <= RingSize /\ RingSize \in Nat
  BY <1>1, SerialLinkAssumption DEF ReadsAlong, SerialTypes, Waiting, Lines
<1>4. ring' = SubSeq(ring, size + 1, Len(ring)) /\ last' = ring[size]
  BY DEF ReadBytes
<1>5. ring' \in Seq(B) /\ Len(ring') = Len(ring) - size /\ last' \in B
  <2> HIDE DEF B
  <2>1. /\ size + 1 \in 1 .. Len(ring) + 1 /\ Len(ring) \in 0 .. Len(ring) /\ size + 1 <= Len(ring) + 1
        /\ (Len(ring) - (size + 1)) + 1 = Len(ring) - size
    BY <1>3
  <2>2. /\ SubSeq(ring, size + 1, Len(ring)) \in Seq(B)
        /\ Len(SubSeq(ring, size + 1, Len(ring))) = (Len(ring) - (size + 1)) + 1
    <3> DEFINE s == ring
               a == size + 1
               b == Len(ring)
    <3>1. s \in Seq(B) /\ a \in 1 .. Len(s) + 1 /\ b \in 0 .. Len(s) /\ a <= b + 1
      BY <1>3, <2>1
    <3> HIDE DEF s, a, b
    <3>2. SubSeq(s, a, b) \in Seq(B) /\ Len(SubSeq(s, a, b)) = b - a + 1
      BY <3>1, SubSeqShape
    <3> QED BY <3>2 DEF s, a, b
  <2>3. ring[size] \in B
    BY <1>3
  <2> QED BY <1>4, <2>1, <2>2, <2>3
<1>6. Lines'
  BY <1>2, <1>5 DEF ReadBytes, SerialTypes, Lines
<1>7. Receiver' \in Receivers(Sent)
  <2> DEFINE n == Len(SubSeq(ring, 1, size))
  <2>1. n \in 0 .. n
    BY <1>1 DEF ReadsAlong
  <2> HIDE DEF n
  <2>2. t \in [0 .. n -> Receivers(Sent)] /\ Receiver' = t[n]
    BY <1>1 DEF ReadsAlong, RxdTrace, n
  <2> QED BY <2>1, <2>2
<1>8. Parsed'
  <2>1. last' \in Lasts(Sent)
    <3>1. Sent \in Nat
      BY DEF SerialTypes, Lines, Sent
    <3>2. \A b \in B : b \in Lasts(Sent)
      BY <3>1 DEF Bytes, Lasts
    <3> QED BY <1>5, <3>2
  <2> QED BY <1>2, <1>7, <2>1 DEF Parsed
<1>9. Queued'
  <2> DEFINE out == emitted'
             fresh == FreshFrames(out)
             m == FreshTaken(fresh)
  <2>1. /\ rxdFrame' = rxdFrame \o SubSeq(fresh, 1, m) /\ handled' = handled
        /\ dropped' = (dropped \/ Len(fresh) > FreshRoom)
    BY DEF ReadBytes, FreshFrames, FreshTaken, FreshRoom
  <2>2. out \in Seq(F) /\ emitted \in Seq(F)
    BY <1>7 DEF Receivers, Receiver, SerialTypes, Parsed
  <2>3. /\ rxdFrame \in Seq(F) /\ FreshRoom \in Nat /\ Len(rxdFrame) \in Nat
        /\ Len(rxdFrame) + FreshRoom = FrameDepth
    BY SerialLinkAssumption DEF SerialTypes, Queued, FreshRoom
  <2>4. fresh \in Seq(F)
    <3> HIDE DEF F, out
    <3>1. Len(emitted) + 1 \in Nat /\ Len(emitted) + 1 >= 1 /\ Len(out) \in Nat
      BY <2>2
    <3>2. CASE Len(emitted) <= Len(out)
      <4>1. Len(emitted) + 1 \in 1 .. Len(out) + 1 /\ Len(out) \in 0 .. Len(out)
            /\ Len(emitted) + 1 <= Len(out) + 1
        BY <2>2, <3>1, <3>2
      <4> QED BY <2>2, <4>1, SubSeqShape DEF FreshFrames
    <3>3. CASE Len(emitted) > Len(out)
      <4>1. SubSeq(out, Len(emitted) + 1, Len(out)) = << >>
        BY <2>2, <3>1, <3>3
      <4> QED BY <4>1, EmptyType DEF FreshFrames
    <3>4. Len(emitted) \in Nat
      BY <2>2
    <3> QED BY <3>1, <3>2, <3>3, <3>4
  <2> HIDE DEF fresh, F, out
  <2>5. m \in Nat /\ m <= Len(fresh) /\ m <= FreshRoom /\ Len(fresh) \in Nat
    <3>1. Len(fresh) \in Nat
      BY <2>4
    <3> QED BY <2>3, <3>1 DEF FreshTaken
  <2> HIDE DEF m
  <2>6. SubSeq(fresh, 1, m) \in Seq(F) /\ Len(SubSeq(fresh, 1, m)) = m
    <3>1. 1 \in 1 .. Len(fresh) + 1 /\ m \in 0 .. Len(fresh) /\ 1 <= m + 1 /\ (m - 1) + 1 = m
      BY <2>5
    <3> QED BY <2>4, <3>1, SubSeqShape
  <2>7. rxdFrame' \in Seq(F) /\ Len(rxdFrame') = Len(rxdFrame) + m
    <3> DEFINE u == SubSeq(fresh, 1, m)
    <3>1. rxdFrame' = rxdFrame \o u /\ rxdFrame \in Seq(F) /\ u \in Seq(F)
      BY <2>1, <2>3, <2>6
    <3>2. Len(u) = m
      BY <2>6
    <3> HIDE DEF u
    <3>3. rxdFrame' \in Seq(F) /\ Len(rxdFrame') = Len(rxdFrame) + Len(u)
      BY <3>1, Joined
    <3> QED BY <3>2, <3>3
  <2>8. Len(rxdFrame') <= FrameDepth
    BY <2>3, <2>5, <2>7
  <2>9. dropped' \in BOOLEAN
    BY <2>1 DEF SerialTypes, Queued
  <2> QED BY <1>2, <2>1, <2>7, <2>8, <2>9 DEF SerialTypes, Queued, F
<1>10. Waiting'
  <2>1. task' = "wait" /\ size' = 0 /\ uartEvents' = uartEvents /\ task = "read"
    BY DEF ReadBytes
  <2>2. Sum(uartEvents) \in Nat
    <3> DEFINE S == 0 .. MaxChunk
    <3>1. uartEvents \in Seq(S) /\ S \subseteq Nat
      BY SerialLinkAssumption DEF SerialTypes, Waiting
    <3> HIDE DEF S
    <3>2. uartEvents \in Seq(Nat) /\ 0 \in Nat
      BY <3>1, WiderSeq
    <3> QED BY <3>2, SumAppend
  <2>3. size + Sum(uartEvents) <= Len(ring)
    BY <2>1 DEF SerialTypes, Waiting
  <2>4. size' + Sum(uartEvents') <= Len(ring')
    BY <1>3, <1>5, <2>1, <2>2, <2>3
  <2>5. Len(ring') <= RingSize /\ 0 \in 0 .. MaxChunk
    BY <1>3, <1>5, SerialLinkAssumption
  <2> QED BY <2>1, <2>4, <2>5 DEF SerialTypes, Waiting
<1> QED BY <1>6, <1>8, <1>9, <1>10 DEF SerialTypes

LEMMA TypesStutter ==
  ASSUME SerialTypes, UNCHANGED serialLinkVars PROVE SerialTypes'
BY DEF serialLinkVars, framing, SerialTypes, Lines, Parsed, Queued, Waiting, Receiver, Sent

\* The types, and what is announced, always hold.
LEMMA SerialTypesStep ==
  ASSUME SerialTypes, [SerialLinkNext]_serialLinkVars PROVE SerialTypes'
<1>1. CASE PeerSends
  BY <1>1, TypesPeerSends
<1>2. CASE WireLoses
  BY <1>2, TypesLoses
<1>3. ASSUME NEW k \in 1 .. MaxChunk, BytesArrive(k) PROVE SerialTypes'
  BY <1>3, TypesArrive
<1>4. ASSUME NEW k \in 1 .. MaxChunk, BytesOverflow(k) PROVE SerialTypes'
  BY <1>4, TypesOverflow
<1>5. CASE EventTask
  BY <1>5, TypesNextEvent, TypesRead, TypesFlush, TypesReset DEF EventTask
<1>6. CASE WorkerTakes
  BY <1>6, TypesWorker
<1>7. CASE UNCHANGED serialLinkVars
  BY <1>7, TypesStutter
<1> QED BY <1>1, <1>2, <1>3, <1>4, <1>5, <1>6, <1>7 DEF SerialLinkNext

LEMMA SerialTypesHold == SerialLinkSpec => []SerialTypes
<1>1. SerialLinkInit => SerialTypes
  BY SerialTypesInit
<1>2. SerialTypes /\ [SerialLinkNext]_serialLinkVars => SerialTypes'
  BY SerialTypesStep
<1> QED BY <1>1, <1>2, PTL DEF SerialLinkSpec

LEMMA TypesOfSerial == SerialTypes => SerialLinkTypeOK
<1> SUFFICES ASSUME SerialTypes PROVE SerialLinkTypeOK
  OBVIOUS
<1>1. Sent \in Nat /\ Sent <= MaxFrames /\ MaxFrames \in Nat
  BY SerialLinkAssumption DEF SerialTypes, Lines, Sent
<1>2. damaged \subseteq 1 .. MaxFrames /\ handled \subseteq 1 .. MaxFrames
  <2>1. 1 .. Sent \subseteq 1 .. MaxFrames
    BY <1>1
  <2> QED BY <2>1 DEF SerialTypes, Lines, Queued
<1>3. escFlag \in BOOLEAN
  BY DEF SerialTypes, Parsed, Receiver, Receivers
<1>4. \A i \in 1 .. Len(uartEvents) : uartEvents[i] \in 0 .. MaxChunk
  <2> DEFINE S == 0 .. MaxChunk
  <2>1. uartEvents \in Seq(S)
    BY DEF SerialTypes, Waiting
  <2> HIDE DEF S
  <2>2. \A i \in 1 .. Len(uartEvents) : uartEvents[i] \in S
    BY <2>1
  <2> QED BY <2>2 DEF S
<1> QED BY <1>2, <1>3, <1>4 DEF SerialTypes, Lines, Queued, Waiting, SerialLinkTypeOK, Sent

\* Every variable of the serial link keeps its type and no buffer exceeds its limit.
THEOREM SerialLinkTypes == SerialLinkSpec => []SerialLinkTypeOK
BY TypesOfSerial, SerialTypesHold, PTL

\* The event task never waits for bytes that may not come: what is announced is in the
\* ring, whatever was flushed, reset or lost from the event queue, for any chunks, any
\* ring and any queue.
THEOREM ReaderNeverBlocks == SerialLinkSpec => []ReadNeverBlocks
<1>1. SerialTypes => ReadNeverBlocks
  BY DEF SerialTypes, Waiting, ReadNeverBlocks, Announced, Sum
<1> QED BY <1>1, SerialTypesHold, PTL

-----------------------------------------------------------------------------
(* The bytes under way, in the ring and on the wire, are in the order they *)
(* were sent in, and none is missing of a frame that is not damaged.       *)

Width(bs, n) == Len(Stuffed(bs[n]))

\* b is a byte of the frames bs.
IsByte(b, bs) ==
  /\ b.n \in 1 .. Len(bs)
  /\ b.at \in 1 .. Width(bs, b.n)
  /\ b = WireFrame(b.n, bs[b.n])[b.at]

\* The last byte before the first.
Origin(l) == l.n = 0 /\ l.at = 1 /\ l.end /\ l.c = PPP_FLAG_CHAR

\* b was sent before byte i of frame n.
Comes(b, n, i) == b.n < n \/ (b.n = n /\ b.at < i)

\* The bytes of q follow l, as far as the frames bs are not in D.
Follows(q, l, D, bs) ==
  /\ Origin(l) \/ IsByte(l, bs)
  /\ \A j \in 1 .. Len(q) : IsByte(q[j], bs) /\ Comes(l, q[j].n, q[j].at)
  /\ \A j, k \in 1 .. Len(q) : j < k => Comes(q[j], q[k].n, q[k].at)
  /\ \A n \in 1 .. Len(bs) : \A i \in 1 .. Width(bs, n) :
       n \notin D /\ Comes(l, n, i) => \E j \in 1 .. Len(q) : q[j].n = n /\ q[j].at = i

\* Of the bytes between l and b only those of frames in D are missing.
Gap(l, b, D, bs) ==
  \A n \in 1 .. Len(bs) : \A i \in 1 .. Width(bs, n) :
    Comes(l, n, i) /\ (n < b.n \/ (n = b.n /\ i < b.at)) => n \in D

\* What a frame says of its bytes.
LEMMA ByteFacts ==
  ASSUME NEW bs \in Seq(Bodies), NEW b, IsByte(b, bs)
  PROVE  /\ b.n \in 1 .. Len(bs) /\ Len(bs) \in Nat /\ b.at \in Nat /\ Width(bs, b.n) \in Nat
         /\ bs[b.n] \in Bodies /\ bs[b.n] \in Seq(0 .. 255) /\ bs[b.n] # << >>
         /\ Width(bs, b.n) >= 3 /\ 1 <= b.at /\ b.at <= Width(bs, b.n)
         /\ b.end <=> b.at = Width(bs, b.n)
         /\ b.c = PPP_FLAG_CHAR <=> (b.at = 1 \/ b.at = Width(bs, b.n))
         /\ b.c = Stuffed(bs[b.n])[b.at]
<1> DEFINE n == b.n
           i == b.at
           s == Stuffed(bs[n])
           m == Width(bs, n)
<1>1. n \in 1 .. Len(bs) /\ i \in 1 .. m /\ b = WireFrame(n, bs[n])[i] /\ Len(bs) \in Nat
  BY DEF IsByte
<1>2. bs[n] \in Bodies
  BY <1>1
<1>3. bs[n] \in Seq(0 .. 255) /\ bs[n] # << >>
  BY <1>2, SerialLinkAssumption
<1>4. PICK R : Parses(R, bs[n])
  BY <1>3, StuffedShape
<1>5. /\ m \in Nat /\ m >= 3 /\ m = Len(s) /\ s[1] = PPP_FLAG_CHAR /\ s[m] = PPP_FLAG_CHAR
      /\ \A j \in 2 .. m - 1 : s[j] # PPP_FLAG_CHAR
  BY <1>4 DEF Parses, Width
<1> HIDE DEF s
<1>6. b.c = s[i] /\ (b.end <=> i = m)
  <2>1. WireFrame(n, bs[n]) = [j \in 1 .. m |-> [c |-> s[j], n |-> n, at |-> j, end |-> j = m]]
    BY <1>5 DEF WireFrame, s
  <2> HIDE DEF m, n, i
  <2>2. WireFrame(n, bs[n])[i] = [c |-> s[i], n |-> n, at |-> i, end |-> i = m]
    BY <1>1, <2>1
  <2>3. b = [c |-> s[i], n |-> n, at |-> i, end |-> i = m]
    BY <1>1, <2>2
  <2>4. b.c = s[i]
    BY <2>3
  <2>5. b.end = (i = m)
    BY <2>3, Zenon
  <2> QED BY <2>4, <2>5
<1>7. b.c = PPP_FLAG_CHAR <=> (i = 1 \/ i = m)
  <2>1. i = 1 \/ i = m \/ i \in 2 .. m - 1
    BY <1>1, <1>5
  <2> QED BY <1>5, <1>6, <2>1
<1> HIDE DEF m
<1>8. i \in Nat /\ 1 <= i /\ i <= m
  BY <1>1, <1>5
<1> QED BY <1>1, <1>2, <1>3, <1>5, <1>6, <1>7, <1>8 DEF m, s

\* A byte in between, as the frame is read.
LEMMA ByteRead ==
  ASSUME NEW bs \in Seq(Bodies), NEW b, IsByte(b, bs), NEW R, Parses(R, bs[b.n])
  PROVE  /\ R[1] = Clean
         /\ R[Width(bs, b.n) - 1] = [rxd |-> bs[b.n], esc |-> FALSE]
         /\ 1 < b.at /\ b.at < Width(bs, b.n) =>
              /\ R[b.at] = Unstuff(R[b.at - 1], b.c)
              /\ R[b.at].rxd \in Seq(0 .. 255) /\ Len(R[b.at].rxd) <= Len(bs[b.n])
              /\ R[b.at - 1].rxd \in Seq(0 .. 255) /\ R[b.at - 1].esc \in BOOLEAN
              /\ R[b.at].esc \in BOOLEAN
              /\ R[b.at - 1] \in Parsing
<1> DEFINE n == b.n
           i == b.at
           s == Stuffed(bs[n])
           m == Width(bs, n)
<1>1. /\ m = Len(s) /\ R[1] = Clean /\ R[m - 1] = [rxd |-> bs[n], esc |-> FALSE]
      /\ R \in [1 .. m - 1 -> Parsing]
      /\ \A j \in 2 .. m - 1 : R[j] = Unstuff(R[j - 1], s[j])
      /\ \A j \in 1 .. m - 1 : Len(R[j].rxd) <= Len(bs[n])
  BY DEF Parses, Width
<1>2. b.c = s[i] /\ i \in Nat /\ m \in Nat /\ 1 <= i
  BY ByteFacts
<1> HIDE DEF s, m
<1>3. ASSUME 1 < i, i < m
      PROVE  /\ R[i] = Unstuff(R[i - 1], b.c)
             /\ R[i].rxd \in Seq(0 .. 255) /\ Len(R[i].rxd) <= Len(bs[n])
             /\ R[i - 1].rxd \in Seq(0 .. 255) /\ R[i - 1].esc \in BOOLEAN
             /\ R[i].esc \in BOOLEAN
             /\ R[i - 1] \in Parsing
  <2>1. i \in 2 .. m - 1 /\ i \in 1 .. m - 1 /\ i - 1 \in 1 .. m - 1
    BY <1>2, <1>3
  <2>2. R[i] \in Parsing /\ R[i - 1] \in Parsing
    BY <1>1, <2>1
  <2> QED BY <1>1, <1>2, <2>1, <2>2 DEF Parsing
<1> QED BY <1>1, <1>3 DEF m

LEMMA LastFacts ==
  ASSUME NEW bs \in Seq(Bodies), NEW l, Origin(l) \/ IsByte(l, bs)
  PROVE  l.n \in Nat /\ l.n <= Len(bs) /\ l.at \in Nat /\ l.at >= 1 /\ Len(bs) \in Nat
         /\ (l.n = 0 => l.end /\ l.c = PPP_FLAG_CHAR)
         /\ (l.n # 0 => IsByte(l, bs))
<1>1. Len(bs) \in Nat
  OBVIOUS
<1>2. CASE Origin(l)
  BY <1>1, <1>2 DEF Origin
<1>3. CASE IsByte(l, bs)
  <2>1. l.n \in 1 .. Len(bs) /\ l.at \in Nat /\ 1 <= l.at
    BY <1>3, ByteFacts
  <2> QED BY <1>1, <1>3, <2>1
<1> QED BY <1>2, <1>3

\* Bytes that are lost, k of them after the first a.
LEMMA FollowsCut ==
  ASSUME NEW bs, NEW l, NEW D, NEW E, D \subseteq E, NEW q, NEW p, Follows(q, l, D, bs),
         NEW a \in Nat, NEW k \in Nat, Len(q) \in Nat, Len(p) = Len(q) - k, a + k <= Len(q),
         \A j \in 1 .. a : p[j] = q[j],
         \A j \in a + 1 .. Len(p) : p[j] = q[j + k],
         \A j \in a + 1 .. a + k : q[j].n \in E
  PROVE  Follows(p, l, E, bs)
<1> DEFINE from(j) == IF j <= a THEN j ELSE j + k
<1>1. \A j \in 1 .. Len(p) : from(j) \in 1 .. Len(q) /\ p[j] = q[from(j)]
  <2> SUFFICES ASSUME NEW j \in 1 .. Len(p) PROVE from(j) \in 1 .. Len(q) /\ p[j] = q[from(j)]
    OBVIOUS
  <2>1. CASE j <= a
    <3>1. j \in 1 .. a /\ j \in 1 .. Len(q) /\ from(j) = j
      BY <2>1
    <3> HIDE DEF from
    <3> QED BY <3>1
  <2>2. CASE j > a
    <3>1. j \in a + 1 .. Len(p) /\ j + k \in 1 .. Len(q) /\ from(j) = j + k
      BY <2>2
    <3> HIDE DEF from
    <3> QED BY <3>1
  <2> QED BY <2>1, <2>2
<1>2. \A j, m \in 1 .. Len(p) : j < m => from(j) < from(m)
  OBVIOUS
<1>3. \A j \in 1 .. Len(q) : j \in a + 1 .. a + k \/ \E m \in 1 .. Len(p) : from(m) = j
  <2> SUFFICES ASSUME NEW j \in 1 .. Len(q), j \notin a + 1 .. a + k
               PROVE  \E m \in 1 .. Len(p) : from(m) = j
    OBVIOUS
  <2>1. CASE j <= a
    BY <2>1
  <2>2. CASE j > a + k
    <3>1. j - k \in 1 .. Len(p) /\ from(j - k) = j
      BY <2>2
    <3> QED BY <3>1
  <2>3. j <= a \/ j > a + k
    OBVIOUS
  <2> QED BY <2>1, <2>2, <2>3
<1> HIDE DEF from
<1>4. \A j \in 1 .. Len(p) : IsByte(p[j], bs) /\ Comes(l, p[j].n, p[j].at)
  BY <1>1 DEF Follows
<1>5. \A j, m \in 1 .. Len(p) : j < m => Comes(p[j], p[m].n, p[m].at)
  BY <1>1, <1>2 DEF Follows
<1>6. ASSUME NEW n \in 1 .. Len(bs), NEW i \in 1 .. Width(bs, n), n \notin E, Comes(l, n, i)
      PROVE  \E j \in 1 .. Len(p) : p[j].n = n /\ p[j].at = i
  <2>1. PICK j \in 1 .. Len(q) : q[j].n = n /\ q[j].at = i
    BY <1>6 DEF Follows
  <2>2. j \notin a + 1 .. a + k
    BY <1>6, <2>1
  <2>3. PICK m \in 1 .. Len(p) : from(m) = j
    BY <1>3, <2>2
  <2> QED BY <1>1, <2>1, <2>3
<1>7. Origin(l) \/ IsByte(l, bs)
  BY DEF Follows
<1> QED BY <1>4, <1>5, <1>6, <1>7 DEF Follows

\* After its k-th byte the rest of a sequence follows that byte.
LEMMA FollowsRest ==
  ASSUME NEW bs \in Seq(Bodies), NEW l, NEW D, NEW q, Follows(q, l, D, bs), Len(q) \in Nat,
         NEW k \in 1 .. Len(q), NEW p, Len(p) = Len(q) - k,
         \A j \in 1 .. Len(p) : p[j] = q[j + k]
  PROVE  Follows(p, q[k], D, bs)
<1>1. \A j \in 1 .. Len(p) : j + k \in 1 .. Len(q) /\ k < j + k
  OBVIOUS
<1>2. \A j \in 1 .. Len(p) : IsByte(p[j], bs) /\ Comes(q[k], p[j].n, p[j].at)
  BY <1>1 DEF Follows
<1>3. \A j, m \in 1 .. Len(p) : j < m => Comes(p[j], p[m].n, p[m].at)
  <2>1. \A j, m \in 1 .. Len(p) : j < m => j + k < m + k
    OBVIOUS
  <2> QED BY <1>1, <2>1 DEF Follows
<1>4. IsByte(q[k], bs) /\ Comes(l, q[k].n, q[k].at) /\ (Origin(l) \/ IsByte(l, bs))
  BY DEF Follows
<1>5. ASSUME NEW n \in 1 .. Len(bs), NEW i \in 1 .. Width(bs, n), n \notin D, Comes(q[k], n, i)
      PROVE  \E j \in 1 .. Len(p) : p[j].n = n /\ p[j].at = i
  <2>1. /\ q[k].n \in Nat /\ q[k].at \in Nat /\ l.n \in Nat /\ l.at \in Nat
        /\ n \in Nat
    BY <1>4, ByteFacts, LastFacts
  <2>2. Comes(l, n, i)
    <3> DEFINE w == Width(bs, n)
    <3> HIDE DEF w
    <3>1. i \in 1 .. w
      BY DEF w
    <3>2. i \in Int
      BY <3>1
    <3> QED BY <1>4, <1>5, <2>1, <3>2, SMTT(30) DEF Comes
  <2>3. PICK j \in 1 .. Len(q) : q[j].n = n /\ q[j].at = i
    BY <1>5, <2>2 DEF Follows
  <2>4. j > k
    <3> SUFFICES ASSUME j <= k PROVE FALSE
      OBVIOUS
    <3>1. j = k \/ Comes(q[j], q[k].n, q[k].at)
      BY DEF Follows
    <3>2. q[j].at \in Nat
      <4>1. IsByte(q[j], bs)
        BY DEF Follows
      <4> QED BY <4>1, ByteFacts
    <3> QED BY <1>5, <2>1, <2>3, <3>1, <3>2 DEF Comes
  <2>5. j - k \in 1 .. Len(p) /\ (j - k) + k = j
    BY <2>4
  <2> QED BY <2>3, <2>5
<1> QED BY <1>2, <1>3, <1>4, <1>5 DEF Follows

\* Nothing but bytes of damaged frames is missing between two bytes in a row.
LEMMA FollowsGap ==
  ASSUME NEW bs \in Seq(Bodies), NEW l, NEW D, NEW q, Follows(q, l, D, bs), Len(q) \in Nat, Len(q) # 0
  PROVE  Gap(l, q[1], D, bs)
<1> SUFFICES ASSUME NEW n \in 1 .. Len(bs), NEW i \in 1 .. Width(bs, n), Comes(l, n, i),
                    n < q[1].n \/ (n = q[1].n /\ i < q[1].at), n \notin D
             PROVE  FALSE
  BY DEF Gap
<1>1. PICK j \in 1 .. Len(q) : q[j].n = n /\ q[j].at = i
  BY DEF Follows
<1>2. 1 \in 1 .. Len(q) /\ (j = 1 \/ 1 < j)
  OBVIOUS
<1>3. IsByte(q[1], bs) /\ IsByte(q[j], bs)
  BY <1>2 DEF Follows
<1>4. q[1].n \in Nat /\ q[1].at \in Nat /\ q[j].n \in Nat /\ q[j].at \in Nat
  BY <1>3, ByteFacts, SMTT(30)
<1>5. j = 1 \/ Comes(q[1], n, i)
  BY <1>1, <1>2 DEF Follows
<1> QED BY <1>1, <1>4, <1>5 DEF Comes

-----------------------------------------------------------------------------
(* What the receiver has made of the bytes up to l.                        *)

\* Nothing is kept over a flag, and an escape over no other byte; behind a frame that
\* is not damaged no escape is open.
Escapes(r, l, D) ==
  /\ l.c = PPP_FLAG_CHAR => r.rxd = << >>
  /\ l.c \notin {PPP_ESC_CHAR, PPP_FLAG_CHAR} => ~r.esc
  /\ l.end /\ l.n \notin D => ~r.esc

\* A frame is read as it was sent, if it and the one before are not damaged.
Partial(r, l, D, bs) ==
  ~l.end /\ l.n \notin D /\ l.n - 1 \notin D /\ Len(bs[l.n]) <= FRAME_MAX =>
    \A R : Parses(R, bs[l.n]) => r.rxd = R[l.at].rxd /\ (r.esc <=> R[l.at].esc)

\* It is not made before its last byte.
Unmade(r, l, D) ==
  /\ \A j \in 1 .. Len(r.out) : r.out[j].n <= l.n
  /\ ~l.end /\ l.n \notin D /\ l.n - 1 \notin D =>
       \A j \in 1 .. Len(r.out) : r.out[j].n # l.n

OneRight(out, n, body) ==
  \E i \in 1 .. Len(out) :
    /\ out[i] = [n |-> n, body |-> body]
    /\ \A j \in 1 .. Len(out) : out[j].n = n => j = i

Past(l, n) == n < l.n \/ (n = l.n /\ l.end)

\* Then it has been made, once.
Made(r, l, D, bs) ==
  \A n \in 1 .. Len(bs) :
    Past(l, n) /\ n \notin D /\ n - 1 \notin D /\ Len(bs[n]) <= FRAME_MAX =>
      OneRight(r.out, n, bs[n])

Faithful(r, l, D, bs) ==
  Escapes(r, l, D) /\ Partial(r, l, D, bs) /\ Unmade(r, l, D) /\ Made(r, l, D, bs)

\* The byte that comes is the next one the receiver could expect.
InTurn(l, b, D, bs) ==
  /\ bs \in Seq(Bodies) /\ 0 \notin D
  /\ Origin(l) \/ IsByte(l, bs)
  /\ IsByte(b, bs) /\ Comes(l, b.n, b.at) /\ Gap(l, b, D, bs)

\* What that says of the byte before, when its frame or the one before is not damaged.
LEMMA Neighbours ==
  ASSUME NEW bs, NEW D, NEW l, NEW b, InTurn(l, b, D, bs)
  PROVE  /\ b.n \notin D /\ b.at > 1 => l.n = b.n /\ l.at = b.at - 1 /\ ~l.end
         /\ b.n - 1 \notin D /\ b.at = 1 => l.n = b.n - 1 /\ l.end
         /\ \A n \in 1 .. Len(bs) : n < b.n /\ n \notin D => Past(l, n)
<1>1. /\ bs \in Seq(Bodies) /\ 0 \notin D /\ (Origin(l) \/ IsByte(l, bs))
      /\ IsByte(b, bs) /\ Comes(l, b.n, b.at) /\ Gap(l, b, D, bs)
  BY DEF InTurn
<1>2. /\ b.n \in 1 .. Len(bs) /\ b.at \in Nat /\ 1 <= b.at /\ b.at <= Width(bs, b.n)
      /\ Width(bs, b.n) \in Nat
  BY <1>1, ByteFacts
<1>3. /\ l.n \in Nat /\ l.n <= Len(bs) /\ l.at \in Nat /\ l.at >= 1 /\ Len(bs) \in Nat
      /\ (l.n = 0 => l.end)
  BY <1>1, LastFacts
<1>4. l.n # 0 => /\ l.at <= Width(bs, l.n) /\ Width(bs, l.n) \in Nat
                 /\ l.end <=> l.at = Width(bs, l.n)
  <2> SUFFICES ASSUME l.n # 0
               PROVE  /\ l.at <= Width(bs, l.n) /\ Width(bs, l.n) \in Nat
                      /\ l.end <=> l.at = Width(bs, l.n)
    OBVIOUS
  <2>1. IsByte(l, bs)
    BY <1>1, LastFacts
  <2> QED BY <1>1, <2>1, ByteFacts
<1>5. ASSUME NEW n \in 1 .. Len(bs), n < b.n, n \notin D PROVE Past(l, n)
  <2>1. Width(bs, n) \in Nat /\ Width(bs, n) >= 3
    <3>1. bs[n] \in Bodies
      BY <1>1
    <3>2. bs[n] \in Seq(0 .. 255) /\ bs[n] # << >>
      BY <3>1, SerialLinkAssumption
    <3>3. PICK R : Parses(R, bs[n])
      BY <3>2, StuffedShape
    <3> QED BY <3>3 DEF Parses, Width
  <2>2. Width(bs, n) \in 1 .. Width(bs, n)
    BY <2>1
  <2>3. ~Comes(l, n, Width(bs, n))
    BY <1>1, <1>5, <2>2 DEF Gap
  <2> QED BY <1>3, <1>4, <2>1, <2>3 DEF Comes, Past
<1>6. ASSUME b.n \notin D, b.at > 1 PROVE l.n = b.n /\ l.at = b.at - 1 /\ ~l.end
  <2>1. b.at - 1 \in 1 .. Width(bs, b.n) /\ b.at - 1 < b.at
    BY <1>2, <1>6
  <2>2. ~Comes(l, b.n, b.at - 1)
    BY <1>1, <1>2, <1>6, <2>1 DEF Gap
  <2>3. l.n = b.n /\ l.at = b.at - 1
    BY <1>1, <1>2, <1>3, <2>1, <2>2 DEF Comes
  <2>4. l.n # 0 /\ l.at # Width(bs, l.n)
    BY <1>2, <2>3
  <2> QED BY <1>4, <2>3, <2>4
<1>7. ASSUME b.n - 1 \notin D, b.at = 1 PROVE l.n = b.n - 1 /\ l.end
  <2>1. l.n < b.n
    BY <1>1, <1>2, <1>3, <1>7 DEF Comes
  <2>2. CASE b.n = 1
    BY <1>3, <2>1, <2>2
  <2>3. CASE b.n # 1
    <3>1. b.n - 1 \in 1 .. Len(bs) /\ b.n - 1 < b.n
      BY <1>2, <1>3, <2>3
    <3>2. Past(l, b.n - 1)
      BY <1>5, <1>7, <3>1
    <3> QED BY <1>2, <1>3, <2>1, <3>2 DEF Past
  <2> QED BY <2>2, <2>3
<1> QED BY <1>5, <1>6, <1>7

\* What rxdByte does, by the kind of byte.
LEMMA RxdByteCases ==
  ASSUME NEW n \in Nat, NEW r \in Receivers(n), NEW b
  PROVE  /\ b.c = PPP_FLAG_CHAR =>
              /\ RxdByte(r, b).rxd = << >> /\ RxdByte(r, b).esc = r.esc
              /\ RxdByte(r, b).out = IF r.rxd # << >>
                                     THEN Append(r.out, [n |-> b.n, body |-> r.rxd]) ELSE r.out
         /\ b.c = PPP_ESC_CHAR =>
              /\ RxdByte(r, b).rxd = r.rxd /\ RxdByte(r, b).esc
              /\ RxdByte(r, b).out = r.out
         /\ b.c \notin {PPP_ESC_CHAR, PPP_FLAG_CHAR} =>
              /\ ~RxdByte(r, b).esc /\ RxdByte(r, b).out = r.out
              /\ r.esc \/ Len(r.rxd) < FRAME_MAX =>
                   RxdByte(r, b).rxd = Append(r.rxd, IF r.esc THEN Masked(b.c) ELSE b.c)
<1>1. r \in [rxd : Seq(0 .. 255), esc : BOOLEAN, out : Seq(Frames(n))]
  BY DEF Receivers
<1>2. CASE b.c = PPP_FLAG_CHAR
  <2>1. RxdByte(r, b) = RxdFlag(r, b)
    BY <1>2 DEF RxdByte, PPP_ESC_CHAR, PPP_FLAG_CHAR
  <2>2. RxdFlag(r, b).rxd = << >> /\ RxdFlag(r, b).esc = r.esc
        /\ RxdFlag(r, b).out = IF r.rxd # << >>
                               THEN Append(r.out, [n |-> b.n, body |-> r.rxd]) ELSE r.out
    BY <1>1 DEF RxdFlag
  <2> QED BY <1>2, <2>1, <2>2 DEF PPP_ESC_CHAR, PPP_FLAG_CHAR
<1>3. CASE b.c = PPP_ESC_CHAR
  <2>1. RxdByte(r, b) = [r EXCEPT !.esc = TRUE]
    BY <1>3 DEF RxdByte, PPP_ESC_CHAR, PPP_FLAG_CHAR
  <2> QED BY <1>1, <1>3, <2>1 DEF PPP_ESC_CHAR, PPP_FLAG_CHAR
<1>4. CASE b.c \notin {PPP_ESC_CHAR, PPP_FLAG_CHAR}
  <2>1. RxdByte(r, b) = RxdData(r, b)
    BY <1>4 DEF RxdByte
  <2>2. Len(r.rxd) \in Nat /\ FRAME_MAX \in Nat /\ r.esc \in BOOLEAN
    BY <1>1, SerialLinkAssumption
  <2>3. CASE r.esc
    <3>1. RxdData(r, b) = [r EXCEPT !.rxd = Append(r.rxd, Masked(b.c)), !.esc = FALSE]
      BY <2>3 DEF RxdData
    <3> QED BY <1>1, <1>4, <2>1, <2>3, <3>1
  <2>4. CASE ~r.esc /\ Len(r.rxd) < FRAME_MAX
    <3>1. RxdData(r, b) = [r EXCEPT !.rxd = Append(r.rxd, b.c)]
      BY <2>2, <2>4 DEF RxdData
    <3> QED BY <1>1, <1>4, <2>1, <2>4, <3>1
  <2>5. CASE ~r.esc /\ ~(Len(r.rxd) < FRAME_MAX)
    <3>1. RxdData(r, b) = [r EXCEPT !.rxd = << >>]
      BY <2>2, <2>5 DEF RxdData
    <3> QED BY <1>1, <1>4, <2>1, <2>5, <3>1
  <2> QED BY <2>2, <2>3, <2>4, <2>5
<1> QED BY <1>2, <1>3, <1>4

\* One byte more.
LEMMA PartialStep ==
  ASSUME NEW bs, NEW D, NEW l, NEW b, NEW r, InTurn(l, b, D, bs), r \in Receivers(Len(bs)),
         Escapes(r, l, D), Partial(r, l, D, bs)
  PROVE  Partial(RxdByte(r, b), b, D, bs)
<1> DEFINE x == RxdByte(r, b)
           n == b.n
           i == b.at
<1> SUFFICES ASSUME ~b.end, n \notin D, n - 1 \notin D, Len(bs[n]) <= FRAME_MAX,
                    NEW R, Parses(R, bs[n])
             PROVE  x.rxd = R[i].rxd /\ (x.esc <=> R[i].esc)
  BY DEF Partial
<1>1. bs \in Seq(Bodies) /\ IsByte(b, bs) /\ Len(bs) \in Nat
  BY DEF InTurn
<1>2. /\ i \in Nat /\ 1 <= i /\ i < Width(bs, n) /\ Width(bs, n) \in Nat
      /\ (b.c = PPP_FLAG_CHAR <=> i = 1)
      /\ bs[n] \in Seq(0 .. 255)
  BY <1>1, ByteFacts
<1>3. CASE i = 1
  <2>1. l.n = n - 1 /\ l.end
    BY <1>3, Neighbours
  <2>2. ~r.esc
    BY <2>1 DEF Escapes
  <2>3. x.rxd = << >> /\ x.esc = r.esc
    BY <1>1, <1>2, <1>3, RxdByteCases
  <2>4. R[1] = Clean
    BY <1>1, ByteRead, ZenonT(30)
  <2> QED BY <1>3, <2>2, <2>3, <2>4 DEF Clean
<1>4. CASE i # 1
  <2>1. l.n = n /\ l.at = i - 1 /\ ~l.end
    <3>1. i > 1
      BY <1>2, <1>4
    <3> QED BY <3>1, Neighbours
  <2>2. r.rxd = R[i - 1].rxd /\ (r.esc <=> R[i - 1].esc)
    BY <2>1 DEF Partial
  <2>3. 1 < i /\ i < Width(bs, n)
    BY <1>2, <1>4
  <2>4. /\ R[i] = Unstuff(R[i - 1], b.c)
        /\ R[i].rxd \in Seq(0 .. 255) /\ Len(R[i].rxd) <= Len(bs[n])
        /\ R[i - 1].rxd \in Seq(0 .. 255) /\ R[i - 1].esc \in BOOLEAN /\ R[i].esc \in BOOLEAN
        /\ R[i - 1] \in Parsing
    <3>1. 1 < b.at /\ b.at < Width(bs, b.n) /\ Parses(R, bs[b.n])
      BY <2>3
    <3> HIDE DEF n, i
    <3>2. /\ R[b.at] = Unstuff(R[b.at - 1], b.c)
          /\ R[b.at].rxd \in Seq(0 .. 255) /\ Len(R[b.at].rxd) <= Len(bs[b.n])
          /\ R[b.at - 1].rxd \in Seq(0 .. 255) /\ R[b.at - 1].esc \in BOOLEAN
          /\ R[b.at].esc \in BOOLEAN /\ R[b.at - 1] \in Parsing
      BY <1>1, <3>1, ByteRead
    <3> QED BY <3>2 DEF n, i
  <2> DEFINE d == R[i - 1]
             f == R[i]
  <2>5. /\ r.rxd = d.rxd /\ (r.esc <=> d.esc) /\ f = Unstuff(d, b.c)
        /\ Len(f.rxd) <= Len(bs[n]) /\ d.rxd \in Seq(0 .. 255) /\ d.esc \in BOOLEAN
    BY <2>2, <2>4
  <2> SUFFICES x.rxd = f.rxd /\ (x.esc <=> f.esc)
    OBVIOUS
  <2> HIDE DEF d, f, i
  <2>6. CASE b.c = PPP_ESC_CHAR
    <3>1. x.rxd = r.rxd /\ x.esc
      BY <1>1, <2>6, RxdByteCases
    <3>2. f = [rxd |-> d.rxd, esc |-> TRUE]
      BY <2>5, <2>6 DEF Unstuff
    <3> QED BY <2>5, <3>1, <3>2
  <2>7. CASE b.c # PPP_ESC_CHAR
    <3> DEFINE c == IF d.esc THEN Masked(b.c) ELSE b.c
    <3>1. f.rxd = Append(d.rxd, c) /\ ~f.esc
      BY <2>5, <2>7 DEF Unstuff
    <3>2. Len(f.rxd) = Len(d.rxd) + 1 /\ Len(d.rxd) \in Nat
      <4> HIDE DEF c
      <4> QED BY <2>5, <3>1
    <3>3. Len(r.rxd) < FRAME_MAX
      <4>1. Len(bs[n]) \in Nat /\ FRAME_MAX \in Nat
        BY <1>2, SerialLinkAssumption
      <4> QED BY <2>5, <3>2, <4>1
    <3>4. b.c \notin {PPP_ESC_CHAR, PPP_FLAG_CHAR}
      BY <1>2, <1>4, <2>7
    <3>5. ~x.esc /\ x.rxd = Append(r.rxd, IF r.esc THEN Masked(b.c) ELSE b.c)
      BY <1>1, <3>3, <3>4, RxdByteCases
    <3> QED BY <2>5, <3>1, <3>5
  <2> QED BY <2>6, <2>7
<1> QED BY <1>3, <1>4

LEMMA EscapesStep ==
  ASSUME NEW bs, NEW D, NEW l, NEW b, NEW r, InTurn(l, b, D, bs), r \in Receivers(Len(bs)),
         Escapes(r, l, D)
  PROVE  Escapes(RxdByte(r, b), b, D)
<1> DEFINE x == RxdByte(r, b)
           n == b.n
           i == b.at
<1>1. bs \in Seq(Bodies) /\ IsByte(b, bs) /\ Len(bs) \in Nat
  BY DEF InTurn
<1>2. b.c = PPP_FLAG_CHAR => x.rxd = << >>
  BY <1>1, RxdByteCases
<1>3. b.c \notin {PPP_ESC_CHAR, PPP_FLAG_CHAR} => ~x.esc
  BY <1>1, RxdByteCases
<1>4. ASSUME b.end, n \notin D PROVE ~x.esc
  <2>1. i = Width(bs, n) /\ i > 1 /\ i >= 3 /\ i \in Nat /\ b.c = PPP_FLAG_CHAR /\ bs[n] \in Seq(0 .. 255)
        /\ bs[n] # << >> /\ n \in 1 .. Len(bs)
    BY <1>1, <1>4, ByteFacts
  <2>2. l.n = n /\ l.at = i - 1 /\ ~l.end
    BY <1>4, <2>1, Neighbours
  <2>3. PICK R : Parses(R, bs[n])
    BY <2>1, StuffedShape
  <2>4. IsByte(l, bs)
    BY <1>1, <2>1, <2>2, LastFacts DEF InTurn
  <2>5. /\ R[i - 1] = [rxd |-> bs[n], esc |-> FALSE]
        /\ R[i - 1] = Unstuff(R[i - 2], l.c)
        /\ l.c # PPP_FLAG_CHAR
    <3>1. /\ R[i - 1] = [rxd |-> bs[n], esc |-> FALSE]
          /\ R[l.at] = Unstuff(R[l.at - 1], l.c)
      <4>1. 1 < l.at /\ l.at < Width(bs, l.n) /\ Parses(R, bs[l.n])
        BY <2>1, <2>2, <2>3
      <4>2. R[Width(bs, l.n) - 1] = [rxd |-> bs[l.n], esc |-> FALSE]
            /\ R[l.at] = Unstuff(R[l.at - 1], l.c)
        BY <1>1, <2>4, <4>1, ByteRead
      <4> QED BY <2>1, <2>2, <4>2
    <3>2. l.c # PPP_FLAG_CHAR
      <4>1. l.c = PPP_FLAG_CHAR <=> (l.at = 1 \/ l.at = Width(bs, l.n))
        BY <1>1, <2>4, ByteFacts
      <4> QED BY <2>1, <2>2, <4>1
    <3>3. l.at = i - 1 /\ l.at - 1 = i - 2
      BY <2>1, <2>2
    <3> QED BY <3>1, <3>2, <3>3
  <2>6. l.c # PPP_ESC_CHAR
    <3> SUFFICES ASSUME l.c = PPP_ESC_CHAR PROVE FALSE
      OBVIOUS
    <3>1. R[i - 1] = [rxd |-> R[i - 2].rxd, esc |-> TRUE]
      BY <2>5 DEF Unstuff
    <3>2. R[i - 1].esc = TRUE /\ R[i - 1].esc = FALSE
      <4> HIDE DEF i
      <4>1. R[i - 1].esc = TRUE
        BY <3>1
      <4>2. R[i - 1].esc = FALSE
        BY <2>5
      <4> QED BY <4>1, <4>2
    <3> QED BY <3>2
  <2>7. ~r.esc
    BY <2>5, <2>6 DEF Escapes
  <2>8. x.esc = r.esc
    BY <1>1, <2>1, RxdByteCases
  <2> QED BY <2>7, <2>8
<1> QED BY <1>2, <1>3, <1>4 DEF Escapes

LEMMA OneRightAppend ==
  ASSUME NEW F, NEW out \in Seq(F), NEW n, NEW body, NEW e \in F
  PROVE  /\ OneRight(out, n, body) /\ e.n # n => OneRight(Append(out, e), n, body)
         /\ (\A j \in 1 .. Len(out) : out[j].n # n) /\ e = [n |-> n, body |-> body] =>
              OneRight(Append(out, e), n, body)
<1> DEFINE a == Append(out, e)
           m == Len(out)
<1>1. /\ m \in Nat /\ Len(a) = m + 1 /\ a[m + 1] = e /\ \A j \in 1 .. m : a[j] = out[j]
  OBVIOUS
<1>2. m + 1 \in 1 .. m + 1 /\ \A j \in 1 .. m + 1 : j = m + 1 \/ j \in 1 .. m
  BY <1>1
<1>3. \A j \in 1 .. m : j \in 1 .. m + 1 /\ j # m + 1
  BY <1>1
<1> HIDE DEF a
<1>4. ASSUME OneRight(out, n, body), e.n # n PROVE OneRight(a, n, body)
  <2>1. PICK i \in 1 .. m : /\ out[i] = [n |-> n, body |-> body]
                            /\ \A j \in 1 .. m : out[j].n = n => j = i
    BY <1>4 DEF OneRight
  <2> HIDE DEF m
  <2>2. a[i] = [n |-> n, body |-> body] /\ i \in 1 .. m + 1
    BY <1>1, <1>3, <2>1
  <2>3. \A j \in 1 .. m + 1 : a[j].n = n => j = i
    BY <1>1, <1>2, <1>4, <2>1
  <2> QED BY <1>1, <2>2, <2>3 DEF OneRight
<1>5. ASSUME \A j \in 1 .. m : out[j].n # n, e = [n |-> n, body |-> body]
      PROVE  OneRight(a, n, body)
  <2> HIDE DEF m
  <2>1. \A j \in 1 .. m + 1 : a[j].n = n => j = m + 1
    BY <1>1, <1>2, <1>5
  <2> QED BY <1>1, <1>2, <1>5, <2>1 DEF OneRight
<1> QED BY <1>4, <1>5 DEF a

LEMMA UnmadeStep ==
  ASSUME NEW bs, NEW D, NEW l, NEW b, NEW r, InTurn(l, b, D, bs), r \in Receivers(Len(bs)),
         Escapes(r, l, D), Unmade(r, l, D)
  PROVE  Unmade(RxdByte(r, b), b, D)
<1> DEFINE x == RxdByte(r, b)
           F == Frames(Len(bs))
           e == [n |-> b.n, body |-> r.rxd]
<1>1. bs \in Seq(Bodies) /\ IsByte(b, bs) /\ Len(bs) \in Nat /\ (Origin(l) \/ IsByte(l, bs))
  BY DEF InTurn
<1>2. /\ b.n \in 1 .. Len(bs) /\ b.at \in Nat /\ 1 <= b.at /\ b.at <= Width(bs, b.n)
      /\ Width(bs, b.n) >= 3
      /\ (b.end <=> b.at = Width(bs, b.n))
      /\ (b.c = PPP_FLAG_CHAR <=> b.at = 1 \/ b.at = Width(bs, b.n))
  BY <1>1, ByteFacts
<1>3. l.n \in Nat /\ l.n <= b.n
  <2>1. l.n \in Nat /\ Comes(l, b.n, b.at)
    BY <1>1, LastFacts DEF InTurn
  <2> QED BY <1>2, <2>1 DEF Comes
<1>4. r.out \in Seq(F) /\ e \in F
  <2>1. b.n \in 1 .. Len(bs) /\ r.rxd \in Seq(0 .. 255)
    BY <1>2 DEF Receivers
  <2> QED BY <2>1 DEF Receivers, Frames
<1>5. \A j \in 1 .. Len(r.out) : r.out[j].n \in Nat /\ r.out[j].n <= l.n
  <2> HIDE DEF F
  <2>1. \A j \in 1 .. Len(r.out) : r.out[j] \in F
    BY <1>4
  <2>2. \A f \in F : f.n \in Nat
    BY DEF F, Frames
  <2> QED BY <2>1, <2>2 DEF Unmade
<1>6. x.out = r.out \/ x.out = Append(r.out, e)
  BY <1>1, RxdByteCases
<1>7. b.c # PPP_FLAG_CHAR => x.out = r.out
  BY <1>1, RxdByteCases
<1> HIDE DEF F, x
<1>8. \A j \in 1 .. Len(x.out) : x.out[j].n <= b.n
  <2>1. CASE x.out = r.out
    BY <1>2, <1>3, <1>5, <2>1
  <2>2. CASE x.out = Append(r.out, e)
    <3>1. e.n = b.n
      OBVIOUS
    <3> HIDE DEF e
    <3> DEFINE m == Len(r.out)
    <3>2. /\ m \in Nat /\ Len(x.out) = m + 1 /\ x.out[m + 1] = e
          /\ \A j \in 1 .. m : x.out[j] = r.out[j]
      BY <1>4, <2>2
    <3>3. \A j \in 1 .. m + 1 : j = m + 1 \/ j \in 1 .. m
      BY <3>2
    <3> HIDE DEF m
    <3>4. \A j \in 1 .. m : r.out[j].n \in Nat /\ r.out[j].n <= l.n
      BY <1>5 DEF m
    <3> QED BY <1>2, <1>3, <3>1, <3>2, <3>3, <3>4, SMTT(30)
  <2> QED BY <1>6, <2>1, <2>2
<1>9. ASSUME ~b.end, b.n \notin D, b.n - 1 \notin D
      PROVE  \A j \in 1 .. Len(x.out) : x.out[j].n # b.n
  <2>1. CASE b.at = 1
    <3>1. l.n = b.n - 1 /\ l.end
      BY <1>9, <2>1, Neighbours
    <3>2. l.c = PPP_FLAG_CHAR
      <4>1. CASE Origin(l)
        BY <4>1 DEF Origin
      <4>2. CASE IsByte(l, bs)
        BY <1>1, <3>1, <4>2, ByteFacts
      <4> QED BY <1>1, <4>1, <4>2
    <3>3. r.rxd = << >>
      BY <3>2 DEF Escapes
    <3>4. x.out = r.out
      <4>1. b.c = PPP_FLAG_CHAR
        BY <1>2, <2>1
      <4> QED BY <1>1, <3>3, <4>1, RxdByteCases DEF x
    <3> QED BY <1>2, <1>5, <3>1, <3>4
  <2>2. CASE b.at # 1
    <3>1. x.out = r.out
      BY <1>2, <1>7, <1>9, <2>2
    <3>2. l.n = b.n /\ ~l.end
      <4>1. b.at > 1
        BY <1>2, <2>2
      <4> QED BY <1>9, <4>1, Neighbours
    <3> QED BY <1>9, <3>1, <3>2 DEF Unmade
  <2> QED BY <2>1, <2>2
<1> QED BY <1>8, <1>9 DEF Unmade, x

LEMMA MadeStep ==
  ASSUME NEW bs, NEW D, NEW l, NEW b, NEW r, InTurn(l, b, D, bs), r \in Receivers(Len(bs)),
         Faithful(r, l, D, bs)
  PROVE  Made(RxdByte(r, b), b, D, bs)
<1> DEFINE x == RxdByte(r, b)
           F == Frames(Len(bs))
           e == [n |-> b.n, body |-> r.rxd]
<1> SUFFICES ASSUME NEW n \in 1 .. Len(bs), Past(b, n), n \notin D, n - 1 \notin D,
                    Len(bs[n]) <= FRAME_MAX
             PROVE  OneRight(x.out, n, bs[n])
  BY DEF Made
<1>1. /\ bs \in Seq(Bodies) /\ IsByte(b, bs) /\ Len(bs) \in Nat /\ (Origin(l) \/ IsByte(l, bs))
      /\ Comes(l, b.n, b.at)
  BY DEF InTurn
<1>2. /\ b.n \in 1 .. Len(bs) /\ b.at \in Nat /\ 1 <= b.at /\ b.at <= Width(bs, b.n)
      /\ Width(bs, b.n) >= 3 /\ Width(bs, b.n) \in Nat
      /\ (b.end <=> b.at = Width(bs, b.n))
      /\ (b.c = PPP_FLAG_CHAR <=> b.at = 1 \/ b.at = Width(bs, b.n))
      /\ bs[b.n] # << >> /\ bs[b.n] \in Seq(0 .. 255)
  BY <1>1, ByteFacts
<1>3. l.n \in Nat /\ l.n <= b.n
  <2>1. l.n \in Nat
    BY <1>1, LastFacts
  <2> QED BY <1>1, <1>2, <2>1 DEF Comes
<1>4. r.out \in Seq(F) /\ e \in F
  <2>1. b.n \in 1 .. Len(bs) /\ r.rxd \in Seq(0 .. 255)
    BY <1>2 DEF Receivers
  <2> QED BY <2>1 DEF Receivers, Frames
<1>5. x.out = r.out \/ x.out = Append(r.out, e)
  BY <1>1, RxdByteCases
<1> HIDE DEF F
<1>6. CASE Past(l, n)
  <2>1. OneRight(r.out, n, bs[n])
    BY <1>6 DEF Faithful, Made
  <2>2. b.n # n
    <3> SUFFICES ASSUME b.n = n PROVE FALSE
      OBVIOUS
    <3>1. l.n = n /\ l.end /\ l.at < b.at
      BY <1>1, <1>2, <1>3, <1>6 DEF Past, Comes
    <3>2. IsByte(l, bs)
      <4>1. l.n # 0
        BY <3>1
      <4> QED BY <1>1, <4>1, LastFacts
    <3>3. l.at = Width(bs, l.n)
      BY <1>1, <3>1, <3>2, ByteFacts
    <3> QED BY <1>2, <3>1, <3>3
  <2>3. e.n = b.n
    OBVIOUS
  <2> HIDE DEF e, x
  <2> QED BY <1>4, <1>5, <2>1, <2>2, <2>3, OneRightAppend
<1>7. CASE ~Past(l, n)
  <2>1. b.n = n /\ b.end
    <3>1. ~(n < b.n)
      BY <1>7, Neighbours
    <3> QED BY <3>1 DEF Past
  <2>2. b.at = Width(bs, n) /\ b.at > 1 /\ b.c = PPP_FLAG_CHAR
    BY <1>2, <2>1
  <2>3. l.n = n /\ l.at = b.at - 1 /\ ~l.end
    BY <2>1, <2>2, Neighbours
  <2>4. PICK R : Parses(R, bs[n])
    BY <1>2, <2>1, StuffedShape
  <2>5. R[Width(bs, n) - 1] = [rxd |-> bs[n], esc |-> FALSE]
    BY <1>1, <2>1, <2>4, ByteRead
  <2>6. r.rxd = R[l.at].rxd
    BY <2>3, <2>4 DEF Faithful, Partial
  <2>7. r.rxd = bs[n]
    BY <2>2, <2>3, <2>5, <2>6
  <2>8. x.out = Append(r.out, e)
    BY <1>1, <1>2, <2>1, <2>2, <2>7, RxdByteCases
  <2>9. \A j \in 1 .. Len(r.out) : r.out[j].n # n
    BY <2>3 DEF Faithful, Unmade
  <2>10. e = [n |-> n, body |-> bs[n]]
    BY <2>1, <2>7
  <2> HIDE DEF e, x
  <2> QED BY <1>4, <2>8, <2>9, <2>10, OneRightAppend
<1> QED BY <1>6, <1>7

LEMMA FaithfulStep ==
  ASSUME NEW bs, NEW D, NEW l, NEW b, NEW r, InTurn(l, b, D, bs), r \in Receivers(Len(bs)),
         Faithful(r, l, D, bs)
  PROVE  Faithful(RxdByte(r, b), b, D, bs)
<1>1. Escapes(r, l, D) /\ Partial(r, l, D, bs) /\ Unmade(r, l, D)
  BY DEF Faithful
<1>2. Escapes(RxdByte(r, b), b, D)
  BY <1>1, EscapesStep
<1>3. Partial(RxdByte(r, b), b, D, bs)
  BY <1>1, PartialStep
<1>4. Unmade(RxdByte(r, b), b, D)
  BY <1>1, UnmadeStep
<1>5. Made(RxdByte(r, b), b, D, bs)
  BY MadeStep
<1> QED BY <1>2, <1>3, <1>4, <1>5 DEF Faithful

\* More frames damaged, or a frame more sent, and it still holds.
LEMMA FaithfulMore ==
  ASSUME NEW r, NEW l, NEW D, NEW E, D \subseteq E, NEW bs, NEW cs, Faithful(r, l, D, bs),
         Len(bs) \in Nat, Len(cs) \in Nat, Len(bs) <= Len(cs), l.n \in Nat, l.n <= Len(bs),
         l.n = 0 => l.end, \A n \in 1 .. Len(bs) : cs[n] = bs[n]
  PROVE  Faithful(r, l, E, cs)
<1>1. Escapes(r, l, E) /\ Unmade(r, l, E)
  BY DEF Faithful, Escapes, Unmade
<1>2. Partial(r, l, E, cs)
  <2>1. CASE l.n = 0
    BY <2>1 DEF Partial
  <2>2. CASE l.n # 0
    <3>1. cs[l.n] = bs[l.n]
      BY <2>2
    <3> QED BY <3>1 DEF Faithful, Partial
  <2> QED BY <2>1, <2>2
<1>3. Made(r, l, E, cs)
  <2> SUFFICES ASSUME NEW n \in 1 .. Len(cs), Past(l, n), n \notin E, n - 1 \notin E,
                      Len(cs[n]) <= FRAME_MAX
               PROVE  OneRight(r.out, n, cs[n])
    BY DEF Made
  <2>1. n \in 1 .. Len(bs)
    BY DEF Past
  <2> QED BY <2>1 DEF Faithful, Made
<1> QED BY <1>1, <1>2, <1>3 DEF Faithful

\* p is q, and then w.
Extends(p, q, w) ==
  /\ Len(q) \in Nat /\ Len(p) = Len(q) + Len(w)
  /\ \A j \in 1 .. Len(q) : p[j] = q[j]
  /\ \A j \in 1 .. Len(w) : p[Len(q) + j] = w[j]

\* The bytes of a new frame follow those under way.
LEMMA FollowsMore ==
  ASSUME NEW bs \in Seq(Bodies), NEW body \in Bodies,
         NEW l, NEW D, NEW q, Follows(q, l, D, bs),
         NEW p, Extends(p, q, WireFrame(Len(bs) + 1, body))
  PROVE  Follows(p, l, D, Append(bs, body))
<1> DEFINE cs == Append(bs, body)
           w == WireFrame(Len(bs) + 1, body)
<1>0. /\ Len(q) \in Nat /\ Len(p) = Len(q) + Len(w)
      /\ \A j \in 1 .. Len(q) : p[j] = q[j]
      /\ \A j \in 1 .. Len(w) : p[Len(q) + j] = w[j]
  BY DEF Extends
<1>a. cs = Append(bs, body) /\ w = WireFrame(Len(bs) + 1, body)
  OBVIOUS
<1> HIDE DEF cs, w
<1> SUFFICES Follows(p, l, D, cs)
  BY DEF cs
<1> DEFINE N == Len(bs)
           m == Len(w)
           h == Len(q)
<1>1. /\ N \in Nat /\ cs \in Seq(Bodies) /\ Len(cs) = N + 1 /\ cs[N + 1] = body
      /\ \A n \in 1 .. N : cs[n] = bs[n]
  BY <1>a
<1>2. m = Width(cs, N + 1) /\ m \in Nat
  <2>1. N + 1 \in Nat \ {0}
    BY <1>1
  <2>2. w \in Seq(Bytes(N + 1)) /\ Len(w) = Len(Stuffed(body))
    BY <1>a, <2>1, WireFrameType
  <2> HIDE DEF N
  <2> QED BY <1>1, <2>2 DEF Width
<1>3. \A n \in 1 .. N : Width(cs, n) = Width(bs, n)
  BY <1>1 DEF Width
<1>4. \A b : IsByte(b, bs) => IsByte(b, cs) /\ b.n \in 1 .. N
  <2> SUFFICES ASSUME NEW b, IsByte(b, bs) PROVE IsByte(b, cs) /\ b.n \in 1 .. N
    OBVIOUS
  <2>1. b.n \in 1 .. N /\ b.n \in 1 .. N + 1
    BY <1>1 DEF IsByte
  <2> HIDE DEF N
  <2> QED BY <1>1, <1>3, <2>1 DEF IsByte
<1>5. ASSUME NEW i \in 1 .. m PROVE IsByte(w[i], cs) /\ w[i].n = N + 1 /\ w[i].at = i
  <2>1. w = [j \in 1 .. m |-> [c |-> Stuffed(body)[j], n |-> N + 1, at |-> j,
                               end |-> j = Len(Stuffed(body))]]
    <3>1. m = Len(Stuffed(body))
      BY <1>1, <1>2 DEF Width
    <3> QED BY <1>a, <3>1 DEF WireFrame
  <2> HIDE DEF m, N
  <2>2. w[i] = [c |-> Stuffed(body)[i], n |-> N + 1, at |-> i, end |-> i = Len(Stuffed(body))]
    BY <2>1
  <2>3. w[i].n = N + 1 /\ w[i].at = i
    BY <2>2
  <2>4. w = WireFrame(N + 1, cs[N + 1])
    BY <1>a, <1>1 DEF N
  <2> QED BY <1>1, <1>2, <2>3, <2>4 DEF IsByte
<1>6. Origin(l) \/ IsByte(l, cs)
  BY <1>4 DEF Follows
<1>7. l.n \in Nat /\ l.n <= N
  <2>1. Origin(l) \/ IsByte(l, bs)
    BY DEF Follows
  <2> QED BY <2>1, LastFacts
<1> HIDE DEF N, m, h
<1>8. Len(p) = h + m /\ h \in Nat /\ \A j \in 1 .. h + m : j \in 1 .. h \/ j - h \in 1 .. m
  BY <1>0, <1>2 DEF h, m
<1>9. /\ \A j \in 1 .. h : p[j] = q[j] /\ IsByte(p[j], cs) /\ p[j].n \in 1 .. N
                           /\ Comes(l, p[j].n, p[j].at)
      /\ \A j, k \in 1 .. h : j < k => Comes(p[j], p[k].n, p[k].at)
  BY <1>0, <1>4 DEF Follows, h
<1>10. \A j \in 1 .. h + m : j - h \in 1 .. m =>
         p[j] = w[j - h] /\ IsByte(p[j], cs) /\ p[j].n = N + 1 /\ p[j].at = j - h
  <2> SUFFICES ASSUME NEW j \in 1 .. h + m, j - h \in 1 .. m
               PROVE  p[j] = w[j - h] /\ IsByte(p[j], cs) /\ p[j].n = N + 1 /\ p[j].at = j - h
    OBVIOUS
  <2>1. h + (j - h) = j
    BY <1>2, <1>8
  <2>2. p[h + (j - h)] = w[j - h]
    BY <1>0 DEF h, m
  <2> QED BY <1>5, <2>1, <2>2
<1>11. \A j \in 1 .. Len(p) : IsByte(p[j], cs) /\ Comes(l, p[j].n, p[j].at)
  <2> SUFFICES ASSUME NEW j \in 1 .. h + m
               PROVE  IsByte(p[j], cs) /\ Comes(l, p[j].n, p[j].at)
    BY <1>8
  <2>1. CASE j \in 1 .. h
    BY <1>9, <2>1
  <2>2. CASE j - h \in 1 .. m
    <3>1. IsByte(p[j], cs) /\ p[j].n = N + 1
      BY <1>10, <2>2
    <3>2. l.n < N + 1
      BY <1>1, <1>7
    <3> QED BY <3>1, <3>2 DEF Comes
  <2> QED BY <1>8, <2>1, <2>2
<1>12. ASSUME NEW j \in 1 .. Len(p), NEW k \in 1 .. Len(p), j < k
       PROVE  Comes(p[j], p[k].n, p[k].at)
  <2>1. CASE k \in 1 .. h
    <3>1. j \in 1 .. h
      BY <1>8, <1>12, <2>1
    <3> QED BY <1>9, <1>12, <2>1, <3>1
  <2>2. CASE k - h \in 1 .. m /\ j \in 1 .. h
    <3>1. p[j].n \in 1 .. N
      BY <1>9, <2>2
    <3>2. p[k].n = N + 1
      BY <1>8, <1>10, <2>2
    <3>3. p[j].n < p[k].n
      BY <1>1, <3>1, <3>2
    <3> QED BY <3>3 DEF Comes
  <2>3. CASE k - h \in 1 .. m /\ j - h \in 1 .. m
    <3>1. j - h < k - h
      BY <1>8, <1>12, <2>3
    <3> QED BY <1>8, <1>10, <2>3, <3>1 DEF Comes
  <2> QED BY <1>8, <2>1, <2>2, <2>3
<1>13. ASSUME NEW n \in 1 .. Len(cs), NEW i \in 1 .. Width(cs, n), n \notin D, Comes(l, n, i)
       PROVE  \E j \in 1 .. Len(p) : p[j].n = n /\ p[j].at = i
  <2>1. CASE n \in 1 .. N
    <3>1. i \in 1 .. Width(bs, n)
      BY <1>3, <2>1
    <3>2. PICK j \in 1 .. h : q[j].n = n /\ q[j].at = i
      BY <1>13, <2>1, <3>1 DEF Follows, N, h
    <3>3. j \in 1 .. Len(p)
      BY <1>2, <1>8, <3>2
    <3> QED BY <1>9, <3>2, <3>3
  <2>2. CASE n = N + 1
    <3>1. i \in 1 .. m
      BY <1>2, <2>2
    <3>2. h + i \in 1 .. h + m /\ (h + i) - h = i
      BY <1>2, <1>8, <3>1
    <3> QED BY <1>8, <1>10, <2>2, <3>1, <3>2
  <2> QED BY <1>1, <2>1, <2>2
<1> QED BY <1>6, <1>11, <1>12, <1>13 DEF Follows

-----------------------------------------------------------------------------
(* Every step keeps the order of the bytes, and what is made of them.      *)

Pipe == ring \o wire

InOrder   == Follows(Pipe, last, damaged, bodies)
ReadRight == Faithful(Receiver, last, damaged, bodies)
SerialInv == SerialTypes /\ InOrder /\ ReadRight

\* A place of the pipe is one of the ring or one of the wire.
LEMMA PipeShape ==
  ASSUME NEW B, NEW a, NEW w, a \in Seq(B), w \in Seq(B), NEW p, p = a \o w
  PROVE  /\ Len(a) \in Nat /\ Len(w) \in Nat /\ Len(p) = Len(a) + Len(w)
         /\ \A j \in 1 .. Len(a) : p[j] = a[j]
         /\ \A j \in Len(a) + 1 .. Len(a) + Len(w) : p[j] = w[j - Len(a)]
         /\ \A j \in 1 .. Len(w) : p[Len(a) + j] = w[j]
<1>1. Len(a) \in Nat /\ Len(w) \in Nat
  OBVIOUS
<1>2. /\ Len(p) = Len(a) + Len(w) /\ \A j \in 1 .. Len(a) : p[j] = a[j]
      /\ \A j \in 1 .. Len(w) : p[Len(a) + j] = w[j]
  BY Joined
<1>3. ASSUME NEW j \in Len(a) + 1 .. Len(a) + Len(w) PROVE p[j] = w[j - Len(a)]
  <2>1. j - Len(a) \in 1 .. Len(w) /\ Len(a) + (j - Len(a)) = j
    BY <1>1
  <2>2. p[Len(a) + (j - Len(a))] = w[j - Len(a)]
    BY <1>2, <2>1
  <2> QED BY <2>1, <2>2
<1> QED BY <1>1, <1>2, <1>3

\* What is kept when nothing is read and no frame is sent, though some be damaged.
LEMMA RightKept ==
  ASSUME SerialTypes, ReadRight, bodies' = bodies, UNCHANGED framing, damaged \subseteq damaged',
         InOrder
  PROVE  ReadRight'
<1>1. Origin(last) \/ IsByte(last, bodies)
  BY DEF InOrder, Follows
<1>2. bodies \in Seq(Bodies)
  BY DEF SerialTypes, Lines
<1>3. last.n \in Nat /\ last.n <= Len(bodies) /\ Len(bodies) \in Nat /\ (last.n = 0 => last.end)
  BY <1>1, <1>2, LastFacts
<1>4. Faithful(Receiver, last, damaged', bodies)
  BY <1>3, FaithfulMore DEF ReadRight
<1>5. Receiver' = Receiver /\ last' = last
  BY DEF framing, Receiver
<1> QED BY <1>4, <1>5 DEF ReadRight

\* The wire loses its first k bytes.
LEMMA OrderWire ==
  ASSUME SerialTypes, InOrder, NEW k \in Nat, k <= Len(wire),
         UNCHANGED <<bodies, ring, last>>, damaged \subseteq damaged',
         wire' \in Seq(Bytes(Sent)), Len(wire') = Len(wire) - k,
         \A j \in 1 .. Len(wire') : wire'[j] = wire[j + k],
         \A j \in 1 .. k : wire[j].n \in damaged'
  PROVE  InOrder'
<1> DEFINE B == Bytes(Sent)
           q == Pipe
           p == Pipe'
           a == Len(ring)
<1>1. ring \in Seq(B) /\ wire \in Seq(B) /\ wire' \in Seq(B)
  BY DEF SerialTypes, Lines
<1>2. q = ring \o wire /\ p = ring \o wire'
  BY DEF Pipe
<1> HIDE DEF q, p, B
<1>3. /\ a \in Nat /\ Len(wire) \in Nat /\ Len(q) = a + Len(wire)
      /\ \A j \in 1 .. a : q[j] = ring[j]
      /\ \A j \in a + 1 .. a + Len(wire) : q[j] = wire[j - a]
  BY <1>1, <1>2, PipeShape
<1>4. /\ Len(wire') \in Nat /\ Len(p) = a + Len(wire')
      /\ \A j \in 1 .. a : p[j] = ring[j]
      /\ \A j \in a + 1 .. a + Len(wire') : p[j] = wire'[j - a]
  <2> DEFINE w == wire'
  <2>1. ring \in Seq(B) /\ w \in Seq(B) /\ p = ring \o w
    BY <1>1, <1>2
  <2> HIDE DEF w
  <2>2. /\ Len(w) \in Nat /\ Len(p) = a + Len(w)
        /\ \A j \in 1 .. a : p[j] = ring[j]
        /\ \A j \in a + 1 .. a + Len(w) : p[j] = w[j - a]
    BY <2>1, PipeShape
  <2> QED BY <2>2 DEF w
<1> HIDE DEF a
<1>5. Len(q) \in Nat /\ Len(p) = Len(q) - k /\ a + k <= Len(q)
  BY <1>3, <1>4
<1>6. \A j \in 1 .. a : p[j] = q[j]
  BY <1>3, <1>4
<1>7. ASSUME NEW j \in a + 1 .. Len(p) PROVE p[j] = q[j + k]
  <2>1. /\ j \in a + 1 .. a + Len(wire') /\ j - a \in 1 .. Len(wire')
        /\ j + k \in a + 1 .. a + Len(wire) /\ (j + k) - a = (j - a) + k
    BY <1>3, <1>4, <1>5
  <2>2. p[j] = wire'[j - a] /\ q[j + k] = wire[(j + k) - a]
    BY <1>3, <1>4, <2>1
  <2> QED BY <2>1, <2>2
<1>8. ASSUME NEW j \in a + 1 .. a + k PROVE q[j].n \in damaged'
  <2>1. j - a \in 1 .. k /\ j \in a + 1 .. a + Len(wire)
    BY <1>3
  <2> QED BY <1>3, <2>1
<1>9. Follows(q, last, damaged, bodies)
  BY DEF InOrder, q
<1>10. Follows(p, last, damaged', bodies)
  BY <1>3, <1>5, <1>6, <1>7, <1>8, <1>9, FollowsCut
<1> QED BY <1>10 DEF InOrder, p

\* Nothing that matters here changes.
LEMMA InvKept ==
  ASSUME InOrder, ReadRight, UNCHANGED <<bodies, wire, ring, damaged, framing>>
  PROVE  InOrder' /\ ReadRight'
BY DEF InOrder, ReadRight, framing, Pipe, Receiver

LEMMA InvPeerSends ==
  ASSUME SerialInv, PeerSends PROVE InOrder' /\ ReadRight'
<1> DEFINE K == Len(bodies)
           B == Bytes(K)
           C == Bytes(K + 1)
<1>1. K \in Nat /\ bodies \in Seq(Bodies) /\ ring \in Seq(B) /\ InOrder /\ wire = << >>
  BY DEF SerialInv, SerialTypes, Lines, Sent, PeerSends
<1>2. PICK body \in Bodies : bodies' = Append(bodies, body) /\ wire' = WireFrame(K + 1, body)
  BY DEF PeerSends
<1>3. UNCHANGED <<ring, damaged, Receiver, last>>
  BY DEF PeerSends, framing, Receiver
<1>4. Follows(Pipe', last, damaged, bodies')
  <2> DEFINE q == Pipe
             p == Pipe'
             h == Len(ring)
  <2>1. h \in Nat /\ Len(q) = h /\ \A j \in 1 .. h : q[j] = ring[j]
    <3> HIDE DEF B
    <3>1. wire \in Seq(B) /\ Len(wire) = 0
      BY <1>1
    <3>2. /\ h \in Nat /\ Len(wire) \in Nat /\ Len(q) = h + Len(wire)
          /\ \A j \in 1 .. h : q[j] = ring[j]
      BY <1>1, <3>1, PipeShape DEF Pipe
    <3> HIDE DEF q, h
    <3> QED BY <3>1, <3>2
  <2>2. ring \in Seq(C) /\ wire' \in Seq(C) /\ p = ring \o wire'
    <3>1. K + 1 \in Nat \ {0}
      BY <1>1
    <3>2. wire' \in Seq(C)
      BY <1>2, <3>1, WireFrameType
    <3>3. ring \in Seq(C)
      BY <1>1, MoreFrames, WiderSeq
    <3>4. p = ring \o wire'
      BY <1>3 DEF Pipe
    <3> QED BY <3>2, <3>3, <3>4
  <2> HIDE DEF q, p, C, K
  <2>3. /\ Len(p) = h + Len(wire') /\ \A j \in 1 .. h : p[j] = ring[j]
        /\ \A j \in 1 .. Len(wire') : p[h + j] = wire'[j]
    BY <2>2, PipeShape
  <2> HIDE DEF h
  <2>4. Follows(q, last, damaged, bodies)
    BY <1>1 DEF InOrder, q
  <2>5. Len(q) \in Nat /\ Len(p) = Len(q) + Len(wire') /\ (\A j \in 1 .. Len(q) : p[j] = q[j])
        /\ \A j \in 1 .. Len(wire') : p[Len(q) + j] = wire'[j]
    BY <2>1, <2>3
  <2>6. Follows(p, last, damaged, bodies')
    <3>1. /\ bodies \in Seq(Bodies) /\ body \in Bodies /\ bodies' = Append(bodies, body)
          /\ wire' = WireFrame(Len(bodies) + 1, body)
      BY <1>1, <1>2 DEF K
    <3>2. Extends(p, q, WireFrame(Len(bodies) + 1, body))
      BY <2>5, <3>1 DEF Extends
    <3> QED BY <2>4, <3>1, <3>2, FollowsMore
  <2> QED BY <2>6 DEF p
<1>5. Faithful(Receiver, last, damaged, bodies')
  <2>1. last.n \in Nat /\ last.n <= K /\ (last.n = 0 => last.end)
    BY <1>1, LastFacts DEF InOrder, Follows
  <2>2. Len(bodies') = K + 1 /\ \A n \in 1 .. K : bodies'[n] = bodies[n]
    BY <1>1, <1>2
  <2>3. Faithful(Receiver, last, damaged, bodies)
    BY DEF SerialInv, ReadRight
  <2>4. Len(bodies') \in Nat /\ Len(bodies) <= Len(bodies')
    BY <1>1, <2>2
  <2> QED BY <1>1, <2>1, <2>2, <2>3, <2>4, FaithfulMore
<1> QED BY <1>3, <1>4, <1>5 DEF InOrder, ReadRight

LEMMA InvArrive ==
  ASSUME SerialInv, NEW k \in 1 .. MaxChunk, BytesArrive(k) PROVE InOrder' /\ ReadRight'
<1> DEFINE B == Bytes(Sent)
           s == SubSeq(wire, 1, k)
           e == SubSeq(wire, k + 1, Len(wire))
           q == Pipe
           p == Pipe'
           a == Len(ring)
           L == Len(wire)
<1>1. /\ k \in Nat /\ k <= L /\ L \in Nat /\ Lines /\ wire \in Seq(B) /\ ring \in Seq(B)
      /\ SerialTypes /\ InOrder /\ ReadRight
  <2>1. Len(wire) \in Nat
    BY DEF SerialInv, SerialTypes, Lines
  <2> QED BY <2>1, SerialLinkAssumption DEF BytesArrive, SerialInv, SerialTypes, Lines
<1>2. ring' = ring \o s /\ wire' = e /\ UNCHANGED <<bodies, damaged, framing>>
  BY DEF BytesArrive
<1> HIDE DEF B
<1>3. /\ s \in Seq(B) /\ Len(s) = k /\ \A j \in 1 .. k : s[j] = wire[j]
      /\ e \in Seq(B) /\ Len(e) = L - k /\ \A j \in 1 .. L - k : e[j] = wire[j + k]
  <2>1. k \in 0 .. Len(wire)
    BY <1>1
  <2> QED BY <1>1, <2>1, SplitShape
<1> HIDE DEF s, e
<1>4. /\ a \in Nat /\ Len(q) = a + L
      /\ \A j \in 1 .. a : q[j] = ring[j]
      /\ \A j \in 1 .. L : q[a + j] = wire[j]
  <2>1. q = ring \o wire
    BY DEF Pipe
  <2> HIDE DEF q
  <2> QED BY <1>1, <2>1, PipeShape
<1>5. /\ ring' \in Seq(B) /\ Len(ring') = a + k
      /\ \A j \in 1 .. a : ring'[j] = ring[j]
      /\ \A j \in 1 .. k : ring'[a + j] = s[j]
  <2>1. ring \in Seq(B) /\ s \in Seq(B) /\ ring' = ring \o s
    BY <1>1, <1>2, <1>3
  <2>2. /\ ring' \in Seq(B) /\ Len(ring') = Len(ring) + Len(s)
        /\ \A j \in 1 .. Len(ring) : ring'[j] = ring[j]
        /\ \A j \in 1 .. Len(s) : ring'[Len(ring) + j] = s[j]
    BY <2>1, Joined
  <2> QED BY <1>3, <2>2
<1>6. /\ Len(p) = (a + k) + (L - k)
      /\ \A j \in 1 .. a + k : p[j] = ring'[j]
      /\ \A j \in 1 .. L - k : p[(a + k) + j] = e[j]
  <2>1. p = ring' \o e /\ ring' \in Seq(B) /\ e \in Seq(B)
    BY <1>2, <1>3, <1>5 DEF Pipe
  <2> HIDE DEF p
  <2>2. /\ Len(p) = Len(ring') + Len(e) /\ \A j \in 1 .. Len(ring') : p[j] = ring'[j]
        /\ \A j \in 1 .. Len(e) : p[Len(ring') + j] = e[j]
    BY <2>1, Joined
  <2> QED BY <1>3, <1>5, <2>2
<1> HIDE DEF p, q, a, L
<1>7. Len(p) = Len(q) - 0 /\ Len(q) \in Nat /\ 0 + 0 <= Len(q)
  BY <1>1, <1>4, <1>6
<1>8. \A j \in 0 + 1 .. Len(p) : p[j] = q[j + 0]
  <2> SUFFICES ASSUME NEW j \in 0 + 1 .. Len(p) PROVE p[j] = q[j]
    OBVIOUS
  <2>0. j \in 1 .. a + L
    BY <1>1, <1>4, <1>6
  <2>1. CASE j \in 1 .. a
    <3>1. j \in 1 .. a + k
      BY <1>1, <1>4, <2>1
    <3> QED BY <1>4, <1>5, <1>6, <2>1, <3>1
  <2>2. CASE j \in a + 1 .. a + k
    <3> DEFINE i == j - a
    <3>1. i \in 1 .. k /\ i \in 1 .. L /\ a + i = j /\ j \in 1 .. a + k
      BY <1>1, <1>4, <2>2
    <3> HIDE DEF i
    <3>2. p[j] = ring'[j] /\ ring'[a + i] = s[i] /\ s[i] = wire[i] /\ q[a + i] = wire[i]
      BY <1>3, <1>4, <1>5, <1>6, <3>1
    <3> QED BY <3>1, <3>2
  <2>3. CASE j \in (a + k) + 1 .. a + L
    <3> DEFINE i == j - (a + k)
    <3>1. i \in 1 .. L - k /\ i + k \in 1 .. L /\ (a + k) + i = j /\ a + (i + k) = j
      BY <1>1, <1>4, <2>3
    <3> HIDE DEF i
    <3>2. p[(a + k) + i] = e[i] /\ e[i] = wire[i + k] /\ q[a + (i + k)] = wire[i + k]
      BY <1>3, <1>4, <1>6, <3>1 DEF L
    <3> QED BY <3>1, <3>2
  <2>4. j \in 1 .. a \/ j \in a + 1 .. a + k \/ j \in (a + k) + 1 .. a + L
    BY <1>1, <1>4, <2>0
  <2> QED BY <2>1, <2>2, <2>3, <2>4
<1>9. Follows(q, last, damaged, bodies)
  BY <1>1 DEF InOrder, q
<1>10. /\ \A j \in 1 .. 0 : p[j] = q[j]
       /\ \A j \in 0 + 1 .. 0 + 0 : q[j].n \in damaged
       /\ 0 \in Nat
  OBVIOUS
<1>11. Follows(p, last, damaged, bodies)
  BY <1>7, <1>8, <1>9, <1>10, FollowsCut
<1>12. InOrder'
  BY <1>2, <1>11 DEF InOrder, p, framing
<1>13. ReadRight'
  BY <1>1, <1>2, RightKept
<1> QED BY <1>12, <1>13

LEMMA InvLoses == ASSUME SerialInv, WireLoses PROVE InOrder' /\ ReadRight'
<1> DEFINE B == Bytes(Sent)
<1>1. /\ wire \in Seq(B) /\ wire # << >> /\ wire' = Tail(wire)
      /\ damaged' = damaged \cup {Head(wire).n}
      /\ UNCHANGED <<bodies, ring, framing>> /\ SerialTypes /\ InOrder /\ ReadRight
  BY DEF WireLoses, SerialInv, SerialTypes, Lines
<1> HIDE DEF B
<1>2. /\ wire' \in Seq(B) /\ Len(wire') = Len(wire) - 1 /\ 1 <= Len(wire)
      /\ \A j \in 1 .. Len(wire') : wire'[j] = wire[j + 1]
      /\ Head(wire) = wire[1]
  BY <1>1
<1>3. \A j \in 1 .. 1 : wire[j].n \in damaged'
  BY <1>1, <1>2
<1>4. damaged \subseteq damaged' /\ 1 \in Nat /\ UNCHANGED last
  BY <1>1 DEF framing
<1> USE DEF B
<1>5. InOrder'
  BY <1>1, <1>2, <1>3, <1>4, OrderWire
<1>6. ReadRight'
  BY <1>1, <1>4, RightKept
<1> QED BY <1>5, <1>6

LEMMA InvOverflow ==
  ASSUME SerialInv, NEW k \in 1 .. MaxChunk, BytesOverflow(k) PROVE InOrder' /\ ReadRight'
<1> DEFINE B == Bytes(Sent)
           s == SubSeq(wire, 1, k)
           e == SubSeq(wire, k + 1, Len(wire))
           L == Len(wire)
<1>1. /\ k \in Nat /\ k <= L /\ L \in Nat /\ wire \in Seq(B)
      /\ SerialTypes /\ InOrder /\ ReadRight
  <2>1. Len(wire) \in Nat
    BY DEF SerialInv, SerialTypes, Lines
  <2> QED BY <2>1, SerialLinkAssumption DEF BytesOverflow, SerialInv, SerialTypes, Lines
<1>2. /\ wire' = e /\ UNCHANGED <<bodies, ring, framing>>
      /\ damaged' = damaged \cup Numbers(s)
  BY DEF BytesOverflow
<1> HIDE DEF B
<1>3. /\ s \in Seq(B) /\ Len(s) = k /\ \A j \in 1 .. k : s[j] = wire[j]
      /\ e \in Seq(B) /\ Len(e) = L - k /\ \A j \in 1 .. L - k : e[j] = wire[j + k]
  <2>1. k \in 0 .. Len(wire)
    BY <1>1
  <2> QED BY <1>1, <2>1, SplitShape
<1> HIDE DEF s, e
<1>4. \A j \in 1 .. k : wire[j].n \in damaged'
  BY <1>2, <1>3 DEF Numbers
<1>5. damaged \subseteq damaged' /\ UNCHANGED last
  BY <1>2 DEF framing
<1>6. /\ wire' \in Seq(B) /\ Len(wire') = Len(wire) - k
      /\ \A j \in 1 .. Len(wire') : wire'[j] = wire[j + k]
  BY <1>2, <1>3
<1> USE DEF B
<1>7. InOrder'
  BY <1>1, <1>2, <1>4, <1>5, <1>6, OrderWire
<1>8. ReadRight'
  BY <1>1, <1>2, <1>5, RightKept
<1> QED BY <1>7, <1>8

LEMMA InvFlush == ASSUME SerialInv, FlushInput PROVE InOrder' /\ ReadRight'
<1> DEFINE B == Bytes(Sent)
           q == Pipe
           p == Pipe'
           k == Len(ring)
<1>1. /\ ring \in Seq(B) /\ wire \in Seq(B) /\ SerialTypes /\ InOrder /\ ReadRight
      /\ ring' = << >> /\ damaged' = damaged \cup Numbers(ring)
      /\ UNCHANGED <<bodies, wire, framing>>
  BY DEF FlushInput, SerialInv, SerialTypes, Lines
<1> HIDE DEF B
<1>2. /\ k \in Nat /\ Len(wire) \in Nat /\ Len(q) = k + Len(wire)
      /\ \A j \in 1 .. k : q[j] = ring[j]
      /\ \A j \in 1 .. Len(wire) : q[k + j] = wire[j]
  <2>1. q = ring \o wire
    BY DEF Pipe
  <2> HIDE DEF q
  <2> QED BY <1>1, <2>1, PipeShape
<1>3. Len(p) = Len(wire) /\ \A j \in 1 .. Len(wire) : p[j] = wire[j]
  <2>1. p = ring' \o wire /\ ring' \in Seq(B) /\ Len(ring') = 0
    BY <1>1, EmptyType DEF Pipe
  <2> HIDE DEF p
  <2>2. /\ Len(p) = Len(ring') + Len(wire)
        /\ \A j \in 1 .. Len(wire) : p[Len(ring') + j] = wire[j]
    BY <1>1, <2>1, PipeShape
  <2>3. \A j \in 1 .. Len(wire) : 0 + j = j
    BY <1>2
  <2> QED BY <1>2, <2>1, <2>2, <2>3
<1>4. \A j \in 1 .. k : ring[j].n \in damaged'
  BY <1>1 DEF Numbers
<1> HIDE DEF p, q, k
<1>5. /\ Len(p) = Len(q) - k /\ Len(q) \in Nat /\ 0 + k <= Len(q) /\ 0 \in Nat
      /\ \A j \in 1 .. 0 : p[j] = q[j]
  BY <1>2, <1>3
<1>6. \A j \in 0 + 1 .. Len(p) : p[j] = q[j + k]
  <2>1. \A j \in 1 .. Len(wire) : k + j = j + k
    BY <1>2
  <2> QED BY <1>2, <1>3, <2>1
<1>7. \A j \in 0 + 1 .. 0 + k : q[j].n \in damaged'
  BY <1>2, <1>4
<1>8. damaged \subseteq damaged' /\ UNCHANGED last
  BY <1>1 DEF framing
<1>9. Follows(q, last, damaged, bodies)
  BY <1>1 DEF InOrder, q
<1>10. Follows(p, last, damaged', bodies)
  BY <1>2, <1>5, <1>6, <1>7, <1>8, <1>9, FollowsCut
<1>11. InOrder'
  BY <1>1, <1>8, <1>10 DEF InOrder, p
<1>12. ReadRight'
  BY <1>1, <1>8, RightKept
<1> QED BY <1>11, <1>12

\* Byte k of a sequence comes in turn after the one before it.
LEMMA TurnAt ==
  ASSUME NEW bs \in Seq(Bodies), NEW l, NEW D, 0 \notin D, NEW q, Follows(q, l, D, bs),
         Len(q) \in Nat, NEW k \in 1 .. Len(q)
  PROVE  InTurn(IF k = 1 THEN l ELSE q[k - 1], q[k], D, bs)
<1>1. IsByte(q[k], bs)
  BY DEF Follows
<1>2. CASE k = 1
  <2>1. Gap(l, q[1], D, bs)
    <3>1. Len(q) # 0
      OBVIOUS
    <3> QED BY <3>1, FollowsGap
  <2> QED BY <1>1, <1>2, <2>1 DEF InTurn, Follows
<1>3. CASE k # 1
  <2> DEFINE h == k - 1
             p == [j \in 1 .. Len(q) - h |-> q[j + h]]
  <2>1. h \in 1 .. Len(q) /\ h < k /\ Len(q) - h \in Nat /\ 1 + h = k /\ 1 \in 1 .. Len(q) - h
    BY <1>3
  <2>2. Len(p) = Len(q) - h /\ \A j \in 1 .. Len(p) : p[j] = q[j + h]
    <3> HIDE DEF h
    <3> QED BY <2>1
  <2>3. p[1] = q[k]
    <3> HIDE DEF h, p
    <3> QED BY <2>1, <2>2
  <2> HIDE DEF h, p
  <2>4. Follows(p, q[h], D, bs)
    BY <2>1, <2>2, FollowsRest
  <2>5. Gap(q[h], p[1], D, bs)
    <3>1. Len(p) \in Nat /\ Len(p) # 0
      BY <2>1, <2>2
    <3> QED BY <2>4, <3>1, FollowsGap
  <2>6. IsByte(q[h], bs) /\ Comes(q[h], q[k].n, q[k].at)
    BY <2>1 DEF Follows
  <2>7. InTurn(q[h], q[k], D, bs)
    BY <1>1, <2>3, <2>5, <2>6 DEF InTurn
  <2> QED BY <1>3, <2>7 DEF h
<1> QED BY <1>2, <1>3

LEMMA InvRead == ASSUME SerialInv, ReadBytes PROVE InOrder' /\ ReadRight'
<1> DEFINE B == Bytes(Sent)
           q == Pipe
           p == Pipe'
           a == Len(ring)
           L == Len(wire)
           k == size
           e == SubSeq(ring, k + 1, a)
<1>1. /\ ring \in Seq(B) /\ wire \in Seq(B) /\ SerialTypes /\ InOrder /\ ReadRight
      /\ ring' = e /\ last' = ring[k]
      /\ UNCHANGED <<bodies, wire, damaged>>
      /\ bodies \in Seq(Bodies) /\ Len(bodies) \in Nat /\ 0 \notin damaged
  <2>1. bodies \in Seq(Bodies) /\ damaged \subseteq 1 .. Len(bodies)
    BY DEF SerialInv, SerialTypes, Lines, Sent
  <2>2. Len(bodies) \in Nat /\ 0 \notin damaged
    BY <2>1
  <2> QED BY <2>1, <2>2 DEF ReadBytes, SerialInv, SerialTypes, Lines
<1>2. PICK t : ReadsAlong(t)
  BY <1>1, ReadAlong
<1>3. k \in Nat \ {0} /\ k <= a /\ a \in Nat /\ L \in Nat
  BY <1>1, <1>2 DEF ReadsAlong
<1> HIDE DEF B
<1>4. /\ Len(q) = a + L
      /\ \A j \in 1 .. a : q[j] = ring[j]
      /\ \A j \in a + 1 .. a + L : q[j] = wire[j - a]
  <2>1. q = ring \o wire
    BY DEF Pipe
  <2> HIDE DEF q
  <2> QED BY <1>1, <2>1, PipeShape
<1>5. /\ e \in Seq(B) /\ Len(e) = a - k /\ \A j \in 1 .. a - k : e[j] = ring[j + k]
  <2>1. k \in 0 .. Len(ring)
    BY <1>3
  <2> QED BY <1>1, <2>1, SplitShape
<1> HIDE DEF e
<1>6. /\ Len(p) = (a - k) + L
      /\ \A j \in 1 .. a - k : p[j] = e[j]
      /\ \A j \in (a - k) + 1 .. (a - k) + L : p[j] = wire[j - (a - k)]
  <2>1. p = e \o wire
    BY <1>1 DEF Pipe
  <2> HIDE DEF p
  <2>2. /\ Len(p) = Len(e) + L
        /\ \A j \in 1 .. Len(e) : p[j] = e[j]
        /\ \A j \in Len(e) + 1 .. Len(e) + L : p[j] = wire[j - Len(e)]
    <3>1. e \in Seq(B) /\ wire \in Seq(B) /\ p = e \o wire
      BY <1>1, <1>5, <2>1
    <3> HIDE DEF L
    <3>2. /\ Len(p) = Len(e) + Len(wire)
          /\ \A j \in 1 .. Len(e) : p[j] = e[j]
          /\ \A j \in Len(e) + 1 .. Len(e) + Len(wire) : p[j] = wire[j - Len(e)]
      BY <3>1, PipeShape
    <3> QED BY <3>2 DEF L
  <2> QED BY <1>5, <2>2
<1> HIDE DEF p, q, a, L
<1>7. Len(q) \in Nat /\ k \in 1 .. Len(q) /\ Len(p) = Len(q) - k
  BY <1>3, <1>4, <1>6
<1>8. \A j \in 1 .. Len(p) : p[j] = q[j + k]
  <2> SUFFICES ASSUME NEW j \in 1 .. Len(p) PROVE p[j] = q[j + k]
    OBVIOUS
  <2>1. CASE j \in 1 .. a - k
    <3>1. j + k \in 1 .. a
      BY <1>3, <2>1
    <3> QED BY <1>4, <1>5, <1>6, <2>1, <3>1
  <2>2. CASE j \in (a - k) + 1 .. (a - k) + L
    <3>1. j + k \in a + 1 .. a + L /\ (j + k) - a = j - (a - k)
      BY <1>3, <2>2
    <3> QED BY <1>4, <1>6, <2>2, <3>1
  <2>3. j \in 1 .. a - k \/ j \in (a - k) + 1 .. (a - k) + L
    BY <1>3, <1>6
  <2> QED BY <2>1, <2>2, <2>3
<1>9. Follows(q, last, damaged, bodies)
  BY <1>1 DEF InOrder, q
<1>10. last' = q[k]
  BY <1>1, <1>3, <1>4
<1>11. InOrder'
  <2>1. Follows(p, q[k], damaged, bodies)
    BY <1>1, <1>7, <1>8, <1>9, FollowsRest
  <2> QED BY <1>1, <1>10, <2>1 DEF InOrder, p
<1> DEFINE s == SubSeq(ring, 1, k)
           before(i) == IF i = 0 THEN last ELSE q[i]
           right(i) == Faithful(t[i], before(i), damaged, bodies)
           P == {i \in Nat : i <= k => right(i)}
<1>12. /\ Len(s) = k /\ t[0] = Receiver /\ t \in [0 .. k -> Receivers(Sent)]
       /\ \A i \in 1 .. k : t[i] = RxdByte(t[i - 1], s[i]) /\ s[i] = q[i]
       /\ Receiver' = t[k]
  <2>1. /\ RxdTrace(t, Sent, Receiver, s) /\ Len(s) = k /\ Receiver' = t[Len(s)]
        /\ \A i \in 1 .. k : s[i] = ring[i]
    BY <1>2 DEF ReadsAlong
  <2> HIDE DEF s
  <2>2. \A i \in 1 .. k : i \in 1 .. a
    BY <1>3
  <2> QED BY <1>4, <2>1, <2>2 DEF RxdTrace
<1> HIDE DEF s
<1>13. 0 \in P
  BY <1>1, <1>12 DEF ReadRight
<1>14. ASSUME NEW i \in P PROVE i + 1 \in P
  <2> SUFFICES ASSUME i + 1 <= k PROVE right(i + 1)
    <3> HIDE DEF right
    <3> QED OBVIOUS
  <2>1. /\ i + 1 \in 1 .. k /\ i + 1 \in 1 .. Len(q) /\ (i + 1) - 1 = i /\ i \in 0 .. k /\ i \in Nat
        /\ i + 1 # 0
    BY <1>3, <1>7
  <2>2. right(i)
    BY <2>1
  <2>3. InTurn(before(i), q[i + 1], damaged, bodies)
    <3>1. InTurn(IF i + 1 = 1 THEN last ELSE q[(i + 1) - 1], q[i + 1], damaged, bodies)
      BY <1>1, <1>7, <1>9, <2>1, TurnAt
    <3>2. before(i) = IF i + 1 = 1 THEN last ELSE q[(i + 1) - 1]
      BY <2>1
    <3> QED BY <3>1, <3>2
  <2>4. t[i] \in Receivers(Len(bodies))
    BY <1>12, <2>1 DEF Sent
  <2> HIDE DEF before
  <2>5. Faithful(RxdByte(t[i], q[i + 1]), q[i + 1], damaged, bodies)
    BY <2>2, <2>3, <2>4, FaithfulStep
  <2>6. t[i + 1] = RxdByte(t[i], q[i + 1])
    BY <1>12, <2>1
  <2>7. before(i + 1) = q[i + 1]
    BY <2>1 DEF before
  <2> QED BY <2>5, <2>6, <2>7
<1>15. right(k)
  <2>1. P \in SUBSET Nat
    <3> HIDE DEF right
    <3> QED OBVIOUS
  <2> HIDE DEF P
  <2>2. P = Nat
    BY <1>13, <1>14, <2>1, Induction
  <2>3. k \in P
    BY <1>3, <2>2
  <2> HIDE DEF right
  <2> QED BY <1>3, <2>3 DEF P
<1>16. ReadRight'
  <2>1. before(k) = last'
    BY <1>3, <1>10
  <2> HIDE DEF before
  <2> QED BY <1>1, <1>12, <1>15, <2>1 DEF ReadRight
<1> QED BY <1>11, <1>16

LEMMA SerialInvInit == SerialLinkInit => SerialInv
<1> SUFFICES ASSUME SerialLinkInit PROVE SerialInv
  OBVIOUS
<1>1. SerialTypes
  BY SerialTypesInit
<1>2. Len(bodies) = 0 /\ Len(Pipe) = 0 /\ Origin(last) /\ Len(emitted) = 0 /\ 1 .. 0 = {}
  <2>1. Pipe = << >> \o << >>
    BY DEF SerialLinkInit, Pipe
  <2>2. Len(<< >> \o << >>) = 0
    OBVIOUS
  <2> QED BY <2>1, <2>2 DEF SerialLinkInit, Origin
<1>3. InOrder
  BY <1>2 DEF InOrder, Follows
<1>4. Receiver.rxd = << >> /\ ~Receiver.esc /\ Receiver.out = emitted
  BY DEF SerialLinkInit, Receiver
<1>5. last.end
  BY <1>2 DEF Origin
<1>6. ReadRight
  BY <1>2, <1>4, <1>5 DEF ReadRight, Faithful, Escapes, Partial, Unmade, Made
<1> QED BY <1>1, <1>3, <1>6 DEF SerialInv

LEMMA SerialInvStep ==
  ASSUME SerialInv, [SerialLinkNext]_serialLinkVars PROVE SerialInv'
<1>1. SerialTypes'
  BY SerialTypesStep DEF SerialInv
<1>2. InOrder' /\ ReadRight'
  <2>1. CASE PeerSends
    BY <2>1, InvPeerSends
  <2>2. CASE WireLoses
    BY <2>2, InvLoses
  <2>3. ASSUME NEW k \in 1 .. MaxChunk, BytesArrive(k) PROVE InOrder' /\ ReadRight'
    BY <2>3, InvArrive
  <2>4. ASSUME NEW k \in 1 .. MaxChunk, BytesOverflow(k) PROVE InOrder' /\ ReadRight'
    BY <2>4, InvOverflow
  <2>5. CASE NextEvent
    BY <2>5, InvKept DEF NextEvent, SerialInv
  <2>6. CASE ReadBytes
    BY <2>6, InvRead
  <2>7. CASE FlushInput
    BY <2>7, InvFlush
  <2>8. CASE QueueReset
    BY <2>8, InvKept DEF QueueReset, SerialInv
  <2>9. CASE WorkerTakes
    BY <2>9, InvKept DEF WorkerTakes, SerialInv
  <2>10. CASE UNCHANGED serialLinkVars
    BY <2>10, InvKept DEF serialLinkVars, SerialInv
  <2> QED BY <2>1, <2>2, <2>3, <2>4, <2>5, <2>6, <2>7, <2>8, <2>9, <2>10
          DEF SerialLinkNext, EventTask
<1> QED BY <1>1, <1>2 DEF SerialInv

\* Lost bytes damage the frame they belonged to and the next one, no more: every other
\* frame that is not too long comes out once and as it was sent, for any bodies, any
\* losses, and however the bytes are cut into chunks.
THEOREM DamageStaysLocal == SerialLinkSpec => []DamageIsLocal
<1>1. SerialInv => DamageIsLocal
  <2> SUFFICES ASSUME SerialInv, NEW n \in Received, {n - 1, n} \cap damaged = {},
                      Len(bodies[n]) <= FRAME_MAX
               PROVE  OneRight(emitted, n, bodies[n])
    BY DEF DamageIsLocal, OneRight
  <2>1. n \in 1 .. Len(bodies) /\ Past(last, n)
    BY DEF Received, Past
  <2>2. n \notin damaged /\ n - 1 \notin damaged
    OBVIOUS
  <2>3. OneRight(Receiver.out, n, bodies[n])
    BY <2>1, <2>2 DEF SerialInv, ReadRight, Faithful, Made
  <2> QED BY <2>3 DEF Receiver
<1>2. SerialLinkInit => SerialInv
  BY SerialInvInit
<1>3. SerialInv /\ [SerialLinkNext]_serialLinkVars => SerialInv'
  BY SerialInvStep
<1> QED BY <1>1, <1>2, <1>3, PTL DEF SerialLinkSpec

-----------------------------------------------------------------------------
(* What the spine thread publishes.                                        *)

\* The source that was asked last is that of the index before: what SourcesInTurn
\* needs of the states, and inductive with the types.
AskedInTurn == idx > 0 => NumSources > 0 /\ asked = (idx - 1) % NumSources

TelemetryInv == TelemetryTypeOK /\ AskedInTurn

LEMMA DegreesRange ==
  ASSUME NEW raw \in Nat, raw <= 4095
  PROVE  Degrees(raw) \in -180 .. 179
BY DEF Degrees, Truncated

LEMMA NextSource ==
  ASSUME TelemetryInv, Poll, NumSources > 0, pollerConnected
  PROVE  /\ asked' = idx % NumSources
         /\ asked' \in 0 .. NumSources - 1
         /\ idx' = (idx + 1) % IdxSize
         /\ idx' \in 0 .. IdxSize - 1
         /\ idx' > 0 => idx' = idx + 1
<1>1. asked' = idx % NumSources /\ idx' = (idx + 1) % IdxSize
  BY DEF Poll, NextIdx
<1>2. /\ NumSources \in Nat \ {0} /\ IdxSize \in Nat \ {0}
      /\ idx \in 0 .. IdxSize - 1
  BY TelemetryAssumption DEF TelemetryInv, TelemetryTypeOK
<1>3. idx % NumSources \in 0 .. NumSources - 1 /\ (idx + 1) % IdxSize \in 0 .. IdxSize - 1
  <2>1. idx \in Int /\ idx + 1 \in Int
    BY <1>2
  <2> QED BY <2>1, <1>2, DivRange
<1>4. (idx + 1) % IdxSize > 0 => (idx + 1) % IdxSize = idx + 1
  <2>1. CASE idx + 1 < IdxSize
    <3>1. idx + 1 \in 0 .. IdxSize - 1
      BY <1>2, <2>1
    <3> QED BY <3>1, <1>2, SmallRemainder
  <2>2. CASE idx + 1 = IdxSize
    <3>1. (IdxSize * 1 + 0) % IdxSize = 0
      BY <1>2, Remainder
    <3> QED BY <3>1, <1>2, <2>2
  <2> QED BY <1>2, <2>1, <2>2
<1> QED BY <1>1, <1>3, <1>4

LEMMA TelemetryStep ==
  ASSUME TelemetryInv, [TelemetryNext]_telemetryVars
  PROVE  TelemetryInv'
<1> USE DEF TelemetryInv, TelemetryTypeOK, AskedInTurn
<1>1. CASE InitSensor
  BY <1>1 DEF InitSensor, InitBus
<1>2. CASE StartThreads
  BY <1>2 DEF StartThreads
<1>3. CASE SpineConnects
  BY <1>3 DEF SpineConnects
<1>4. CASE Poll
  <2>1. CASE NumSources > 0 /\ pollerConnected
    <3>1. /\ asked' = idx % NumSources /\ asked' \in 0 .. NumSources - 1
          /\ idx' \in 0 .. IdxSize - 1 /\ (idx' > 0 => idx' = idx + 1)
      BY <1>4, <2>1, NextSource
    <3>2. idx \in Nat /\ NumSources \in Nat /\ UNCHANGED <<setUp, busDriver, pollerConnected, transaction, angle>>
      BY <1>4, TelemetryAssumption DEF Poll
    <3>3. asked' \in 0 .. NumSources
      BY <3>1, <3>2
    <3>4. idx' > 0 => asked' = (idx' - 1) % NumSources
      BY <3>1, <3>2
    <3> QED BY <2>1, <3>1, <3>2, <3>3, <3>4
  <2>2. CASE ~(NumSources > 0 /\ pollerConnected)
    BY <1>4, <2>2 DEF Poll, NextIdx
  <2> QED BY <2>1, <2>2
<1>5. CASE Ticker
  <2>1. CASE StartReading
    BY <2>1 DEF StartReading
  <2>2. CASE Written
    BY <2>2 DEF Written
  <2>3. CASE AngleRead
    <3> PICK raw \in RawAngles : Publish(raw)
      BY <2>3 DEF AngleRead
    <3>1. raw \in Nat /\ raw <= 4095 /\ angle' = Degrees(raw)
      BY TelemetryAssumption DEF Publish
    <3>2. Degrees(raw) \in -180 .. 179
      BY <3>1, DegreesRange
    <3> QED BY <3>1, <3>2 DEF Publish
  <2>4. CASE ReadingFails
    <3>1. 0 \in Nat /\ 0 <= 4095 /\ angle' = Degrees(0)
      BY <2>4 DEF ReadingFails, Publish
    <3>2. Degrees(0) \in -180 .. 179
      BY <3>1, DegreesRange
    <3> QED BY <3>1, <3>2, <2>4 DEF ReadingFails, Publish
  <2> QED BY <1>5, <2>1, <2>2, <2>3, <2>4 DEF Ticker
<1>6. CASE UNCHANGED telemetryVars
  BY <1>6 DEF telemetryVars
<1> QED BY <1>1, <1>2, <1>3, <1>4, <1>5, <1>6 DEF TelemetryNext

LEMMA TelemetryStarts == TelemetryInit => TelemetryInv
<1> SUFFICES ASSUME TelemetryInit PROVE TelemetryInv
  OBVIOUS
<1>1. idx \in 0 .. IdxSize - 1 /\ ~ idx > 0 /\ asked \in 0 .. NumSources /\ angle \in -180 .. 179
  BY TelemetryAssumption DEF TelemetryInit
<1> QED BY <1>1 DEF TelemetryInit, TelemetryInv, TelemetryTypeOK, AskedInTurn

LEMMA TelemetryInvHolds == TelemetrySpec => []TelemetryInv
BY TelemetryStarts, TelemetryStep, PTL DEF TelemetrySpec

\* Whatever pattern the connection drops and returns in, Poller.h asks the sources in
\* turn, for any number of sources and any size of _idx.
THEOREM SourcesAskedInTurn == TelemetrySpec => SourcesInTurn
<1>1. ASSUME TelemetryInv, [TelemetryNext]_telemetryVars
      PROVE  [Poll /\ pollerConnected =>
               asked' = IF idx = 0 THEN 0 ELSE (asked + 1) % NumSources]_telemetryVars
  <2> SUFFICES ASSUME Poll, pollerConnected
               PROVE  asked' = IF idx = 0 THEN 0 ELSE (asked + 1) % NumSources
    OBVIOUS
  <2>1. idx \in Nat
    BY <1>1, TelemetryAssumption DEF TelemetryInv, TelemetryTypeOK
  <2>2. CASE NumSources = 0
    <3>1. idx = 0 /\ asked = 0
      BY <1>1, <2>1, <2>2 DEF TelemetryInv, AskedInTurn, TelemetryTypeOK
    <3> QED BY <3>1, <2>2 DEF Poll
  <2>3. CASE NumSources > 0 /\ idx = 0
    <3>1. NumSources \in Nat \ {0} /\ asked' = 0 % NumSources
      BY <1>1, <2>3, NextSource, TelemetryAssumption
    <3> QED BY <3>1, <2>3, SmallRemainder
  <2>4. CASE NumSources > 0 /\ idx > 0
    <3>1. /\ NumSources \in Nat \ {0}
          /\ asked' = idx % NumSources
          /\ asked = (idx - 1) % NumSources
      BY <1>1, <2>4, NextSource, TelemetryAssumption DEF TelemetryInv, AskedInTurn
    <3>2. idx - 1 \in Int /\ 1 \in Int /\ (idx - 1) + 1 = idx
      BY <2>1
    <3>3. (((idx - 1) % NumSources) + 1) % NumSources = ((idx - 1) + 1) % NumSources
      BY <3>1, <3>2, ReducedSum
    <3> QED BY <3>1, <3>2, <3>3, <2>4
  <2> QED BY <2>1, <2>2, <2>3, <2>4, TelemetryAssumption
<1> QED BY <1>1, TelemetryInvHolds, PTL DEF TelemetrySpec, SourcesInTurn

-----------------------------------------------------------------------------
(* The distance sensor.                                                    *)
(*                                                                         *)
(* An int is kept by Signed whatever multiple of IntSize was added; half of*)
(* LongSize is such a multiple, so that half of a difference that wrapped  *)
(* around comes out as half of the difference.                             *)

\* Half of IntSize: an int is at least -HalfInt and less than HalfInt.
HalfInt == IntSize \div 2

LEMMA HalfIntType ==
  HalfInt \in Nat \ {0} /\ IntSize = 2 * HalfInt /\ IntSize \in Nat \ {0}
BY UltraSonicAssumption DEF HalfInt

\* The range of an int.
Ints == -HalfInt .. HalfInt - 1

LEMMA SignedRange ==
  ASSUME NEW n \in Int
  PROVE  Signed(n) \in Ints
<1> DEFINE w == n % IntSize
<1>1. w \in 0 .. IntSize - 1
  BY HalfIntType, DivRange
<1> HIDE DEF w
<1>2. (IF 2 * w < IntSize THEN w ELSE w - IntSize) \in Ints
  BY <1>1, HalfIntType DEF Ints
<1> QED BY <1>2 DEF Signed, w

\* An int is kept as it is.
LEMMA SignedKeeps ==
  ASSUME NEW n \in Int, n \in Ints, NEW k \in Int
  PROVE  Signed(n + IntSize * k) = n
<1>0. n >= -HalfInt /\ n < HalfInt
  BY HalfIntType DEF Ints
<1>1. CASE n >= 0
  <2>1. n \in 0 .. IntSize - 1
    BY <1>0, <1>1, HalfIntType
  <2>2. n % IntSize = n
    BY <2>1, HalfIntType, SmallRemainder
  <2>3. (n + IntSize * k) % IntSize = n
    BY <2>2, HalfIntType, AddMultiple
  <2> QED BY <2>3, <1>0, <1>1, HalfIntType DEF Signed
<1>2. CASE n < 0
  <2>1. n + IntSize \in 0 .. IntSize - 1 /\ n + IntSize \in Int /\ k - 1 \in Int
    BY <1>0, <1>2, HalfIntType
  <2>2. (n + IntSize) % IntSize = n + IntSize
    BY <2>1, HalfIntType, SmallRemainder
  <2>3. ((n + IntSize) + IntSize * (k - 1)) % IntSize = n + IntSize
    BY <2>1, <2>2, HalfIntType, AddMultiple
  <2>4. (n + IntSize) + IntSize * (k - 1) = n + IntSize * k
    BY HalfIntType
  <2>5. (n + IntSize * k) % IntSize = n + IntSize
    BY <2>3, <2>4
  <2> QED BY <2>5, <1>0, <1>2, HalfIntType DEF Signed
<1> QED BY <1>1, <1>2

\* LongSize is a multiple of twice IntSize.
LEMMA LongMultiple ==
  \E k \in Nat \ {0} : LongSize = 2 * IntSize * k
<1>1. LongSize \in Nat \ {0} /\ 2 * IntSize \in Nat \ {0} /\ LongSize % (2 * IntSize) = 0
  BY UltraSonicAssumption
<1> DEFINE k == LongSize \div (2 * IntSize)
<1>2. k \in Int /\ LongSize = (2 * IntSize) * k + (LongSize % (2 * IntSize))
  <2>1. LongSize \in Int
    BY <1>1
  <2> QED BY <1>1, <2>1, DivRange
<1> HIDE DEF k
<1>3. LongSize = (2 * IntSize) * k
  BY <1>1, <1>2
<1>4. k > 0
  <2> SUFFICES ASSUME k <= 0 PROVE FALSE
    BY <1>2
  <2>1. CASE k = 0
    BY <2>1, <1>1, <1>3
  <2>2. CASE -k > 0
    <3>1. (2 * IntSize) * (-k) >= 2 * IntSize
      <4>1. -k \in Int
        BY <1>2
      <4> QED BY <4>1, <2>2, <1>1, Multiple
    <3>2. (2 * IntSize) * (-k) = -((2 * IntSize) * k)
      BY <1>1, <1>2
    <3> QED BY <3>1, <3>2, <1>1, <1>3
  <2> QED BY <2>1, <2>2, <1>2
<1> QED BY <1>2, <1>3, <1>4, UltraSonicAssumption

\* The middle of two ints lies between them.
LEMMA HalfApproaches ==
  ASSUME NEW m \in Int, NEW d \in Int
  PROVE  NextDistance(m, d) \in Int /\ Between(NextDistance(m, d), d, m)
BY DEF NextDistance, Half, Between

\* A delay that has not wrapped around moves towards the time.
LEMMA DelayApproaches ==
  ASSUME NEW t \in Nat, t < HalfInt, NEW d \in Ints
  PROVE  Between(NextDelay(t, d), d, t)
<1>0. d \in Int /\ d >= -HalfInt /\ d < HalfInt
  BY HalfIntType DEF Ints
<1> DEFINE half == (t - d) \div 2
<1>1. half \in Int /\ d + half \in Int /\ Between(d + half, d, t)
  BY <1>0 DEF Between
<1>2. d + half \in Ints
  BY <1>0, <1>1, HalfIntType DEF Between, Ints
<1> HIDE DEF half
<1>3. PICK k \in Nat \ {0} : LongSize = 2 * IntSize * k
  BY LongMultiple
<1>4. 2 * IntSize * k >= 2 * IntSize
  BY HalfIntType, <1>3
<1>5. CASE t >= d
  <2>1. t - d \in 0 .. LongSize - 1
    BY <1>0, <1>3, <1>4, <1>5, HalfIntType
  <2>2. Unsigned(t - d) = t - d
    BY <2>1, UltraSonicAssumption, SmallRemainder DEF Unsigned
  <2>3. NextDelay(t, d) = Signed((d + half) + IntSize * 0)
    BY <2>2, <1>1, HalfIntType DEF NextDelay, half
  <2>4. Signed((d + half) + IntSize * 0) = d + half
    BY <1>1, <1>2, SignedKeeps
  <2> QED BY <2>3, <2>4, <1>1
<1>6. CASE t < d
  <2>1. (t - d) + LongSize \in 0 .. LongSize - 1
    BY <1>0, <1>3, <1>4, <1>6, HalfIntType
  <2>2. ((t - d) + LongSize) % LongSize = (t - d) + LongSize
    BY <2>1, UltraSonicAssumption, SmallRemainder
  <2>3. ((t - d) + LongSize * 1) % LongSize = (t - d) % LongSize
    <3>1. t - d \in Int /\ LongSize \in Nat \ {0} /\ 1 \in Int
      BY <1>0, UltraSonicAssumption
    <3> QED BY <3>1, AddMultiple
  <2>4. Unsigned(t - d) = (t - d) + LongSize
    BY <2>2, <2>3, UltraSonicAssumption DEF Unsigned
  <2>5. ((t - d) + LongSize) \div 2 = half + IntSize * k
    <3> DEFINE j == IntSize * k
    <3>1. j \in Int /\ LongSize = 2 * j
      BY <1>3, HalfIntType
    <3> HIDE DEF j
    <3>2. ((t - d) + 2 * j) \div 2 = ((t - d) \div 2) + j
      BY <3>1, <1>0
    <3> QED BY <3>1, <3>2 DEF half, j
  <2>6. NextDelay(t, d) = Signed((d + half) + IntSize * k)
    <3>1. d + (half + IntSize * k) = (d + half) + IntSize * k
      BY <1>0, <1>1, <1>3, HalfIntType
    <3> QED BY <3>1, <2>4, <2>5 DEF NextDelay
  <2>7. Signed((d + half) + IntSize * k) = d + half
    BY <1>1, <1>2, <1>3, SignedKeeps
  <2> QED BY <2>6, <2>7, <1>1
<1> QED BY <1>0, <1>5, <1>6

LEMMA UltraSonicStep ==
  ASSUME UltraSonicTypeOK, [UltraSonicNext]_ultraSonicVars
  PROVE  UltraSonicTypeOK'
<1>0. /\ Ints = -(IntSize \div 2) .. IntSize \div 2 - 1
      /\ mm \in Ints /\ distance \in Ints /\ delay \in Ints
      /\ delta \in Nat
      /\ mm \in Int /\ distance \in Int /\ delay \in Int
  BY HalfIntType, UltraSonicAssumption DEF UltraSonicTypeOK, Ints, HalfInt
<1>1. CASE OnEcho
  BY <1>1 DEF OnEcho, UltraSonicTypeOK
<1>2. CASE ReadMillimeters
  <2>1. Millimeters(delta) \in Int
    BY <1>0 DEF Millimeters
  <2>2. mm' \in Ints
    BY <2>1, <1>2, SignedRange DEF ReadMillimeters
  <2> QED BY <2>2, <1>0, <1>2 DEF ReadMillimeters, UltraSonicTypeOK
<1>3. CASE Average
  <2>1. NextDistance(mm, distance) \in Ints
    <3> DEFINE next == NextDistance(mm, distance)
    <3>1. next \in Int /\ Between(next, distance, mm)
      BY <1>0, HalfApproaches
    <3> HIDE DEF next
    <3>2. next \in Ints
      BY <3>1, <1>0, HalfIntType DEF Between, Ints
    <3> QED BY <3>2 DEF next
  <2>2. NextDelay(delta, delay) \in Ints
    <3>1. delta - delay \in Int /\ LongSize \in Nat \ {0}
      BY <1>0, UltraSonicAssumption
    <3>2. (delta - delay) % LongSize \in 0 .. LongSize - 1
      BY <3>1, DivRange
    <3>3. delay + ((delta - delay) % LongSize) \div 2 \in Int
      BY <3>1, <3>2, <1>0
    <3> QED BY <3>3, SignedRange DEF NextDelay, Unsigned
  <2> QED BY <2>1, <2>2, <1>0, <1>3 DEF Average, UltraSonicTypeOK
<1>4. CASE Trigger
  BY <1>4 DEF Trigger, UltraSonicTypeOK
<1>5. CASE UNCHANGED ultraSonicVars
  BY <1>5 DEF ultraSonicVars, UltraSonicTypeOK
<1> QED BY <1>1, <1>2, <1>3, <1>4, <1>5 DEF UltraSonicNext

LEMMA UltraSonicStarts == UltraSonicInit => UltraSonicTypeOK
<1>1. 0 \in Ints /\ Ints = -(IntSize \div 2) .. IntSize \div 2 - 1
  BY HalfIntType DEF Ints, HalfInt
<1> QED BY <1>1 DEF UltraSonicInit, UltraSonicTypeOK

LEMMA UltraSonicTypes == UltraSonicSpec => []UltraSonicTypeOK
BY UltraSonicStarts, UltraSonicStep, PTL DEF UltraSonicSpec

\* The averages of UltraSonic.cpp move towards what was read and never past it, for
\* any word sizes with uint64_t a multiple of twice int32_t and any echo between the
\* two reads: the difference may wrap around, be halved and cut, and is right.
THEOREM AveragesMoveTowards == UltraSonicSpec => AveragesApproach
<1>1. ASSUME UltraSonicTypeOK
      PROVE  [Average /\ Plausible(mm) =>
               /\ Between(distance', distance, mm)
               /\ delta < IntSize \div 2 => Between(delay', delay, delta)]_ultraSonicVars
  <2> SUFFICES ASSUME Average, Plausible(mm)
               PROVE  /\ Between(distance', distance, mm)
                      /\ delta < IntSize \div 2 => Between(delay', delay, delta)
    OBVIOUS
  <2>1. delta \in Nat /\ mm \in Int /\ distance \in Int /\ delay \in Ints
    BY <1>1, HalfIntType, UltraSonicAssumption DEF UltraSonicTypeOK, Ints, HalfInt
  <2>2. distance' = NextDistance(mm, distance) /\ delay' = NextDelay(delta, delay)
    BY DEF Average
  <2>3. Between(distance', distance, mm)
    BY <2>1, <2>2, HalfApproaches
  <2>4. delta < HalfInt => Between(delay', delay, delta)
    BY <2>1, <2>2, DelayApproaches
  <2> QED BY <2>3, <2>4 DEF HalfInt
<1> QED BY <1>1, UltraSonicTypes, PTL DEF UltraSonicSpec, AveragesApproach

-----------------------------------------------------------------------------
(* All of the firmware: each part takes its own steps, which leave the     *)
(* variables of the others alone, so that each part's specification holds  *)
(* of the whole.                                                           *)

\* The types of all parts, and what their steps need of the others' invariants.
FirmwareInv ==
  /\ SemaTypeOK /\ SerialTypes /\ Activity /\ UdpTypes
  /\ UltraSonicTypeOK /\ TelemetryInv

LEMMA FirmwareStart == MCInit => FirmwareInv
<1> SUFFICES ASSUME MCInit PROVE FirmwareInv
  OBVIOUS
<1>1. SemaInit /\ SerialLinkInit /\ UdpLinkInit /\ UltraSonicInit /\ TelemetryInit
  BY DEF MCInit
<1> QED
  BY <1>1, SemaInitType, SerialTypesInit, UdpTypesStart, ActivityStart,
     UltraSonicStarts, TelemetryStarts
  DEF FirmwareInv

LEMMA FirmwareStep == FirmwareInv /\ [MCNext]_firmwareVars => FirmwareInv'
<1> SUFFICES ASSUME FirmwareInv, [MCNext]_firmwareVars PROVE FirmwareInv'
  OBVIOUS
<1>1. /\ [SemaNext]_semaVars /\ [SerialLinkNext]_serialLinkVars
      /\ [UdpLinkNext]_udpLinkVars
      /\ [UltraSonicNext]_ultraSonicVars /\ [TelemetryNext]_telemetryVars
  BY DEF MCNext, firmwareVars
<1>2. SemaTypeOK'
  BY <1>1, SemaTypeStep DEF FirmwareInv
<1>3. SerialTypes'
  BY <1>1, SerialTypesStep DEF FirmwareInv
<1>4. Activity'
  BY <1>1, ActivityStep DEF FirmwareInv
<1>5. UdpTypes'
  BY <1>1, <1>4, UdpTypesStep DEF FirmwareInv
<1>6. UltraSonicTypeOK'
  BY <1>1, UltraSonicStep DEF FirmwareInv
<1>7. TelemetryInv'
  <2>1. TelemetryInv /\ [TelemetryNext]_telemetryVars
    BY <1>1 DEF FirmwareInv
  <2> QED BY <2>1, TelemetryStep
<1> QED BY <1>2, <1>3, <1>4, <1>5, <1>6, <1>7 DEF FirmwareInv

\* Every variable of the firmware keeps its type, and its queues, sockets and counters
\* their bounds: Sema.cpp, SerialFrame.cpp, Wifi.cpp, UdpFrame.cpp, UltraSonic.cpp,
\* Poller.h and main.cpp together.
THEOREM FirmwareTypes == MCSpec => []FirmwareTypeOK
<1>1. FirmwareInv => FirmwareTypeOK
  BY TypesOfSerial DEF FirmwareInv, UdpTypes, TelemetryInv, FirmwareTypeOK
<1> QED BY <1>1, FirmwareStart, FirmwareStep, PTL DEF MCSpec
=============================================================================
