--------------------------- MODULE LevelZeroProofs ---------------------------
(***************************************************************************)
(* Proofs about the Level Zero device API model, for every platform,      *)
(* every bound on the calls and every set of failing driver calls.        *)
(***************************************************************************)
EXTENDS LevelZeroApi, WellFoundedInduction, TLAPS

\* Neither zeDeviceGet's second call nor zeDeviceGetProperties fails: the
\* two failures the runs NullDevice and TransientProps show to break init.
ReliableDeviceQueries ==
    "props" \notin Faults /\ "deviceGetList" \notin Faults

\* Each call creates at most one device array and one context.
CallCounts == arrays <= calls /\ contexts <= calls

\* Until initLevelZero succeeded, the caller has no device selected and no
\* device resources.
UninitEmpty ==
    ~initialized => selected = -1 /\ mem = {} /\ queues = {} /\ pools = {}

LZTypeInv == TypeOK /\ CallCounts /\ UninitEmpty

LZInv == LZTypeInv /\ InitializedUsable /\ ResourcesInContext
-----------------------------------------------------------------------------
USE PlatformAssumption, FaultsAssumption, MaxCallsAssumption, NullAssumption

\* The drivers are numbered 1 .. Len(Platform).
LEMMA DriversInterval == Drivers = 1 .. Len(Platform)
BY DEF Drivers

\* Subtraction from n reverses the order of 1 .. n.
LEMMA SubtractReverses ==
    ASSUME NEW n \in Nat, NEW i \in 1 .. n, NEW j \in 1 .. n, ~(n - j < n - i)
    PROVE  j <= i
OBVIOUS

\* A non-empty set of driver numbers has a largest element.
LEMMA MaxOfNatSubset ==
    ASSUME NEW n \in Nat, NEW S \in SUBSET (1 .. n), S # {}
    PROVE  \E i \in S : \A j \in S : j <= i
<1> DEFINE T == {n - s : s \in S}
<1>1. T \subseteq Nat /\ T # {}
  <2>1. \A s \in S : n - s \in Nat
    OBVIOUS
  <2>2. QED
    BY <2>1 DEF T
<1>2. \E x \in T : \A y \in T : ~(<<y, x>> \in OpToRel(<, Nat))
  BY <1>1, NatLessThanWellFounded, WFMin
<1>3. PICK x \in T : \A y \in T : ~(y < x)
  BY <1>1, <1>2 DEF OpToRel
<1>4. PICK i \in S : x = n - i
  BY <1>3 DEF T
<1>5. ASSUME NEW j \in S PROVE j <= i
  <2>1. n - j \in T
    BY DEF T
  <2>2. ~(n - j < n - i)
    BY <1>3, <1>4, <2>1
  <2>3. i \in 1 .. n /\ j \in 1 .. n
    OBVIOUS
  <2>4. QED
    BY <2>2, <2>3, SubtractReverses, Zenon
<1>6. QED
  BY <1>5

\* The driver initLevelZero keeps is the last one its loop touched.
LEMMA TouchedDriver ==
    ASSUME NEW o \in Outcomes, Touched(o) # {}
    PROVE  LET k == CHOOSE i \in Touched(o) : \A j \in Touched(o) : j <= i
           IN  k \in Touched(o)
<1>1. Touched(o) \subseteq 1 .. Len(Platform)
  BY DriversInterval DEF Touched
<1>2. Len(Platform) \in Nat
  OBVIOUS
<1>3. \E i \in Touched(o) : \A j \in Touched(o) : j <= i
  BY <1>1, <1>2, MaxOfNatSubset, Zenon
<1>4. QED
  BY <1>3

\* What remove_if and the copy return: a sequence of the kept elements,
\* non-empty when some element is kept.
LEMMA RemoveIfFacts ==
    ASSUME NEW all, NEW Kept, NEW s \in RemoveIf(all, Kept)
    PROVE  /\ s \in Seq({all[j] : j \in Kept})
           /\ Kept # {} => Len(s) > 0
<1>1. PICK m \in 0 .. Len(all) :
          \E f \in Enumerations(Kept, m) : s = [n \in 1 .. m |-> all[f[n]]]
  BY DEF RemoveIf
<1>2. PICK f \in Enumerations(Kept, m) : s = [n \in 1 .. m |-> all[f[n]]]
  BY <1>1
<1>3. f \in [1 .. m -> Kept] /\ \A j \in Kept : \E n \in 1 .. m : f[n] = j
  BY <1>2 DEF Enumerations
<1>4. m \in Nat
  OBVIOUS
<1>5. s \in [1 .. m -> {all[j] : j \in Kept}]
  BY <1>2, <1>3
<1>6. Len(s) = m
  BY <1>2, <1>4
<1>7. QED
  BY <1>3, <1>4, <1>5, <1>6

\* The devices of driver k, as initLevelZero's loop left them.
KHandles(k) == {<<k, j>> : j \in DOMAIN Platform[k]}

\* What the all_of check, the filter and zeContextCreate do, for the
\* driver k the loop kept.
LEMMA InitFromDevicesEffect ==
    ASSUME NEW o \in Outcomes, NEW k \in Touched(o), NEW res,
           InitFromDevices(AllDevices(o, k), res)
    PROVE  /\ \/ /\ res = "UNINIT"
                 /\ UNCHANGED <<initialized, g_devices, g_context, arrays,
                                contexts>>
              \/ /\ g_devices' \in Seq(Handles \cup {Null})
                 /\ arrays' = arrays + 1
                 /\ \/ /\ res = "SUCCESS" /\ initialized' = TRUE
                       /\ contexts' = contexts + 1
                       /\ g_context' = contexts + 1
                    \/ /\ res = "ERROR"
                       /\ UNCHANGED <<initialized, g_context, contexts>>
           /\ ReliableDeviceQueries /\ res = "SUCCESS" =>
                 /\ Len(g_devices') > 0
                 /\ \A j \in DOMAIN g_devices' : g_devices'[j] \in KHandles(k)
<1> DEFINE all == AllDevices(o, k)
<1>1. k \in Drivers /\ o[k] \in {"fail2", "ok"} /\ o[k] \in DriverOutcomes(k)
  BY DEF Touched, Outcomes
<1>2. DOMAIN Platform[k] = 1 .. Len(Platform[k])
  BY <1>1 DEF Drivers
<1>3. all \in [DOMAIN Platform[k] -> KHandles(k) \cup {Null}]
  BY <1>1 DEF AllDevices, KHandles
<1>4. KHandles(k) \subseteq Handles
  BY <1>1 DEF KHandles, Handles
<1>5. PICK pf1, pf2 \in PropsFailures(all) :
          IF \A j \in DOMAIN all : IsIgpu(all[j], pf1)
            THEN /\ res = "UNINIT"
                 /\ UNCHANGED <<initialized, g_devices, g_context, arrays,
                                contexts>>
            ELSE /\ g_devices' \in
                      RemoveIf(all, {j \in DOMAIN all : ~IsIgpu(all[j], pf2)})
                 /\ arrays' = arrays + 1
                 /\ \/ /\ contexts' = contexts + 1
                       /\ g_context' = contexts + 1
                       /\ initialized' = TRUE
                       /\ res = "SUCCESS"
                    \/ /\ "context" \in Faults
                       /\ res = "ERROR"
                       /\ UNCHANGED <<initialized, g_context, contexts>>
  BY DEF InitFromDevices, all
<1>6. CASE \A j \in DOMAIN all : IsIgpu(all[j], pf1)
  BY <1>5, <1>6
<1>7. CASE ~\A j \in DOMAIN all : IsIgpu(all[j], pf1)
  <2> DEFINE Kept == {j \in DOMAIN all : ~IsIgpu(all[j], pf2)}
  <2>1. g_devices' \in RemoveIf(all, Kept)
    BY <1>5, <1>7 DEF Kept
  <2>2. g_devices' \in Seq({all[j] : j \in Kept}) /\ (Kept # {} => Len(g_devices') > 0)
    BY <2>1, RemoveIfFacts
  <2>3. {all[j] : j \in Kept} \subseteq KHandles(k) \cup {Null}
    BY <1>3 DEF Kept
  <2>4. g_devices' \in Seq(Handles \cup {Null})
    BY <2>2, <2>3, <1>4
  <2>5. ASSUME ReliableDeviceQueries, res = "SUCCESS"
        PROVE  /\ Len(g_devices') > 0
               /\ \A j \in DOMAIN g_devices' : g_devices'[j] \in KHandles(k)
    <3>1. pf1 = {} /\ pf2 = {}
      BY <2>5 DEF ReliableDeviceQueries, PropsFailures
    <3>2. Kept # {}
      BY <1>7, <3>1 DEF Kept
    <3>3. o[k] = "ok"
      BY <1>1, <2>5 DEF ReliableDeviceQueries, DriverOutcomes
    <3>4. {all[j] : j \in Kept} \subseteq KHandles(k)
      BY <3>3 DEF Kept, AllDevices, KHandles
    <3>5. QED
      BY <2>2, <3>2, <3>4
  <2>6. QED
    BY <1>5, <1>7, <2>4, <2>5
<1>8. QED
  BY <1>6, <1>7

\* What one initLevelZero does to the globals: they change only while the
\* flag is unset, and the flag ends up set exactly when it reports success.
LEMMA InitLevelZeroEffect ==
    ASSUME initialized \in BOOLEAN, NEW res, InitLevelZero(res)
    PROVE  /\ initialized' = (res = "SUCCESS")
           /\ initialized => UNCHANGED lzVars
           /\ \/ UNCHANGED lzVars
              \/ /\ g_driver' \in Drivers
                 /\ UNCHANGED <<initialized, g_devices, g_context, arrays,
                                contexts>>
              \/ /\ g_driver' \in Drivers
                 /\ g_devices' \in Seq(Handles \cup {Null})
                 /\ arrays' = arrays + 1
                 /\ contexts' \in {contexts, contexts + 1}
                 /\ g_context' \in {g_context, contexts + 1}
           /\ ~initialized /\ res = "SUCCESS" =>
                 /\ contexts' = contexts + 1
                 /\ g_context' = contexts + 1
           /\ ReliableDeviceQueries /\ res = "SUCCESS" /\ ~initialized =>
                 /\ Len(g_devices') > 0
                 /\ \A j \in DOMAIN g_devices' : g_devices'[j] \in KHandles(g_driver')
<1>1. CASE initialized
  BY <1>1 DEF InitLevelZero, lzVars
<1>2. CASE ~initialized
  <2>1. DiscoverDevices(res)
    BY <1>2 DEF InitLevelZero
  <2>2. CASE /\ "initDrivers" \in Faults \/ Platform = <<>>
             /\ res \in {"UNINIT", "ERROR"}
             /\ UNCHANGED lzVars
    BY <1>2, <2>2 DEF lzVars
  <2>3. CASE \E o \in Outcomes :
                IF Touched(o) = {}
                  THEN res = "UNINIT" /\ UNCHANGED lzVars
                  ELSE LET k == CHOOSE i \in Touched(o) :
                                    \A j \in Touched(o) : j <= i
                       IN  /\ g_driver' = k
                           /\ InitFromDevices(AllDevices(o, k), res)
    <3>1. PICK o \in Outcomes :
                IF Touched(o) = {}
                  THEN res = "UNINIT" /\ UNCHANGED lzVars
                  ELSE LET k == CHOOSE i \in Touched(o) :
                                    \A j \in Touched(o) : j <= i
                       IN  /\ g_driver' = k
                           /\ InitFromDevices(AllDevices(o, k), res)
      BY <2>3
    <3>2. CASE Touched(o) = {}
      BY <1>2, <3>1, <3>2 DEF lzVars
    <3>3. CASE Touched(o) # {}
      <4> DEFINE k == CHOOSE i \in Touched(o) : \A j \in Touched(o) : j <= i
      <4>1. k \in Touched(o)
        BY <3>3, TouchedDriver
      <4>2. g_driver' = k /\ InitFromDevices(AllDevices(o, k), res)
        BY <3>1, <3>3
      <4>3. k \in Drivers
        BY <4>1 DEF Touched
      <4>4. \/ /\ res = "UNINIT"
               /\ UNCHANGED <<initialized, g_devices, g_context, arrays,
                              contexts>>
            \/ /\ g_devices' \in Seq(Handles \cup {Null})
               /\ arrays' = arrays + 1
               /\ \/ /\ res = "SUCCESS" /\ initialized' = TRUE
                     /\ contexts' = contexts + 1
                     /\ g_context' = contexts + 1
                  \/ /\ res = "ERROR"
                     /\ UNCHANGED <<initialized, g_context, contexts>>
        BY <4>1, <4>2, InitFromDevicesEffect
      <4>5. ReliableDeviceQueries /\ res = "SUCCESS" =>
               /\ Len(g_devices') > 0
               /\ \A j \in DOMAIN g_devices' : g_devices'[j] \in KHandles(k)
        BY <4>1, <4>2, InitFromDevicesEffect
      <4>6. QED
        BY <1>2, <4>2, <4>3, <4>4, <4>5 DEF lzVars
    <3>4. QED
      BY <3>2, <3>3
  <2>4. QED
    BY <2>1, <2>2, <2>3 DEF DiscoverDevices
<1>3. QED
  BY <1>1, <1>2

\* The globals keep their types and the counts stay within the calls made
\* when a call runs initLevelZero.
LEMMA CallLzType ==
    ASSUME LZTypeInv, calls < MaxCalls, calls' = calls + 1,
           NEW res, InitLevelZero(res)
    PROVE  /\ initialized' \in BOOLEAN
           /\ g_driver' \in {0} \cup Drivers
           /\ g_devices' \in Seq(Handles \cup {Null})
           /\ g_context' \in {NoContext} \cup (1 .. MaxCalls)
           /\ arrays' \in 0 .. MaxCalls
           /\ contexts' \in 0 .. MaxCalls
           /\ calls' \in 0 .. MaxCalls
           /\ CallCounts'
           /\ initialized' = (res = "SUCCESS")
           /\ initialized => UNCHANGED lzVars
<1>1. initialized \in BOOLEAN
  BY DEF LZTypeInv, TypeOK
<1>2. /\ initialized' = (res = "SUCCESS")
      /\ initialized => UNCHANGED lzVars
      /\ \/ UNCHANGED lzVars
         \/ /\ g_driver' \in Drivers
            /\ UNCHANGED <<initialized, g_devices, g_context, arrays,
                           contexts>>
         \/ /\ g_driver' \in Drivers
            /\ g_devices' \in Seq(Handles \cup {Null})
            /\ arrays' = arrays + 1
            /\ contexts' \in {contexts, contexts + 1}
            /\ g_context' \in {g_context, contexts + 1}
  BY <1>1, InitLevelZeroEffect
<1> USE DEF LZTypeInv, TypeOK, CallCounts
<1>3. CASE UNCHANGED lzVars
  BY <1>2, <1>3 DEF lzVars
<1>4. CASE /\ g_driver' \in Drivers
           /\ UNCHANGED <<initialized, g_devices, g_context, arrays, contexts>>
  BY <1>2, <1>4 DEF lzVars
<1>5. CASE /\ g_driver' \in Drivers
           /\ g_devices' \in Seq(Handles \cup {Null})
           /\ arrays' = arrays + 1
           /\ contexts' \in {contexts, contexts + 1}
           /\ g_context' \in {g_context, contexts + 1}
  <2>1. initialized' \in BOOLEAN
    BY <1>2
  <2>2. g_context' \in {NoContext} \cup (1 .. MaxCalls)
    BY <1>5
  <2>3. /\ arrays' \in 0 .. MaxCalls /\ contexts' \in 0 .. MaxCalls
        /\ calls' \in 0 .. MaxCalls /\ CallCounts'
    BY <1>5
  <2>4. initialized => UNCHANGED lzVars
    BY <1>2
  <2>5. QED
    BY <1>2, <1>5, <2>1, <2>2, <2>3, <2>4
<1>6. QED
  BY <1>2, <1>3, <1>4, <1>5

\* g_devices[0] as a call reads it is a handle or nullptr.
LEMMA Device0Type ==
    ASSUME g_devices' \in Seq(Handles \cup {Null})
    PROVE  Device0 \in Handles \cup {Null}
BY DEF Device0

\* A call whose body only runs after a successful initLevelZero keeps the
\* types: a failed call changes nothing the caller sees, and a successful
\* one leaves the flag set.
LEMMA CallAppType ==
    ASSUME LZTypeInv, calls < MaxCalls, calls' = calls + 1,
           NEW res, InitLevelZero(res),
           res # "SUCCESS" => UNCHANGED appVars,
           res = "SUCCESS" =>
              /\ selected' \in {selected} \cup (0 .. Len(g_devices') - 1)
              /\ \A a \in mem' : a.id \in Ids /\ a.dev \in Handles \cup {Null}
              /\ \A x \in queues' \cup pools' : x.id \in Ids
              /\ \A e \in events' : e.id \in Ids /\ e.pool \in Ids
              /\ recorded' = recorded
    PROVE  LZTypeInv'
<1>1. /\ initialized' \in BOOLEAN
      /\ g_driver' \in {0} \cup Drivers
      /\ g_devices' \in Seq(Handles \cup {Null})
      /\ g_context' \in {NoContext} \cup (1 .. MaxCalls)
      /\ arrays' \in 0 .. MaxCalls
      /\ contexts' \in 0 .. MaxCalls
      /\ calls' \in 0 .. MaxCalls
      /\ CallCounts'
      /\ initialized' = (res = "SUCCESS")
      /\ initialized => UNCHANGED lzVars
  BY CallLzType
<1> USE DEF LZTypeInv, TypeOK, UninitEmpty
<1>2. CASE res = "SUCCESS"
  <2>1. selected' \in {-1} \cup (0 .. Len(g_devices') - 1)
    <3>1. CASE initialized
      BY <1>1, <1>2, <3>1 DEF lzVars
    <3>2. CASE ~initialized
      BY <1>1, <1>2, <3>2
    <3>3. QED
      BY <3>1, <3>2
  <2>2. QED
    BY <1>1, <1>2, <2>1
<1>3. CASE res # "SUCCESS"
  <2>1. ~initialized /\ ~initialized'
    BY <1>1, <1>3 DEF lzVars
  <2>2. selected' = -1 /\ mem' = {} /\ queues' = {} /\ pools' = {}
    BY <1>3, <2>1 DEF appVars
  <2>3. events' = events /\ recorded' = recorded
    BY <1>3 DEF appVars
  <2>4. QED
    BY <1>1, <2>1, <2>2, <2>3
<1>4. QED
  BY <1>2, <1>3

\* Type correctness of the Level Zero model, under every failure.
LEMMA NextLZTypeInv == LZTypeInv /\ [Next]_vars => LZTypeInv'
<1> SUFFICES ASSUME LZTypeInv, [Next]_vars PROVE LZTypeInv'
  OBVIOUS
<1> USE DEF LZTypeInv, TypeOK, CallCounts, UninitEmpty, Ids
<1>1. ASSUME NEW d \in 0 .. 2, SetDevice(d) PROVE LZTypeInv'
  <2>1. PICK res \in Results :
            /\ calls < MaxCalls /\ calls' = calls + 1
            /\ InitLevelZero(res)
            /\ IF res = "SUCCESS"
                 THEN /\ selected' = IF d < Len(g_devices') THEN d ELSE selected
                      /\ UNCHANGED <<mem, queues, pools, events, recorded>>
                 ELSE UNCHANGED appVars
    BY <1>1 DEF SetDevice, Call
  <2>2. QED
    BY <2>1, CallAppType, SMTT(30) DEF appVars
<1>2. CASE QueryDevice
  <2>1. PICK res \in Results :
            /\ calls < MaxCalls /\ calls' = calls + 1
            /\ InitLevelZero(res)
            /\ UNCHANGED appVars
    BY <1>2 DEF QueryDevice, Call
  <2>2. QED
    BY <2>1, CallAppType DEF appVars
<1>3. CASE StreamCreate
  <2>1. PICK res \in Results :
            /\ calls < MaxCalls /\ calls' = calls + 1
            /\ InitLevelZero(res)
            /\ \/ /\ res = "SUCCESS"
                  /\ queues' \in {queues, queues \cup
                         {[id |-> calls, dev |-> Device0, ctx |-> g_context']}}
                  /\ UNCHANGED <<selected, mem, pools, events, recorded>>
               \/ UNCHANGED appVars
    BY <1>3 DEF StreamCreate, Call, appVars
  <2>2. Device0 \in Handles \cup {Null}
    BY <2>1, CallLzType, Device0Type
  <2>3. QED
    BY <2>1, <2>2, CallAppType, SMTT(30) DEF appVars
<1>4. ASSUME NEW size \in {0, 1}, Malloc(size) PROVE LZTypeInv'
  <2>1. PICK res \in Results :
            /\ calls < MaxCalls /\ calls' = calls + 1
            /\ InitLevelZero(res)
            /\ \/ /\ res = "SUCCESS"
                  /\ mem' \in {mem, mem \cup
                         {[id |-> calls, dev |-> Device0, ctx |-> g_context']}}
                  /\ UNCHANGED <<selected, queues, pools, events, recorded>>
               \/ UNCHANGED appVars
    BY <1>4 DEF Malloc, Call, appVars
  <2>2. Device0 \in Handles \cup {Null}
    BY <2>1, CallLzType, Device0Type
  <2>3. QED
    BY <2>1, <2>2, CallAppType DEF appVars
<1>5. CASE EventCreate \/ \E flags \in {0, 1} : EventCreateWithFlags(flags)
  <2>1. PICK res \in Results :
            /\ calls < MaxCalls /\ calls' = calls + 1
            /\ InitLevelZero(res)
            /\ \/ /\ res = "SUCCESS"
                  /\ pools' \in {pools, pools \cup
                         {[id |-> calls, dev |-> Device0, ctx |-> g_context']}}
                  /\ events' \in {events, events \cup {[id |-> calls, pool |-> calls]}}
                  /\ UNCHANGED <<selected, mem, queues, recorded>>
               \/ UNCHANGED appVars
    BY <1>5 DEF EventCreate, EventCreateWithFlags, CreateEventIn, Call, appVars
  <2>2. Device0 \in Handles \cup {Null}
    BY <2>1, CallLzType, Device0Type
  <2>3. QED
    BY <2>1, <2>2, CallAppType, SMTT(30) DEF appVars
<1>6. CASE \/ \E q \in queues : StreamDestroy(q)
           \/ \E a \in mem : Free(a)
           \/ \E e \in events : EventDestroy(e)
  BY <1>6 DEF StreamDestroy, Free, EventDestroy, lzVars
<1>7. CASE \E q \in queues, e \in events :
              StreamWaitEvent(q, e) \/ EventRecord(e, q)
  <2>1. PICK q \in queues, e \in events :
            StreamWaitEvent(q, e) \/ EventRecord(e, q)
    BY <1>7
  <2>2. CASE StreamWaitEvent(q, e)
    BY <2>2 DEF StreamWaitEvent, lzVars, appVars
  <2>3. CASE EventRecord(e, q)
    <3>1. /\ calls < MaxCalls /\ calls' = calls + 1
          /\ recorded' \in {recorded, recorded \cup {e.id}}
          /\ UNCHANGED <<lzVars, selected, mem, queues, pools, events>>
      BY <2>3 DEF EventRecord, Submits
    <3>2. e.id \in Ids
      OBVIOUS
    <3>3. QED
      BY <3>1, <3>2 DEF lzVars
  <2>4. QED
    BY <2>1, <2>2, <2>3
<1>8. CASE \E q \in queues, count \in {0, 1} : MemcpyAsync(q, count)
  BY <1>8 DEF MemcpyAsync, lzVars, appVars
<1>9. CASE Exhausted \/ UNCHANGED vars
  BY <1>9 DEF Exhausted, vars, lzVars, appVars
<1>10. QED
  BY <1>1, <1>2, <1>3, <1>4, <1>5, <1>6, <1>7, <1>8, <1>9, SMTT(30) DEF Next

LEMMA InitLZTypeInv == Init => LZTypeInv
<1> SUFFICES ASSUME Init PROVE LZTypeInv
  OBVIOUS
<1> USE DEF Init
<1>1. g_devices \in Seq(Handles \cup {Null}) /\ selected \in {-1} \cup (0 .. Len(g_devices) - 1)
  OBVIOUS
<1>2. initialized \in BOOLEAN /\ g_driver \in {0} \cup Drivers
  OBVIOUS
<1>4. g_context \in {NoContext} \cup (1 .. MaxCalls)
  OBVIOUS
<1>5. arrays \in 0 .. MaxCalls /\ contexts \in 0 .. MaxCalls /\ calls \in 0 .. MaxCalls
  OBVIOUS
<1>3. QED
  BY <1>1, <1>2, <1>4, <1>5 DEF LZTypeInv, TypeOK, CallCounts, UninitEmpty

(***************************************************************************)
(* Type correctness (the invariant TypeOK of the run LevelZero), for      *)
(* every platform, bound and set of failing driver calls: in particular  *)
(* the driver initLevelZero keeps is one of the platform's drivers, the   *)
(* device array holds only its handles or nullptr, and a selected device  *)
(* index stays below g_device_count.                                      *)
(***************************************************************************)
THEOREM LZTypeCorrect == Spec => []TypeOK
<1>1. Spec => []LZTypeInv
  BY InitLZTypeInv, NextLZTypeInv, PTL DEF Spec
<1>2. QED
  BY <1>1, PTL DEF LZTypeInv

-----------------------------------------------------------------------------
\* A call's initLevelZero that reports success leaves usable globals, when
\* the device queries do not fail.
LEMMA CallUsable ==
    ASSUME ReliableDeviceQueries, LZTypeInv, InitializedUsable,
           NEW res, InitLevelZero(res)
    PROVE  InitializedUsable'
<1>1. initialized \in BOOLEAN
  BY DEF LZTypeInv, TypeOK
<1>2. /\ initialized' = (res = "SUCCESS")
      /\ initialized => UNCHANGED lzVars
      /\ ~initialized /\ res = "SUCCESS" =>
            /\ contexts' = contexts + 1
            /\ g_context' = contexts + 1
      /\ res = "SUCCESS" /\ ~initialized =>
            /\ Len(g_devices') > 0
            /\ \A j \in DOMAIN g_devices' : g_devices'[j] \in KHandles(g_driver')
            /\ g_driver' \in Drivers
  <2>1. ~initialized /\ res = "SUCCESS" => g_driver' \in Drivers
    BY <1>1, InitLevelZeroEffect DEF lzVars
  <2>2. QED
    BY <1>1, <2>1, InitLevelZeroEffect
<1>3. CASE initialized
  BY <1>2, <1>3 DEF InitializedUsable, lzVars
<1>4. CASE ~initialized /\ res = "SUCCESS"
  <2>1. g_context' # NoContext
    BY <1>2, <1>4 DEF LZTypeInv, TypeOK
  <2>2. KHandles(g_driver') \subseteq Handles
    BY <1>2, <1>4 DEF KHandles, Handles
  <2>3. \A j \in DOMAIN g_devices' :
            g_devices'[j] # Null /\ g_devices'[j][1] = g_driver'
    BY <1>2, <1>4, <2>2 DEF KHandles
  <2>4. QED
    BY <1>2, <1>4, <2>1, <2>3 DEF InitializedUsable
<1>5. CASE ~initialized /\ res # "SUCCESS"
  BY <1>2, <1>5 DEF InitializedUsable
<1>6. QED
  BY <1>3, <1>4, <1>5

\* The record of a resource a call creates on g_devices[0] in g_context.
NewResource == [id |-> calls, dev |-> Device0, ctx |-> g_context']

\* A call's resources live in the context and on the devices its
\* initLevelZero left, and the resources it finds were made there too.
LEMMA CallResources ==
    ASSUME ReliableDeviceQueries, LZInv, NEW res, InitLevelZero(res),
           res # "SUCCESS" => UNCHANGED appVars,
           res = "SUCCESS" =>
              /\ mem' \subseteq mem \cup {NewResource}
              /\ queues' \subseteq queues \cup {NewResource}
              /\ pools' \subseteq pools \cup {NewResource}
    PROVE  InitializedUsable' /\ ResourcesInContext'
<1>1. InitializedUsable'
  BY CallUsable DEF LZInv
<1>2. /\ initialized \in BOOLEAN
      /\ initialized' = (res = "SUCCESS")
      /\ initialized => UNCHANGED lzVars
  BY InitLevelZeroEffect DEF LZInv, LZTypeInv, TypeOK
<1>3. CASE res = "SUCCESS"
  <2>1. Len(g_devices') > 0 /\ NewResource.ctx = g_context'
    BY <1>1, <1>2, <1>3 DEF InitializedUsable, NewResource
  <2>2. NewResource.dev \in DeviceSet'
    BY <2>1 DEF NewResource, Device0, DeviceSet
  <2>3. mem \cup queues \cup pools # {} => g_context' = g_context /\ DeviceSet' = DeviceSet
    BY <1>2 DEF LZInv, LZTypeInv, UninitEmpty, lzVars, DeviceSet
  <2>4. ASSUME NEW a \in mem' \cup queues' \cup pools'
        PROVE  a.ctx = g_context' /\ a.dev \in DeviceSet'
    <3>1. CASE a = NewResource
      BY <2>1, <2>2, <3>1
    <3>2. CASE a \in mem \cup queues \cup pools
      BY <2>3, <3>2 DEF LZInv, ResourcesInContext
    <3>3. QED
      BY <1>3, <2>4, <3>1, <3>2
  <2>5. QED
    BY <1>1, <2>4, Zenon DEF ResourcesInContext
<1>4. CASE res # "SUCCESS"
  <2>1. ~initialized
    <3>1. ~initialized'
      BY <1>2, <1>4
    <3>2. initialized => initialized'
      BY <1>2 DEF lzVars
    <3>3. QED
      BY <1>2, <3>1, <3>2
  <2>2. mem' = {} /\ queues' = {} /\ pools' = {}
    BY <1>4, <2>1 DEF LZInv, LZTypeInv, UninitEmpty, appVars
  <2>3. QED
    BY <1>1, <2>2 DEF ResourcesInContext
<1>5. QED
  BY <1>3, <1>4

LEMMA NextLZSafe ==
    ASSUME ReliableDeviceQueries, LZInv, [Next]_vars
    PROVE  InitializedUsable' /\ ResourcesInContext'
<1>1. ASSUME NEW d \in 0 .. 2, SetDevice(d)
      PROVE  InitializedUsable' /\ ResourcesInContext'
  <2>1. PICK res \in Results :
            /\ InitLevelZero(res)
            /\ IF res = "SUCCESS"
                 THEN UNCHANGED <<mem, queues, pools>>
                 ELSE UNCHANGED appVars
    BY <1>1 DEF SetDevice, Call
  <2>2. QED
    BY <2>1, CallResources
<1>2. CASE QueryDevice
  <2>1. PICK res \in Results : InitLevelZero(res) /\ UNCHANGED appVars
    BY <1>2 DEF QueryDevice, Call
  <2>2. QED
    BY <2>1, CallResources DEF appVars
<1>3. CASE StreamCreate
  <2>1. PICK res \in Results :
            /\ InitLevelZero(res)
            /\ \/ /\ res = "SUCCESS"
                  /\ queues' \subseteq queues \cup {NewResource}
                  /\ UNCHANGED <<mem, pools>>
               \/ UNCHANGED appVars
    BY <1>3 DEF StreamCreate, Call, NewResource, appVars
  <2>2. QED
    BY <2>1, CallResources DEF appVars
<1>4. ASSUME NEW size \in {0, 1}, Malloc(size)
      PROVE  InitializedUsable' /\ ResourcesInContext'
  <2>1. PICK res \in Results :
            /\ InitLevelZero(res)
            /\ \/ /\ res = "SUCCESS"
                  /\ mem' \subseteq mem \cup {NewResource}
                  /\ UNCHANGED <<queues, pools>>
               \/ UNCHANGED appVars
    BY <1>4 DEF Malloc, Call, NewResource, appVars
  <2>2. QED
    BY <2>1, CallResources DEF appVars
<1>5. CASE EventCreate \/ \E flags \in {0, 1} : EventCreateWithFlags(flags)
  <2>1. PICK res \in Results :
            /\ InitLevelZero(res)
            /\ \/ /\ res = "SUCCESS"
                  /\ pools' \subseteq pools \cup {NewResource}
                  /\ UNCHANGED <<mem, queues>>
               \/ UNCHANGED appVars
    BY <1>5 DEF EventCreate, EventCreateWithFlags, CreateEventIn, Call,
       NewResource, appVars
  <2>2. QED
    BY <2>1, CallResources DEF appVars
<1>6. CASE \/ \E q \in queues : StreamDestroy(q)
           \/ \E a \in mem : Free(a)
           \/ \E e \in events : EventDestroy(e)
           \/ \E q \in queues, e \in events :
                 StreamWaitEvent(q, e) \/ EventRecord(e, q)
           \/ \E q \in queues, count \in {0, 1} : MemcpyAsync(q, count)
           \/ Exhausted \/ UNCHANGED vars
  <2>1. /\ UNCHANGED lzVars
        /\ mem' \subseteq mem /\ queues' \subseteq queues /\ pools' \subseteq pools
    BY <1>6 DEF StreamDestroy, Free, EventDestroy, StreamWaitEvent,
       EventRecord, MemcpyAsync, Exhausted, vars, appVars
  <2>2. QED
    BY <2>1 DEF LZInv, InitializedUsable, ResourcesInContext, DeviceSet, lzVars
<1>7. QED
  BY <1>1, <1>2, <1>3, <1>4, <1>5, <1>6 DEF Next

LEMMA NextLZInv ==
    ASSUME ReliableDeviceQueries
    PROVE  LZInv /\ [Next]_vars => LZInv'
BY NextLZTypeInv, NextLZSafe DEF LZInv

(***************************************************************************)
(* Device safety (the invariants InitializedUsable and ResourcesInContext *)
(* of the run LevelZero), for every platform and bound, when neither the  *)
(* second zeDeviceGet nor zeDeviceGetProperties fails (the runs           *)
(* NullDevice and TransientProps show what each failure does): once       *)
(* initLevelZero has succeeded, g_context is a context and g_devices a    *)
(* non-empty array of real handles of g_driver, and every allocation,     *)
(* queue and event pool lives in the current context on a current device. *)
(* The flag is never cleared, so the globals a resource was made in are   *)
(* never replaced.                                                        *)
(***************************************************************************)
THEOREM DeviceSafety ==
    ASSUME ReliableDeviceQueries
    PROVE  Spec => [](InitializedUsable /\ ResourcesInContext)
<1>1. Init => LZInv
  BY InitLZTypeInv DEF Init, LZInv, InitializedUsable, ResourcesInContext
<1>2. Spec => []LZInv
  BY <1>1, NextLZInv, PTL DEF Spec
<1>3. QED
  BY <1>2, PTL DEF LZInv

(***************************************************************************)
(* Device safety, the part about resources (ResourcesInContext of the run *)
(* LevelZero): when neither the second zeDeviceGet nor                    *)
(* zeDeviceGetProperties fails, every allocation, queue and event pool    *)
(* lives in g_context on a device of g_devices.                           *)
(***************************************************************************)
THEOREM ResourcesInContextTheorem ==
    ASSUME ReliableDeviceQueries
    PROVE  Spec => []ResourcesInContext
BY DeviceSafety, PTL
=============================================================================
