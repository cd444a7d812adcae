---------------------------- MODULE LevelZeroApi ----------------------------
(***************************************************************************)
(* The Level Zero implementation of the device API (XpuApi.cpp) as one    *)
(* process sees it: the lazily initialised globals g_driver, g_devices,   *)
(* g_device_count and g_context, and the resources the API calls create   *)
(* in them (device memory, command queues, event pools and events).  Each *)
(* action is one API call, initLevelZero included; its failing driver     *)
(* calls are chosen from Faults.  Handles are pairs <<driver, index>>.    *)
(***************************************************************************)
EXTENDS Integers, Sequences, FiniteSets

CONSTANTS
    Platform,    \* Platform[i]: kinds of the devices driver i reports
    Faults,      \* driver calls that may fail
    MaxCalls,    \* bound on the number of API calls
    Null,        \* a null device handle
    NoContext    \* g_context before a context was created

DeviceKinds == {"dGPU", "iGPU"}

FaultKinds == {"initDrivers", "deviceGet", "deviceGetList", "props",
               "context", "alloc", "queue", "pool", "event", "cmdList"}

ASSUME PlatformAssumption == Platform \in Seq(Seq(DeviceKinds))
ASSUME FaultsAssumption == Faults \subseteq FaultKinds
ASSUME MaxCallsAssumption == MaxCalls \in Nat

Drivers == DOMAIN Platform

Handles == UNION {{<<i, j>> : j \in DOMAIN Platform[i]} : i \in Drivers}

\* nullptr is no device handle, and no context is numbered NoContext.
ASSUME NullAssumption == Null \notin Handles /\ NoContext \notin Nat

Ids == 0 .. MaxCalls

Results == {"SUCCESS", "UNINIT", "ERROR"}

VARIABLES
    initialized,  \* initLevelZero's static flag
    g_driver,     \* 0 (nullptr) or the driver chosen
    g_devices,    \* the devices array, <<>> while nullptr
    g_context,
    arrays,       \* device arrays allocated with new[] (none is deleted)
    contexts,     \* contexts created so far
    selected,     \* the caller's device index after setDevice, or -1
    mem,          \* live device allocations
    queues,       \* live command queues
    pools,        \* live event pools
    events,       \* live events
    recorded,     \* events whose signal was submitted to a queue
    calls         \* API calls made; also the id of the next resource

lzVars  == <<initialized, g_driver, g_devices, g_context, arrays, contexts>>
appVars == <<selected, mem, queues, pools, events, recorded>>
vars    == <<lzVars, appVars, calls>>

TypeOK ==
    /\ initialized \in BOOLEAN
    /\ g_driver \in {0} \cup Drivers
    /\ g_devices \in Seq(Handles \cup {Null})
    /\ g_context \in {NoContext} \cup (1 .. MaxCalls)
    /\ arrays \in 0 .. MaxCalls
    /\ contexts \in 0 .. MaxCalls
    /\ selected \in {-1} \cup (0 .. Len(g_devices) - 1)
    /\ \A a \in mem : a.id \in Ids /\ a.dev \in Handles \cup {Null}
    /\ \A x \in queues \cup pools : x.id \in Ids
    /\ \A e \in events : e.id \in Ids /\ e.pool \in Ids
    /\ recorded \subseteq Ids
    /\ calls \in 0 .. MaxCalls

Init ==
    /\ initialized = FALSE
    /\ g_driver = 0
    /\ g_devices = <<>>
    /\ g_context = NoContext
    /\ arrays = 0
    /\ contexts = 0
    /\ selected = -1
    /\ mem = {} /\ queues = {} /\ pools = {} /\ events = {}
    /\ recorded = {}
    /\ calls = 0
-----------------------------------------------------------------------------
(***************************************************************************)
(* initLevelZero (lines 20-99).  The loop over the drivers keeps the      *)
(* first driver whose device list could be read; a driver whose second    *)
(* zeDeviceGet fails still becomes g_driver and leaves all_devices        *)
(* resized to its count with null handles, and the loop goes on.  An      *)
(* outcome o gives for each driver what its two zeDeviceGet calls do.     *)
(***************************************************************************)
DriverOutcomes(i) ==
    IF Platform[i] = <<>>
      THEN {"skip"}
      ELSE {"ok"} \cup (IF "deviceGet" \in Faults THEN {"skip"} ELSE {})
                  \cup (IF "deviceGetList" \in Faults THEN {"fail2"} ELSE {})

Outcomes ==
    {o \in [Drivers -> {"skip", "fail2", "ok"}] :
        \A i \in Drivers : o[i] \in DriverOutcomes(i)}

\* The drivers the loop assigned to g_driver before it broke out.
Touched(o) ==
    {i \in Drivers : o[i] \in {"fail2", "ok"} /\ \A j \in 1 .. i - 1 : o[j] # "ok"}

\* all_devices after the loop, given the last driver k it touched.
AllDevices(o, k) ==
    [j \in DOMAIN Platform[k] |-> IF o[k] = "ok" THEN <<k, j>> ELSE Null]

\* is_igpu: a handle whose properties cannot be read counts as a dGPU.
IsIgpu(h, propsFailed) ==
    h # Null /\ h \notin propsFailed /\ Platform[h[1]][h[2]] = "iGPU"

PropsFailures(all) ==
    IF "props" \in Faults
      THEN SUBSET {all[j] : j \in DOMAIN all}
      ELSE {{}}

\* The increasing maps of 1 .. m onto a set K of indices: there is one
\* exactly when K has m elements.
Enumerations(K, m) ==
    {f \in [1 .. m -> K] :
        /\ \A n \in 1 .. m - 1 : f[n] < f[n + 1]
        /\ \A j \in K : \E n \in 1 .. m : f[n] = j}

\* remove_if and erase, then the copy into the new array: the elements of
\* all at the indices in Kept, in their order (a set of one sequence).
RemoveIf(all, Kept) ==
    UNION {{[n \in 1 .. m |-> all[f[n]]] : f \in Enumerations(Kept, m)} :
              m \in 0 .. Len(all)}

\* Mutant: the all_of check for an iGPU-only list is dropped.
InitFromDevicesNoAllOf(all, res) ==
    \E pf1, pf2 \in PropsFailures(all) :
        /\ g_devices' \in RemoveIf(all, {j \in DOMAIN all : ~IsIgpu(all[j], pf2)})
        /\ arrays' = arrays + 1
        /\ \/ /\ contexts' = contexts + 1
              /\ g_context' = contexts + 1
              /\ initialized' = TRUE
              /\ res = "SUCCESS"
           \/ /\ "context" \in Faults
              /\ res = "ERROR"
              /\ UNCHANGED <<initialized, g_context, contexts>>

\* all_of and remove_if each call is_igpu, so the two may disagree.
InitFromDevices(all, res) ==
    \E pf1, pf2 \in PropsFailures(all) :
        IF \A j \in DOMAIN all : IsIgpu(all[j], pf1)
          THEN /\ res = "UNINIT"
               /\ UNCHANGED <<initialized, g_devices, g_context, arrays, contexts>>
          ELSE /\ g_devices' \in
                      RemoveIf(all, {j \in DOMAIN all : ~IsIgpu(all[j], pf2)})
               /\ arrays' = arrays + 1
               /\ \/ /\ contexts' = contexts + 1
                     /\ g_context' = contexts + 1
                     /\ initialized' = TRUE
                     /\ res = "SUCCESS"
                  \/ /\ "context" \in Faults
                     /\ res = "ERROR"
                     /\ UNCHANGED <<initialized, g_context, contexts>>

\* Everything initLevelZero does once its flag is found unset.
DiscoverDevices(res) ==
    \/ /\ \/ "initDrivers" \in Faults
          \/ Platform = <<>>
       /\ res \in {"UNINIT", "ERROR"}
       /\ UNCHANGED lzVars
    \/ \E o \in Outcomes :
          IF Touched(o) = {}
            THEN res = "UNINIT" /\ UNCHANGED lzVars
            ELSE LET k == CHOOSE i \in Touched(o) :
                              \A j \in Touched(o) : j <= i
                 IN  /\ g_driver' = k
                     /\ InitFromDevices(AllDevices(o, k), res)

InitLevelZero(res) ==
    \/ /\ initialized
       /\ res = "SUCCESS"
       /\ UNCHANGED lzVars
    \/ /\ ~initialized
       /\ DiscoverDevices(res)

\* Mutant: g_devices[0] read before initLevelZero has run.
Device0Stale == IF g_devices = <<>> THEN Null ELSE g_devices[1]

\* g_devices[0] as the API reads it after initLevelZero.
Device0 == IF g_devices' = <<>> THEN Null ELSE g_devices'[1]

\* A call: initLevelZero, then Body on success; one call of the bound.
Call(Body(_)) ==
    /\ calls < MaxCalls
    /\ calls' = calls + 1
    /\ \E res \in Results :
          /\ InitLevelZero(res)
          /\ IF res = "SUCCESS" THEN Body(calls) ELSE UNCHANGED appVars
-----------------------------------------------------------------------------
\* Mutant: the index is not checked against g_device_count.
SetDeviceNoRangeCheck(d) ==
    LET Select(id) ==
            /\ selected' = d
            /\ UNCHANGED <<mem, queues, pools, events, recorded>>
    IN  Call(Select)

\* setDevice (lines 103-114) only validates the index; the caller's
\* selection is what the bootstrap goes on to use.
SetDevice(d) ==
    LET Select(id) ==
            /\ selected' = IF d < Len(g_devices') THEN d ELSE selected
            /\ UNCHANGED <<mem, queues, pools, events, recorded>>
    IN  Call(Select)

\* getDeviceProperties, memGetInfo and getDeviceCount (lines 116-179)
\* initialise and then only read.
QueryDevice ==
    LET Read(id) == UNCHANGED appVars
    IN  Call(Read)

\* streamCreateWithPriority (lines 181-206): a queue on g_devices[0].
StreamCreate ==
    LET Create(id) ==
            /\ Len(g_devices') > 0
            /\ \/ queues' = queues \cup
                            {[id |-> id, dev |-> Device0, ctx |-> g_context']}
               \/ "queue" \in Faults /\ UNCHANGED queues
            /\ UNCHANGED <<selected, mem, pools, events, recorded>>
        Empty(id) == Len(g_devices') = 0 /\ UNCHANGED appVars
    IN  Call(LAMBDA id : Create(id) \/ Empty(id))

\* streamDestroy (lines 208-211).
StreamDestroy(q) ==
    /\ queues' = queues \ {q}
    /\ UNCHANGED <<lzVars, selected, mem, pools, events, recorded, calls>>

\* malloc (lines 312-324): allocates on g_devices[0] in g_context.
Malloc(size) ==
    LET Alloc(id) ==
            /\ IF size = 0
                 THEN UNCHANGED mem
                 ELSE \/ mem' = mem \cup {[id |-> id, dev |-> Device0,
                                          ctx |-> g_context']}
                      \/ "alloc" \in Faults /\ UNCHANGED mem
            /\ UNCHANGED <<selected, queues, pools, events, recorded>>
    IN  Call(Alloc)

\* free (lines 326-329): zeMemFree through g_context, whatever context the
\* pointer was allocated in.
Free(a) ==
    /\ mem' = mem \ {a}
    /\ UNCHANGED <<lzVars, selected, queues, pools, events, recorded, calls>>

\* The body of eventCreate (lines 365-386): a fresh one-event pool on
\* g_devices[0], then the event in it; a failing zeEventCreate leaves the
\* pool.
CreateEventIn(id) ==
    /\ \/ /\ pools' = pools \cup
                      {[id |-> id, dev |-> Device0, ctx |-> g_context']}
          /\ \/ events' = events \cup {[id |-> id, pool |-> id]}
             \/ "event" \in Faults /\ UNCHANGED events
       \/ "pool" \in Faults /\ UNCHANGED <<pools, events>>
    /\ UNCHANGED <<selected, mem, queues, recorded>>

\* eventCreate (lines 364-387).
EventCreate == Call(CreateEventIn)

(***************************************************************************)
(* eventCreateWithFlags (lines 389-444): with the timing bit the same     *)
(* pool and event are built inline, with a timestamp flag on the pool     *)
(* that no property tells apart; without it the call goes on into         *)
(* eventCreate, whose initLevelZero then finds the flag set.  Either way  *)
(* it is the body of eventCreate after one successful initLevelZero.      *)
(***************************************************************************)
EventCreateWithFlags(flags) == Call(CreateEventIn)

\* eventDestroy (lines 446-449) destroys the event and not its pool.
EventDestroy(e) ==
    /\ events' = events \ {e}
    /\ recorded' = recorded \ {e.id}
    /\ UNCHANGED <<lzVars, selected, mem, queues, pools, calls>>

(***************************************************************************)
(* streamWaitEvent, memcpyAsync and eventRecord (lines 213-243, 331-362,  *)
(* 451-477) do not call initLevelZero: each builds a command list in      *)
(* g_context on g_devices[0], appends one command, closes it, executes it *)
(* on the stream and destroys it, on every error path too.  A command     *)
(* list therefore never outlives the call; what stays is the command      *)
(* submitted to the queue.  Streams are the queues streamCreate made.     *)
(***************************************************************************)
\* Whether the list was built, closed and executed, or some step failed.
Submits == {TRUE} \cup (IF "cmdList" \in Faults THEN {FALSE} ELSE {})

\* streamWaitEvent: the queue waits for the event; nothing in the model.
StreamWaitEvent(q, e) ==
    /\ calls < MaxCalls
    /\ calls' = calls + 1
    /\ UNCHANGED <<lzVars, appVars>>

\* memcpyAsync: a count of 0 returns before the command list is built.
MemcpyAsync(q, count) ==
    /\ calls < MaxCalls
    /\ calls' = calls + 1
    /\ UNCHANGED <<lzVars, appVars>>

\* eventRecord: once executed, the queue will signal the event.
EventRecord(e, q) ==
    /\ calls < MaxCalls
    /\ calls' = calls + 1
    /\ \E ok \in Submits :
          recorded' = IF ok THEN recorded \cup {e.id} ELSE recorded
    /\ UNCHANGED <<lzVars, selected, mem, queues, pools, events>>

\* The calls are bounded; the process then stops making them.
Exhausted ==
    /\ calls = MaxCalls
    /\ UNCHANGED vars

Next ==
    \/ \E d \in 0 .. 2 : SetDevice(d)
    \/ QueryDevice
    \/ StreamCreate
    \/ \E q \in queues : StreamDestroy(q)
    \/ \E size \in {0, 1} : Malloc(size)
    \/ \E a \in mem : Free(a)
    \/ EventCreate
    \/ \E flags \in {0, 1} : EventCreateWithFlags(flags)
    \/ \E e \in events : EventDestroy(e)
    \/ \E q \in queues, e \in events :
          StreamWaitEvent(q, e) \/ EventRecord(e, q)
    \/ \E q \in queues, count \in {0, 1} : MemcpyAsync(q, count)
    \/ Exhausted

Spec == Init /\ [][Next]_vars
-----------------------------------------------------------------------------
(***************************************************************************)
(* Once initLevelZero has reported success, g_context is a context and    *)
(* g_devices a non-empty array of real device handles of g_driver: every  *)
(* later call dereferences g_devices[0] and passes it to the driver.      *)
(***************************************************************************)
InitializedUsable ==
    initialized =>
        /\ g_context # NoContext
        /\ Len(g_devices) > 0
        /\ \A j \in DOMAIN g_devices :
              g_devices[j] # Null /\ g_devices[j][1] = g_driver

(***************************************************************************)
(* Every live allocation, command queue and event pool was created in the *)
(* current g_context on a device of the current g_devices: free and       *)
(* destroy go through g_context, so a resource of an earlier context      *)
(* could never be released.                                               *)
(***************************************************************************)
DeviceSet == {g_devices[j] : j \in DOMAIN g_devices}

ResourcesInContext ==
    /\ \A a \in mem : a.ctx = g_context /\ a.dev \in DeviceSet
    /\ \A q \in queues : q.ctx = g_context /\ q.dev \in DeviceSet
    /\ \A p \in pools : p.ctx = g_context /\ p.dev \in DeviceSet
=============================================================================
