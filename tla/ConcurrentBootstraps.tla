------------------------ MODULE ConcurrentBootstraps ------------------------
(***************************************************************************)
(* Two or more threads of one process each build a                        *)
(* TorchCommXCCLBootstrap and start createXcclComm, as spec 5 allows when *)
(* several communicators are bootstrapped concurrently.  The threads      *)
(* share what is static in the code: TorchCommXCCLBootstrap::counter_     *)
(* and initLevelZero's flag and globals (XpuApi.cpp lines 16-21).     *)
(* Neither is guarded by a lock or made atomic, so every read and every   *)
(* write of them is a step of its own.  The driver calls succeed: which  *)
(* devices are found is the business of LevelZeroApi.                    *)
(***************************************************************************)
EXTENDS Naturals

CONSTANTS
    Threads,  \* the threads constructing a bootstrap
    NoKey     \* no store key built yet

VARIABLES
    counter,      \* TorchCommXCCLBootstrap::counter_
    initialized,  \* initLevelZero's static flag
    g_devices,    \* 0 (nullptr) or the number of the array new[] returned
    g_context,    \* 0 (nullptr) or the number of the context created
    call,         \* per thread: the API call or function it is in
    step,         \* per thread: where it is in that call
    buf,          \* per thread: context of its barrier buffer, 0 if none
    tmp,          \* per thread: counter_ as loaded by counter_++
    key           \* per thread: the counter value its store key names

vars == <<counter, initialized, g_devices, g_context, call, step, buf, tmp,
          key>>

Calls == {"setDevice", "malloc", "getXCCLStoreKey", "returned"}
Steps == {"check", "discover", "context", "flag", "body", "load", "store",
          "done"}

TypeOK ==
    /\ counter \in Nat
    /\ initialized \in BOOLEAN
    /\ g_devices \in Nat
    /\ g_context \in Nat
    /\ call \in [Threads -> Calls]
    /\ step \in [Threads -> Steps]
    /\ buf \in [Threads -> Nat]
    /\ tmp \in [Threads -> Nat]
    /\ key \in [Threads -> Nat \cup {NoKey}]

\* The constructor (TorchCommXCCLBootstrap.cpp lines 66-75) first calls
\* setDevice; nothing is initialised yet.
Init ==
    /\ counter = 0
    /\ initialized = FALSE
    /\ g_devices = 0
    /\ g_context = 0
    /\ call = [t \in Threads |-> "setDevice"]
    /\ step = [t \in Threads |-> "check"]
    /\ buf = [t \in Threads |-> 0]
    /\ tmp = [t \in Threads |-> 0]
    /\ key = [t \in Threads |-> NoKey]

InApiCall(t) == call[t] \in {"setDevice", "malloc"}

Go(t, s) == step' = [step EXCEPT ![t] = s]
-----------------------------------------------------------------------------
\* initLevelZero line 22: return at once if the flag is set.
InitCheck(t) ==
    /\ InApiCall(t)
    /\ step[t] = "check"
    /\ Go(t, IF initialized THEN "body" ELSE "discover")
    /\ UNCHANGED <<counter, initialized, g_devices, g_context, call, buf,
                   tmp, key>>

\* Lines 24-90: the drivers and devices are found; line 87 stores a fresh
\* new[] array in g_devices, dropping whatever it held.
Discover(t) ==
    /\ InApiCall(t)
    /\ step[t] = "discover"
    /\ g_devices' = g_devices + 1
    /\ Go(t, "context")
    /\ UNCHANGED <<counter, initialized, g_context, call, buf, tmp, key>>

\* Line 95: zeContextCreate writes a fresh context into g_context.
CreateContext(t) ==
    /\ InApiCall(t)
    /\ step[t] = "context"
    /\ g_context' = g_context + 1
    /\ Go(t, "flag")
    /\ UNCHANGED <<counter, initialized, g_devices, call, buf, tmp, key>>

\* Line 97: the flag is set once the context exists.
SetFlag(t) ==
    /\ InApiCall(t)
    /\ step[t] = "flag"
    /\ initialized' = TRUE
    /\ Go(t, "body")
    /\ UNCHANGED <<counter, g_devices, g_context, call, buf, tmp, key>>

\* setDevice (lines 103-114) only checks the index; the constructor then
\* calls malloc, which runs initLevelZero again.  The driver calls succeed
\* and the index is taken in range, so the check of lines 107-109 passes:
\* a rejected index is a single-thread failure, modelled in LevelZeroApi.
SetDeviceBody(t) ==
    /\ call[t] = "setDevice"
    /\ step[t] = "body"
    /\ call' = [call EXCEPT ![t] = "malloc"]
    /\ Go(t, "check")
    /\ UNCHANGED <<counter, initialized, g_devices, g_context, buf, tmp, key>>

\* malloc (lines 312-324): the barrier buffer is allocated in g_context as
\* it is now; createXcclComm then calls getXCCLStoreKey.
MallocBody(t) ==
    /\ call[t] = "malloc"
    /\ step[t] = "body"
    /\ buf' = [buf EXCEPT ![t] = g_context]
    /\ call' = [call EXCEPT ![t] = "getXCCLStoreKey"]
    /\ Go(t, "body")
    /\ UNCHANGED <<counter, initialized, g_devices, g_context, tmp, key>>

\* getXCCLStoreKey line 89: the key is built from counter_.
KeyRead(t) ==
    /\ call[t] = "getXCCLStoreKey"
    /\ step[t] = "body"
    /\ key' = [key EXCEPT ![t] = counter]
    /\ Go(t, "load")
    /\ UNCHANGED <<counter, initialized, g_devices, g_context, call, buf, tmp>>

\* Line 90: counter_++ loads counter_ ...
IncLoad(t) ==
    /\ call[t] = "getXCCLStoreKey"
    /\ step[t] = "load"
    /\ tmp' = [tmp EXCEPT ![t] = counter]
    /\ Go(t, "store")
    /\ UNCHANGED <<counter, initialized, g_devices, g_context, call, buf, key>>

\* ... and stores the loaded value plus one.
IncStore(t) ==
    /\ call[t] = "getXCCLStoreKey"
    /\ step[t] = "store"
    /\ counter' = tmp[t] + 1
    /\ call' = [call EXCEPT ![t] = "returned"]
    /\ Go(t, "done")
    /\ UNCHANGED <<initialized, g_devices, g_context, buf, tmp, key>>

\* Every thread has its key.
Finished ==
    /\ \A t \in Threads : call[t] = "returned"
    /\ UNCHANGED vars

Next ==
    \/ \E t \in Threads :
          \/ InitCheck(t) \/ Discover(t) \/ CreateContext(t) \/ SetFlag(t)
          \/ SetDeviceBody(t) \/ MallocBody(t)
          \/ KeyRead(t) \/ IncLoad(t) \/ IncStore(t)
    \/ Finished

Spec == Init /\ [][Next]_vars
-----------------------------------------------------------------------------
(***************************************************************************)
(* Spec 5: counter_ is updated atomically with respect to the other       *)
(* bootstraps of the process, so no two of them build the same store key *)
(* (two communicators would otherwise exchange ids under one key).        *)
(***************************************************************************)
DistinctKeys ==
    \A t, u \in Threads :
        t # u /\ key[t] # NoKey /\ key[u] # NoKey => key[t] # key[u]

(***************************************************************************)
(* Spec 5 names counter_ as the only state the bootstraps of a process    *)
(* share: each barrier buffer stays in the current g_context, through     *)
(* which the destructor's free (line 328) releases it.                    *)
(***************************************************************************)
BufferInCurrentContext ==
    \A t \in Threads : buf[t] # 0 => buf[t] = g_context
=============================================================================
