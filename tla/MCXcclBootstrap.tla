------------------------- MODULE MCXcclBootstrap -------------------------
(* Model-checking instances of XcclBootstrap.                             *)
EXTENDS XcclBootstrap

\* Failures that every process meets after it has taken its store key.
MCFaultsAfterKey == {"getUniqueId", "hints", "streamSync"}

\* Adds failures that strike before the key is taken: a constructor whose
\* XPU calls throw, and StoreManager failing to return a store.
MCFaultsBeforeKey == MCFaultsAfterKey \cup {"ctor", "getStore"}

\* Adds a barrier allreduce that fails on one rank and is only logged.
MCFaultsAfterKeyBarrier == MCFaultsAfterKey \cup {"allReduce"}

\* Only the barrier allreduce fails.
MCFaultsBarrier == {"allReduce"}

\* uniqueid_xchg_method_ after lower-casing: the explicit store method
\* (which the code treats like the default "auto") and an unsupported one.
MCMethods == {"tcpstore", "nccl"}

\* Only the default method, the environment variable being unset.
MCMethodsDefault == {"auto"}
=============================================================================
