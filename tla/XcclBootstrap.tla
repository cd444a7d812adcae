--------------------------- MODULE XcclBootstrap ---------------------------
(***************************************************************************)
(* The XCCL bootstrap rendezvous of torchcomms                            *)
(* (src/comms/torchcomms/xccl/TorchCommXCCLBootstrap.cpp), one process    *)
(* per rank.  Each process repeatedly builds a TorchCommXCCLBootstrap,    *)
(* calls createXcclComm on it and destroys it; one such round is an       *)
(* "attempt", and the a-th attempt of every process is the a-th logical   *)
(* rendezvous.                                                            *)
(*                                                                         *)
(* Rank 0 generates the unique id and publishes it in the key-value store *)
(* under "xccl_storekey_<counter>", where counter is the process-wide     *)
(* static counter_; the other ranks block in get on the key built from    *)
(* their own counter_.  The communicator is built by a collective init    *)
(* that completes only when every rank calls it with the same id.  If the *)
(* bootstrap created its own store it drops it and runs an allreduce as a *)
(* barrier, then waits on the stream.                                     *)
(*                                                                         *)
(* The unique id that rank 0 generates in attempt a is modelled by the    *)
(* number a: it names the rendezvous it was generated for.  Failures of   *)
(* the external collaborators are enabled by the constant Faults.         *)
(***************************************************************************)
EXTENDS Naturals, FiniteSets

CONSTANTS
    N,            \* number of ranks (comm_size_)
    MaxAttempts,  \* bound on createXcclComm rounds per process
    Faults,       \* failures of external calls the run lets happen
    Methods,      \* values uniqueid_xchg_method_ can take after lower-casing
    NoStore,      \* store_ is null
    ExtStore,     \* store_ is the store supplied to the constructor
    NoValue,      \* a store key that has not been set
    NoId,         \* no unique id held yet
    NoKey         \* no store key generated yet

\* The external calls whose failure the model can inject.
FaultKinds == {"ctor", "getStore", "getUniqueId", "hints", "allReduce",
               "streamSync"}

ASSUME NAssumption == N \in Nat \ {0}
ASSUME MaxAttemptsAssumption == MaxAttempts \in Nat \ {0}
ASSUME FaultsAssumption == Faults \subseteq FaultKinds
ASSUME MethodsAssumption == Methods # {}
ASSUME SentinelAssumption ==
    /\ NoStore # ExtStore
    /\ NoValue \notin Nat /\ NoId \notin Nat /\ NoKey \notin Nat
    /\ NoStore \notin Nat /\ ExtStore \notin Nat

Ranks    == 0 .. N - 1
Attempts == 1 .. MaxAttempts
\* The unique id generated in attempt a is a.
Ids      == Attempts
\* counter_ never exceeds MaxAttempts, so these keys are the only ones used.
Keys     == 0 .. MaxAttempts - 1

kUniqueidXchgMethodAuto     == "auto"
kUniqueidXchgMethodTCPStore == "tcpstore"

PCs == {"idle", "ready", "get", "config", "commInit", "cleanup", "sync",
        "done", "failed"}

VARIABLES
    pc,          \* per rank: where the process is in the attempt
    att,         \* per rank: number of the current / last attempt
    counter,     \* per rank: TorchCommXCCLBootstrap::counter_ (static)
    kv,          \* the key-value store: key -> id or NoValue
    storeRef,    \* per rank: store_: NoStore, ExtStore or the attempt
                 \*   whose internally created store it references
    internal,    \* per rank: created_internal_store_
    key,         \* per rank: key generated by getXCCLStoreKey
    uid,         \* per rank: the uniqueId the rank holds
    reduced,     \* per rank: ids of the comms on which it issued the barrier
    buffer,      \* per rank: barrier_buffer_ is allocated
    extStore,    \* a store is supplied to every constructor
    xchgMethod,  \* per rank: uniqueid_xchg_method_
    tcpEnabled   \* per rank: MASTER_ADDR and MASTER_PORT are both set

vars == <<pc, att, counter, kv, storeRef, internal, key, uid, reduced,
          buffer, extStore, xchgMethod, tcpEnabled>>

env   == <<extStore, xchgMethod, tcpEnabled>>

TypeOK ==
    /\ pc \in [Ranks -> PCs]
    /\ att \in [Ranks -> 0 .. MaxAttempts]
    /\ counter \in [Ranks -> 0 .. MaxAttempts]
    /\ kv \in [Keys -> Ids \cup {NoValue}]
    /\ storeRef \in [Ranks -> {NoStore, ExtStore} \cup Attempts]
    /\ internal \in [Ranks -> BOOLEAN]
    /\ key \in [Ranks -> Keys \cup {NoKey}]
    /\ uid \in [Ranks -> Ids \cup {NoId}]
    /\ reduced \in [Ranks -> SUBSET Ids]
    /\ buffer \in [Ranks -> BOOLEAN]
    /\ extStore \in BOOLEAN
    /\ xchgMethod \in [Ranks -> Methods]
    /\ tcpEnabled \in [Ranks -> BOOLEAN]

Init ==
    /\ pc = [r \in Ranks |-> "idle"]
    /\ att = [r \in Ranks |-> 0]
    /\ counter = [r \in Ranks |-> 0]
    /\ kv = [k \in Keys |-> NoValue]
    /\ storeRef = [r \in Ranks |-> NoStore]
    /\ internal = [r \in Ranks |-> FALSE]
    /\ key = [r \in Ranks |-> NoKey]
    /\ uid = [r \in Ranks |-> NoId]
    /\ reduced = [r \in Ranks |-> {}]
    /\ buffer = [r \in Ranks |-> FALSE]
    /\ extStore \in BOOLEAN
    /\ xchgMethod \in [Ranks -> Methods]
    /\ tcpEnabled \in [Ranks -> BOOLEAN]

\* Set the rank's program counter.
Goto(r, l) == pc' = [pc EXCEPT ![r] = l]
-----------------------------------------------------------------------------
(***************************************************************************)
(* Constructor (lines 21-76): rank and size are fixed, store_ is the      *)
(* supplied store or null, the device is set and the one-float barrier    *)
(* buffer is allocated.  The device checks and the allocation are XPU     *)
(* calls that may throw; a throwing constructor leaves no bootstrap, and  *)
(* the application goes on to its next attempt.                           *)
(***************************************************************************)
Construct(r) ==
    /\ pc[r] = "idle"
    /\ att[r] < MaxAttempts
    /\ att' = [att EXCEPT ![r] = @ + 1]
    /\ storeRef' =
           [storeRef EXCEPT ![r] = IF extStore THEN ExtStore ELSE NoStore]
    /\ internal' = [internal EXCEPT ![r] = FALSE]
    /\ buffer' = [buffer EXCEPT ![r] = TRUE]
    /\ Goto(r, "ready")
    /\ UNCHANGED <<counter, kv, key, uid, reduced, env>>

ConstructFail(r) ==
    /\ pc[r] = "idle"
    /\ att[r] < MaxAttempts
    /\ "ctor" \in Faults
    /\ att' = [att EXCEPT ![r] = @ + 1]
    /\ UNCHANGED <<pc, counter, kv, storeRef, internal, key, uid, reduced,
                   buffer, env>>

(***************************************************************************)
(* exchangeUniqueIdStore (lines 102-130) up to the blocking get: the key  *)
(* is taken first; rank 0 then generates the id and sets it under the     *)
(* key, and a failing getUniqueId throws.  Other ranks go on to the get.  *)
(***************************************************************************)
\* Mutant: the key is built from the already incremented counter
\* (++counter_).
GetXCCLStoreKeyPreIncrement(r) ==
    /\ key' = [key EXCEPT ![r] = counter[r] + 1]
    /\ counter' = [counter EXCEPT ![r] = @ + 1]

\* Mutant: the key is built from counter_, which is never incremented.
GetXCCLStoreKeyNoIncrement(r) ==
    /\ key' = [key EXCEPT ![r] = counter[r]]
    /\ UNCHANGED counter

\* getXCCLStoreKey (lines 88-92): the key is built from counter_, which is
\* then incremented.
GetXCCLStoreKey(r) ==
    /\ key' = [key EXCEPT ![r] = counter[r]]
    /\ counter' = [counter EXCEPT ![r] = @ + 1]

\* Mutant: rank 0 takes its key only once getUniqueId has succeeded.
ExchangeUniqueIdStoreKeyAfterId(r) ==
    IF r = 0
      THEN \/ /\ GetXCCLStoreKey(r)
              /\ kv' = [kv EXCEPT ![counter[r]] = att[r]]
              /\ uid' = [uid EXCEPT ![r] = att[r]]
              /\ Goto(r, "config")
           \/ /\ "getUniqueId" \in Faults
              /\ Goto(r, "failed")
              /\ UNCHANGED <<kv, uid, key, counter>>
      ELSE /\ GetXCCLStoreKey(r)
           /\ Goto(r, "get")
           /\ UNCHANGED <<kv, uid>>

ExchangeUniqueIdStore(r) ==
    /\ GetXCCLStoreKey(r)
    /\ IF r = 0
         THEN \/ /\ kv' = [kv EXCEPT ![counter[r]] = att[r]]
                 /\ uid' = [uid EXCEPT ![r] = att[r]]
                 /\ Goto(r, "config")
              \/ /\ "getUniqueId" \in Faults
                 /\ Goto(r, "failed")
                 /\ UNCHANGED <<kv, uid>>
         ELSE /\ Goto(r, "get")
              /\ UNCHANGED <<kv, uid>>

\* The exchange method is one of the two the code accepts (lines 151-152).
ValidMethod(r) ==
    xchgMethod[r] \in {kUniqueidXchgMethodAuto, kUniqueidXchgMethodTCPStore}

(***************************************************************************)
(* exchangeUniqueId (lines 145-160) with exchangeUniqueIdTCPStore (lines  *)
(* 132-139): a bootstrap with a store uses it; otherwise the method must  *)
(* be valid and MASTER_ADDR/MASTER_PORT set, and StoreManager returns the *)
(* store of this rendezvous, which the bootstrap now owns.                *)
(***************************************************************************)
ExchangeUniqueId(r) ==
    /\ pc[r] = "ready"
    /\ \/ /\ storeRef[r] # NoStore
          /\ UNCHANGED <<storeRef, internal>>
       \/ /\ storeRef[r] = NoStore
          /\ ValidMethod(r)
          /\ tcpEnabled[r]
          /\ storeRef' = [storeRef EXCEPT ![r] = att[r]]
          /\ internal' = [internal EXCEPT ![r] = TRUE]
    /\ ExchangeUniqueIdStore(r)
    /\ UNCHANGED <<att, reduced, buffer, env>>

\* The throwing paths of exchangeUniqueId, taken before any key is built:
\* an invalid method, no TCP store variables, or StoreManager failing.
ExchangeUniqueIdFail(r) ==
    /\ pc[r] = "ready"
    /\ storeRef[r] = NoStore
    /\ \/ ~ValidMethod(r)
       \/ ~tcpEnabled[r]
       \/ "getStore" \in Faults
    /\ Goto(r, "failed")
    /\ UNCHANGED <<att, counter, kv, storeRef, internal, key, uid, reduced,
                   buffer, env>>

\* store_->get (line 122) returns once the key is set; the store only ever
\* holds ids rank 0 wrote, so the size check of line 123 passes.
GetUniqueId(r) ==
    /\ pc[r] = "get"
    /\ kv[key[r]] # NoValue
    /\ uid' = [uid EXCEPT ![r] = kv[key[r]]]
    /\ Goto(r, "config")
    /\ UNCHANGED <<att, counter, kv, storeRef, internal, key, reduced,
                   buffer, env>>

\* Mutant: a get that times out is retried instead of throwing.
GetTimeoutRetry(r) ==
    /\ pc[r] = "get"
    /\ kv[key[r]] = NoValue
    /\ UNCHANGED vars

\* The store's get times out while the key is unset and throws.
GetTimeout(r) ==
    /\ pc[r] = "get"
    /\ kv[key[r]] = NoValue
    /\ Goto(r, "failed")
    /\ UNCHANGED <<att, counter, kv, storeRef, internal, key, uid, reduced,
                   buffer, env>>

\* Lines 283-287: the config is built and the hints applied; std::stoi
\* throws on a hint value that does not start with an integer.
PopulateConfig(r) ==
    /\ pc[r] = "config"
    /\ \/ Goto(r, "commInit")
       \/ /\ "hints" \in Faults
          /\ Goto(r, "failed")
    /\ UNCHANGED <<att, counter, kv, storeRef, internal, key, uid, reduced,
                   buffer, env>>

\* commInitRankConfig (lines 289-290) is collective: it returns a
\* communicator only when every rank has called it with the same id u.
CommInitRankConfig(u) ==
    /\ \A q \in Ranks : pc[q] = "commInit" /\ uid[q] = u
    /\ pc' = [q \in Ranks |-> "cleanup"]
    /\ UNCHANGED <<att, counter, kv, storeRef, internal, key, uid, reduced,
                   buffer, env>>

\* The backend's own timeout or error on this rank (lines 291-295).
CommInitFail(r) ==
    /\ pc[r] = "commInit"
    /\ Goto(r, "failed")
    /\ UNCHANGED <<att, counter, kv, storeRef, internal, key, uid, reduced,
                   buffer, env>>

(***************************************************************************)
(* cleanupTCPStore (lines 162-182): with an internally created store the  *)
(* bootstrap drops store_ and then issues the barrier allreduce on the    *)
(* new communicator; a failing allreduce is only logged.  Without one,    *)
(* createXcclComm returns at once (line 299).                             *)
(***************************************************************************)
\* Mutant: store_.reset() is left to the bootstrap's destructor.
CleanupTCPStoreNoReset(r) ==
    /\ pc[r] = "cleanup"
    /\ IF internal[r]
         THEN /\ \/ reduced' = [reduced EXCEPT ![r] = @ \cup {uid[r]}]
                 \/ /\ "allReduce" \in Faults
                    /\ UNCHANGED reduced
              /\ Goto(r, "sync")
         ELSE /\ Goto(r, "done")
              /\ UNCHANGED reduced
    /\ UNCHANGED <<att, counter, kv, storeRef, internal, key, uid, buffer, env>>

CleanupTCPStore(r) ==
    /\ pc[r] = "cleanup"
    /\ IF internal[r]
         THEN /\ storeRef' = [storeRef EXCEPT ![r] = NoStore]
              /\ \/ reduced' = [reduced EXCEPT ![r] = @ \cup {uid[r]}]
                 \/ /\ "allReduce" \in Faults
                    /\ UNCHANGED reduced
              /\ Goto(r, "sync")
         ELSE /\ Goto(r, "done")
              /\ UNCHANGED <<storeRef, reduced>>
    /\ UNCHANGED <<att, counter, kv, internal, key, uid, buffer, env>>

\* streamSynchronize (lines 184-187) waits with no timeout for the
\* allreduce the rank enqueued, which completes once every rank issued it.
StreamSynchronize(r) ==
    /\ pc[r] = "sync"
    /\ uid[r] \in reduced[r] => \A q \in Ranks : uid[r] \in reduced[q]
    /\ Goto(r, "done")
    /\ UNCHANGED <<att, counter, kv, storeRef, internal, key, uid, reduced,
                   buffer, env>>

\* XPU_CHECK on a failing streamSynchronize throws (line 184).
StreamSynchronizeFail(r) ==
    /\ pc[r] = "sync"
    /\ "streamSync" \in Faults
    /\ Goto(r, "failed")
    /\ UNCHANGED <<att, counter, kv, storeRef, internal, key, uid, reduced,
                   buffer, env>>

\* The destructor (lines 78-86) frees the barrier buffer; destroying the
\* bootstrap also drops store_.
Destroy(r) ==
    /\ pc[r] \in {"done", "failed"}
    /\ buffer' = [buffer EXCEPT ![r] = FALSE]
    /\ storeRef' = [storeRef EXCEPT ![r] = NoStore]
    /\ key' = [key EXCEPT ![r] = NoKey]
    /\ uid' = [uid EXCEPT ![r] = NoId]
    /\ Goto(r, "idle")
    /\ UNCHANGED <<att, counter, kv, internal, reduced, env>>

\* Every process has made its last attempt.
Terminated ==
    /\ \A r \in Ranks : pc[r] = "idle" /\ att[r] = MaxAttempts
    /\ UNCHANGED vars

RankStep(r) ==
    \/ Construct(r)
    \/ ConstructFail(r)
    \/ ExchangeUniqueId(r)
    \/ ExchangeUniqueIdFail(r)
    \/ GetUniqueId(r)
    \/ GetTimeout(r)
    \/ PopulateConfig(r)
    \/ CommInitFail(r)
    \/ CleanupTCPStore(r)
    \/ StreamSynchronize(r)
    \/ StreamSynchronizeFail(r)
    \/ Destroy(r)

Next ==
    \/ \E r \in Ranks : RankStep(r)
    \/ \E u \in Ids : CommInitRankConfig(u)
    \/ Terminated

Spec == Init /\ [][Next]_vars

(***************************************************************************)
(* Every process keeps running, and the store's get (bounded by timeout_) *)
(* and the backend's commInitRankConfig (CommInitFail) return or fail.    *)
(* streamSynchronize waits with no timeout (XpuApi.cpp line 253): in      *)
(* "sync" the rank is only bound to return once its barrier completes; a  *)
(* failing streamSynchronize is an error the device may report, never one *)
(* it must report, so StreamSynchronizeFail carries no fairness.          *)
(***************************************************************************)
FairSpec ==
    /\ Spec
    /\ \A r \in Ranks : WF_vars(RankStep(r) /\ pc[r] # "sync")
    /\ \A r \in Ranks : WF_vars(StreamSynchronize(r))
    /\ WF_vars(\E u \in Ids : CommInitRankConfig(u))

-----------------------------------------------------------------------------
(***************************************************************************)
(* Identity convergence across retries: whenever a rank holds a unique id *)
(* in its a-th createXcclComm, it is the id rank 0 generated in its own   *)
(* a-th call, never one left in the store by an earlier rendezvous or     *)
(* published for a later one.  It rests on every process's static         *)
(* counter_ advancing in step (getXCCLStoreKey).                          *)
(***************************************************************************)
SameRendezvousId ==
    \A r \in Ranks : uid[r] # NoId => uid[r] = att[r]

(***************************************************************************)
(* No stale identity on a retry: a rank that holds an id older than its   *)
(* own attempt (it retried after failing before getXCCLStoreKey, so its   *)
(* counter_ took no key for that attempt) and has not yet passed the      *)
(* collective init holds the id of the rendezvous rank 0 is still in, not *)
(* one rank 0 left behind.  Joining rank 0's live attempt is harmless;    *)
(* reading a key of an attempt rank 0 has abandoned is the stale read the *)
(* fresh-key scheme of getXCCLStoreKey is meant to exclude.               *)
(***************************************************************************)
NoStaleId ==
    \A r \in Ranks :
        ( /\ pc[r] \in {"config", "commInit"}
          /\ uid[r] \in Ids
          /\ uid[r] < att[r] )
        => att[0] = uid[r]

(***************************************************************************)
(* Barrier safety of cleanupTCPStore: when createXcclComm returns on a    *)
(* rank that created its own store, no member of its new communicator    *)
(* (the ranks that passed the collective init with the same id) still    *)
(* references a store, so the next store may bind the same port.         *)
(***************************************************************************)
StoreReleasedOnReturn ==
    \A r, q \in Ranks :
        ( /\ pc[r] = "done"
          /\ internal[r]
          /\ uid[q] = uid[r]
          /\ pc[q] \in {"cleanup", "sync", "done"} )
        => storeRef[q] = NoStore

(***************************************************************************)
(* Every createXcclComm call (and constructor) returns: no rank waits     *)
(* forever in the store's get, the collective init or the barrier.        *)
(***************************************************************************)
AttemptReturns ==
    \A r \in Ranks : pc[r] # "idle" ~> pc[r] = "idle"

(***************************************************************************)
(* The rendezvous the bootstrap implements: a rank is active from its     *)
(* constructor to its destructor, holds the uniqueId of createXcclComm,   *)
(* and the ids rank 0 has published are the values in the store.          *)
(***************************************************************************)
R == INSTANCE Rendezvous
         WITH phase     <- [r \in Ranks |-> IF pc[r] = "idle" THEN "idle"
                                                           ELSE "active"],
              attempt   <- att,
              holds     <- uid,
              published <- {kv[k] : k \in Keys} \ {NoValue}

(***************************************************************************)
(* Refinement: every step of the bootstraps is a step of the rendezvous   *)
(* or leaves it unchanged.  In particular exchangeUniqueIdStore only      *)
(* gives a rank the id rank 0 published for the same attempt, and a set   *)
(* never replaces an id already published (getXCCLStoreKey's counter_++). *)
(***************************************************************************)
RendezvousRefined == R!Spec
=============================================================================
