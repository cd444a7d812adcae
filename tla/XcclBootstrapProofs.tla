------------------------ MODULE XcclBootstrapProofs ------------------------
(***************************************************************************)
(* Proofs about the XCCL bootstrap rendezvous, for every number of ranks, *)
(* every bound on attempts and every set of injected failures.            *)
(***************************************************************************)
EXTENDS XcclBootstrap, TLAPS

(***************************************************************************)
(* TypeOK is not inductive by itself: counter_ must stay below the bound  *)
(* when a rank takes a key, which holds because every attempt takes at    *)
(* most one key, and a rank that reads the store or joins the collective  *)
(* init must hold a key or an id.                                         *)
(***************************************************************************)
CounterBound ==
    \A r \in Ranks :
        /\ counter[r] <= att[r]
        /\ pc[r] = "ready" => counter[r] < att[r]

KeyHeld ==
    \A r \in Ranks : pc[r] = "get" => key[r] \in Keys

IdHeld ==
    \A r \in Ranks :
        pc[r] \in {"config", "commInit", "cleanup", "sync"} => uid[r] \in Ids

TypeInv ==
    /\ TypeOK
    /\ CounterBound
    /\ KeyHeld
    /\ IdHeld
-----------------------------------------------------------------------------
USE NAssumption, MaxAttemptsAssumption, SentinelAssumption

LEMMA InitTypeInv == Init => TypeInv
BY SMTT(30) DEF Init, TypeInv, TypeOK, CounterBound, KeyHeld, IdHeld, Ranks, Keys,
       Ids, Attempts, PCs

\* Each rank's step preserves TypeInv.
LEMMA RankStepTypeInv ==
    ASSUME TypeInv, NEW r \in Ranks, RankStep(r)
    PROVE  TypeInv'
<1> USE DEF TypeOK, CounterBound, KeyHeld, IdHeld, Ranks, Keys, Ids,
            Attempts, PCs, Goto
<1> SUFFICES TypeOK' /\ CounterBound' /\ KeyHeld' /\ IdHeld'
  BY DEF TypeInv
<1> USE DEF TypeInv
<1>1. CASE Construct(r)
  <2>1. TypeOK'
    BY <1>1, SMTT(30) DEF Construct, env
  <2>2. CounterBound'
    BY <1>1 DEF Construct, env
  <2>3. KeyHeld'
    BY <1>1 DEF Construct, env
  <2>4. IdHeld'
    BY <1>1 DEF Construct, env
  <2>5. QED
    BY <2>1, <2>2, <2>3, <2>4
<1>2. CASE ConstructFail(r)
  <2>1. TypeOK'
    BY <1>2, SMTT(30) DEF ConstructFail, env
  <2>2. CounterBound'
    BY <1>2 DEF ConstructFail, env
  <2>3. KeyHeld'
    BY <1>2 DEF ConstructFail, env
  <2>4. IdHeld'
    BY <1>2 DEF ConstructFail, env
  <2>5. QED
    BY <2>1, <2>2, <2>3, <2>4
<1>3. CASE ExchangeUniqueId(r)
  <2>1. TypeOK'
    <3>1. counter[r] < MaxAttempts /\ counter[r] \in Nat
      BY <1>3 DEF ExchangeUniqueId
    <3>2. /\ key' \in [Ranks -> Keys \cup {NoKey}]
          /\ counter' \in [Ranks -> 0 .. MaxAttempts]
      BY <1>3, <3>1, SMTT(30) DEF ExchangeUniqueId, ExchangeUniqueIdStore,
                        GetXCCLStoreKey
    <3>3. att[r] \in Attempts
      BY <1>3 DEF ExchangeUniqueId
    <3>4. /\ storeRef' \in [Ranks -> {NoStore, ExtStore} \cup Attempts]
          /\ internal' \in [Ranks -> BOOLEAN]
      BY <1>3, <3>3 DEF ExchangeUniqueId
    <3>5. /\ kv' \in [Keys -> Ids \cup {NoValue}]
          /\ uid' \in [Ranks -> Ids \cup {NoId}]
          /\ pc' \in [Ranks -> PCs]
      BY <1>3, <3>1, <3>3, ZenonT(30) DEF ExchangeUniqueId, ExchangeUniqueIdStore,
                              GetXCCLStoreKey
    <3>6. QED
      BY <1>3, <3>2, <3>4, <3>5, SMTT(30) DEF ExchangeUniqueId, env
  <2>2. CounterBound'
    BY <1>3, SMTT(30) DEF ExchangeUniqueId, ExchangeUniqueIdStore, GetXCCLStoreKey, env
  <2>3. KeyHeld'
    BY <1>3, SMTT(30) DEF ExchangeUniqueId, ExchangeUniqueIdStore, GetXCCLStoreKey, env
  <2>4. IdHeld'
    <3>1. att[r] \in Ids
      BY <1>3 DEF ExchangeUniqueId
    <3>2. \/ /\ uid' = [uid EXCEPT ![r] = att[r]]
             /\ pc' = [pc EXCEPT ![r] = "config"]
          \/ /\ uid' = uid
             /\ pc' = [pc EXCEPT ![r] = "failed"]
          \/ /\ uid' = uid
             /\ pc' = [pc EXCEPT ![r] = "get"]
      BY <1>3 DEF ExchangeUniqueId, ExchangeUniqueIdStore
    <3>3. QED
      BY <3>1, <3>2, SMTT(30)
  <2>5. QED
    BY <2>1, <2>2, <2>3, <2>4
<1>4. CASE ExchangeUniqueIdFail(r)
  <2>1. TypeOK'
    BY <1>4, SMTT(30) DEF ExchangeUniqueIdFail, env
  <2>2. CounterBound'
    BY <1>4 DEF ExchangeUniqueIdFail, env
  <2>3. KeyHeld'
    BY <1>4 DEF ExchangeUniqueIdFail, env
  <2>4. IdHeld'
    BY <1>4 DEF ExchangeUniqueIdFail, env
  <2>5. QED
    BY <2>1, <2>2, <2>3, <2>4
<1>5. CASE GetUniqueId(r)
  <2>1. TypeOK'
    BY <1>5 DEF GetUniqueId, env
  <2>2. CounterBound'
    BY <1>5 DEF GetUniqueId, env
  <2>3. KeyHeld'
    BY <1>5 DEF GetUniqueId, env
  <2>4. IdHeld'
    BY <1>5 DEF GetUniqueId, env
  <2>5. QED
    BY <2>1, <2>2, <2>3, <2>4
<1>6. CASE GetTimeout(r)
  <2>1. TypeOK'
    BY <1>6, SMTT(30) DEF GetTimeout, env
  <2>2. CounterBound'
    BY <1>6 DEF GetTimeout, env
  <2>3. KeyHeld'
    BY <1>6 DEF GetTimeout, env
  <2>4. IdHeld'
    BY <1>6 DEF GetTimeout, env
  <2>5. QED
    BY <2>1, <2>2, <2>3, <2>4
<1>7. CASE PopulateConfig(r)
  <2>1. TypeOK'
    BY <1>7 DEF PopulateConfig, env
  <2>2. CounterBound'
    BY <1>7, SMTT(30) DEF PopulateConfig, env
  <2>3. KeyHeld'
    BY <1>7, SMTT(30) DEF PopulateConfig, env
  <2>4. IdHeld'
    BY <1>7, SMTT(30) DEF PopulateConfig, env
  <2>5. QED
    BY <2>1, <2>2, <2>3, <2>4
<1>8. CASE CommInitFail(r)
  <2>1. TypeOK'
    BY <1>8, SMTT(30) DEF CommInitFail, env
  <2>2. CounterBound'
    BY <1>8 DEF CommInitFail, env
  <2>3. KeyHeld'
    BY <1>8 DEF CommInitFail, env
  <2>4. IdHeld'
    BY <1>8 DEF CommInitFail, env
  <2>5. QED
    BY <2>1, <2>2, <2>3, <2>4
<1>9. CASE CleanupTCPStore(r)
  <2>1. TypeOK'
    <3>1. uid[r] \in Ids
      BY <1>9 DEF CleanupTCPStore
    <3>2. reduced' \in [Ranks -> SUBSET Ids]
      BY <1>9, <3>1, SMTT(30) DEF CleanupTCPStore
    <3>3. storeRef' \in [Ranks -> {NoStore, ExtStore} \cup Attempts]
      BY <1>9, SMTT(30) DEF CleanupTCPStore
    <3>4. QED
      BY <1>9, <3>2, <3>3 DEF CleanupTCPStore, env
  <2>2. CounterBound'
    BY <1>9, SMTT(30) DEF CleanupTCPStore, env
  <2>3. KeyHeld'
    BY <1>9, SMTT(30) DEF CleanupTCPStore, env
  <2>4. IdHeld'
    BY <1>9, SMTT(30) DEF CleanupTCPStore, env
  <2>5. QED
    BY <2>1, <2>2, <2>3, <2>4
<1>10. CASE StreamSynchronize(r)
  <2>1. TypeOK'
    BY <1>10, SMTT(30) DEF StreamSynchronize, env
  <2>2. CounterBound'
    BY <1>10 DEF StreamSynchronize, env
  <2>3. KeyHeld'
    BY <1>10 DEF StreamSynchronize, env
  <2>4. IdHeld'
    BY <1>10 DEF StreamSynchronize, env
  <2>5. QED
    BY <2>1, <2>2, <2>3, <2>4
<1>11. CASE StreamSynchronizeFail(r)
  <2>1. TypeOK'
    BY <1>11, SMTT(30) DEF StreamSynchronizeFail, env
  <2>2. CounterBound'
    BY <1>11 DEF StreamSynchronizeFail, env
  <2>3. KeyHeld'
    BY <1>11 DEF StreamSynchronizeFail, env
  <2>4. IdHeld'
    BY <1>11 DEF StreamSynchronizeFail, env
  <2>5. QED
    BY <2>1, <2>2, <2>3, <2>4
<1>12. CASE Destroy(r)
  <2>1. TypeOK'
    BY <1>12, SMTT(30) DEF Destroy, env
  <2>2. CounterBound'
    BY <1>12 DEF Destroy, env
  <2>3. KeyHeld'
    BY <1>12 DEF Destroy, env
  <2>4. IdHeld'
    BY <1>12 DEF Destroy, env
  <2>5. QED
    BY <2>1, <2>2, <2>3, <2>4
<1>13. QED
  BY <1>1, <1>2, <1>3, <1>4, <1>5, <1>6, <1>7, <1>8, <1>9, <1>10, <1>11,
     <1>12 DEF RankStep

LEMMA NextTypeInv == TypeInv /\ [Next]_vars => TypeInv'
<1> SUFFICES ASSUME TypeInv, [Next]_vars PROVE TypeInv'
  OBVIOUS
<1>1. CASE \E r \in Ranks : RankStep(r)
  BY <1>1, RankStepTypeInv
<1>2. CASE \E u \in Ids : CommInitRankConfig(u)
  BY <1>2 DEF CommInitRankConfig, TypeInv, TypeOK, CounterBound, KeyHeld,
             IdHeld, Ranks, PCs, env
<1>3. CASE Terminated \/ UNCHANGED vars
  BY <1>3 DEF Terminated, vars, TypeInv, TypeOK, CounterBound, KeyHeld,
             IdHeld
<1>4. QED
  BY <1>1, <1>2, <1>3 DEF Next

(***************************************************************************)
(* Type correctness: every variable keeps its type in every behaviour, in *)
(* particular counter_ never produces a key outside the store's keys.     *)
(***************************************************************************)
THEOREM TypeCorrect == Spec => []TypeOK
<1>1. Spec => []TypeInv
  BY InitTypeInv, NextTypeInv, PTL DEF Spec
<1>2. QED
  BY <1>1, PTL DEF TypeInv

-----------------------------------------------------------------------------
(***************************************************************************)
(* Identity convergence.  It holds when no failure strikes before a rank  *)
(* takes its store key (no throwing constructor, no failing StoreManager) *)
(* : a rank that can exchange at all then takes exactly one key per       *)
(* attempt, so its counter_ equals its attempt count, and the id stored   *)
(* under key k is the one rank 0 generated in attempt k + 1.             *)
(***************************************************************************)
FailuresAfterKey == Faults \cap {"ctor", "getStore"} = {}

\* The rank has a store, or the method and variables to create one.
CanExchange(r) == extStore \/ (ValidMethod(r) /\ tcpEnabled[r])

CounterInStep ==
    \A r \in Ranks :
        IF CanExchange(r)
          THEN counter[r] = IF pc[r] = "ready" THEN att[r] - 1 ELSE att[r]
          ELSE pc[r] \in {"idle", "ready", "failed"} /\ uid[r] = NoId

\* Only the ranks other than 0 block in the store's get.
OnlyOthersGet == pc[0] # "get"

ReadyStore ==
    \A r \in Ranks :
        pc[r] = "ready" => storeRef[r] = IF extStore THEN ExtStore ELSE NoStore

KeyOfAttempt ==
    \A r \in Ranks : pc[r] = "get" => key[r] = att[r] - 1

StoreHoldsAttempt ==
    \A k \in Keys : kv[k] \in {NoValue, k + 1}

\* A rank between attempts holds no id: Construct starts the next attempt
\* with a fresh one.
IdleClear ==
    \A r \in Ranks : pc[r] = "idle" => uid[r] = NoId

IdRest ==
    /\ CounterInStep
    /\ ReadyStore
    /\ KeyOfAttempt
    /\ StoreHoldsAttempt
    /\ IdleClear
    /\ SameRendezvousId

IdInv == TypeInv /\ IdRest

LEMMA InitIdInv == Init => IdInv
BY InitTypeInv, SMTT(30) DEF Init, IdInv, IdRest, CounterInStep, ReadyStore,
   KeyOfAttempt, StoreHoldsAttempt, IdleClear, SameRendezvousId, Ranks, Keys

\* Each rank's step preserves IdRest when no failure precedes the key.
LEMMA RankStepIdRest ==
    ASSUME FailuresAfterKey, TypeInv, IdRest, TypeInv',
           NEW r \in Ranks, RankStep(r)
    PROVE  IdRest'
<1> USE DEF TypeInv, TypeOK, CounterBound, KeyHeld, IdHeld, Ranks, Keys,
            Ids, Attempts, PCs, Goto, env, FailuresAfterKey, CanExchange,
            ValidMethod
<1> SUFFICES /\ CounterInStep' /\ ReadyStore' /\ KeyOfAttempt'
             /\ StoreHoldsAttempt' /\ IdleClear' /\ SameRendezvousId'
  BY DEF IdRest
<1> USE DEF IdRest, CounterInStep, ReadyStore, KeyOfAttempt,
            StoreHoldsAttempt, IdleClear, SameRendezvousId
<1>1. CASE Construct(r)
  <2>1. CounterInStep'
    BY <1>1, SMTT(30) DEF Construct
  <2>2. ReadyStore'
    BY <1>1, SMTT(30) DEF Construct
  <2>3. KeyOfAttempt'
    BY <1>1 DEF Construct
  <2>4. StoreHoldsAttempt'
    BY <1>1 DEF Construct
  <2>5. IdleClear'
    BY <1>1 DEF Construct
  <2>6. SameRendezvousId'
    BY <1>1 DEF Construct
  <2>7. QED
    BY <2>1, <2>2, <2>3, <2>4, <2>5, <2>6
<1>2. CASE ConstructFail(r)
  <2>1. CounterInStep'
    BY <1>2 DEF ConstructFail
  <2>2. ReadyStore'
    BY <1>2 DEF ConstructFail
  <2>3. KeyOfAttempt'
    BY <1>2, SMTT(30) DEF ConstructFail
  <2>4. StoreHoldsAttempt'
    BY <1>2 DEF ConstructFail
  <2>5. IdleClear'
    BY <1>2 DEF ConstructFail
  <2>6. SameRendezvousId'
    BY <1>2 DEF ConstructFail
  <2>7. QED
    BY <2>1, <2>2, <2>3, <2>4, <2>5, <2>6
<1>3. CASE ExchangeUniqueId(r)
  <2>1. CanExchange(r)
    BY <1>3 DEF ExchangeUniqueId
  <2>2. counter[r] = att[r] - 1 /\ att[r] \in Attempts
    BY <1>3, <2>1 DEF ExchangeUniqueId
  <2>3. /\ key' = [key EXCEPT ![r] = att[r] - 1]
        /\ counter' = [counter EXCEPT ![r] = att[r]]
        /\ att' = att /\ extStore' = extStore
        /\ xchgMethod' = xchgMethod /\ tcpEnabled' = tcpEnabled
    <3>1. GetXCCLStoreKey(r) /\ UNCHANGED <<att, env>>
      BY <1>3 DEF ExchangeUniqueId, ExchangeUniqueIdStore
    <3>2. counter[r] + 1 = att[r]
      BY <2>2
    <3>3. att' = att /\ env' = env
      BY <3>1
    <3>4. extStore' = extStore /\ xchgMethod' = xchgMethod
          /\ tcpEnabled' = tcpEnabled
      BY <3>3
    <3>5. key' = [key EXCEPT ![r] = att[r] - 1]
      BY <3>1, <2>2 DEF GetXCCLStoreKey
    <3>6. counter' = [counter EXCEPT ![r] = att[r]]
      BY <3>1, <3>2 DEF GetXCCLStoreKey
    <3>7. QED
      BY <3>3, <3>4, <3>5, <3>6
  <2>4. \/ /\ r = 0
           /\ kv' = [kv EXCEPT ![att[r] - 1] = att[r]]
           /\ uid' = [uid EXCEPT ![r] = att[r]]
           /\ pc' = [pc EXCEPT ![r] = "config"]
        \/ /\ kv' = kv /\ uid' = uid
           /\ pc' = [pc EXCEPT ![r] = "failed"]
        \/ /\ kv' = kv /\ uid' = uid
           /\ pc' = [pc EXCEPT ![r] = "get"]
    BY <1>3, <2>2 DEF ExchangeUniqueId, ExchangeUniqueIdStore
  <2>5. CounterInStep'
    BY <1>3, <2>1, <2>3, <2>4, SMTT(30)
  <2>6. ReadyStore'
    BY <1>3, <2>3, <2>4, SMTT(30) DEF ExchangeUniqueId
  <2>7. KeyOfAttempt'
    BY <1>3, <2>3, <2>4, SMTT(30)
  <2>8. StoreHoldsAttempt'
    <3>1. CASE kv' = kv
      BY <3>1
    <3>2. CASE kv' = [kv EXCEPT ![att[r] - 1] = att[r]]
      <4>1. att[r] - 1 \in Keys /\ att[r] = (att[r] - 1) + 1
        BY <2>2, SMTT(30)
      <4>2. QED
        BY <3>2, <4>1, SMTT(30)
    <3>3. QED
      BY <2>4, <3>1, <3>2
  <2>9. IdleClear'
    BY <1>3, <2>4, ZenonT(30)
  <2>10. SameRendezvousId'
    BY <1>3, <2>3, <2>4, SMTT(30)
  <2>11. QED
    BY <2>5, <2>6, <2>7, <2>8, <2>9, <2>10
<1>4. CASE ExchangeUniqueIdFail(r)
  <2>1. CounterInStep'
    BY <1>4 DEF ExchangeUniqueIdFail
  <2>2. ReadyStore'
    BY <1>4 DEF ExchangeUniqueIdFail
  <2>3. KeyOfAttempt'
    BY <1>4 DEF ExchangeUniqueIdFail
  <2>4. StoreHoldsAttempt'
    BY <1>4 DEF ExchangeUniqueIdFail
  <2>5. IdleClear'
    BY <1>4 DEF ExchangeUniqueIdFail
  <2>6. SameRendezvousId'
    BY <1>4, SMTT(30) DEF ExchangeUniqueIdFail
  <2>7. QED
    BY <2>1, <2>2, <2>3, <2>4, <2>5, <2>6
<1>5. CASE GetUniqueId(r)
  <2>1. CounterInStep'
    BY <1>5, SMTT(30) DEF GetUniqueId
  <2>2. ReadyStore'
    BY <1>5 DEF GetUniqueId
  <2>3. KeyOfAttempt'
    BY <1>5 DEF GetUniqueId
  <2>4. StoreHoldsAttempt'
    BY <1>5 DEF GetUniqueId
  <2>5. IdleClear'
    BY <1>5 DEF GetUniqueId
  <2>6. SameRendezvousId'
    BY <1>5, SMTT(30) DEF GetUniqueId
  <2>7. QED
    BY <2>1, <2>2, <2>3, <2>4, <2>5, <2>6, SMTT(30)
<1>6. CASE GetTimeout(r)
  <2>1. CounterInStep'
    BY <1>6, SMTT(30) DEF GetTimeout
  <2>2. ReadyStore'
    BY <1>6 DEF GetTimeout
  <2>3. KeyOfAttempt'
    BY <1>6 DEF GetTimeout
  <2>4. StoreHoldsAttempt'
    BY <1>6 DEF GetTimeout
  <2>5. IdleClear'
    BY <1>6 DEF GetTimeout
  <2>6. SameRendezvousId'
    BY <1>6, SMTT(30) DEF GetTimeout
  <2>7. QED
    BY <2>1, <2>2, <2>3, <2>4, <2>5, <2>6
<1>7. CASE PopulateConfig(r)
  <2>1. CounterInStep'
    BY <1>7, SMTT(30) DEF PopulateConfig
  <2>2. ReadyStore'
    BY <1>7, SMTT(30) DEF PopulateConfig
  <2>3. KeyOfAttempt'
    BY <1>7, SMTT(30) DEF PopulateConfig
  <2>4. StoreHoldsAttempt'
    BY <1>7 DEF PopulateConfig
  <2>5. IdleClear'
    BY <1>7, SMTT(30) DEF PopulateConfig
  <2>6. SameRendezvousId'
    BY <1>7, SMTT(30) DEF PopulateConfig
  <2>7. QED
    BY <2>1, <2>2, <2>3, <2>4, <2>5, <2>6
<1>8. CASE CommInitFail(r)
  <2>1. CounterInStep'
    BY <1>8, SMTT(30) DEF CommInitFail
  <2>2. ReadyStore'
    BY <1>8 DEF CommInitFail
  <2>3. KeyOfAttempt'
    BY <1>8 DEF CommInitFail
  <2>4. StoreHoldsAttempt'
    BY <1>8 DEF CommInitFail
  <2>5. IdleClear'
    BY <1>8 DEF CommInitFail
  <2>6. SameRendezvousId'
    BY <1>8, SMTT(30) DEF CommInitFail
  <2>7. QED
    BY <2>1, <2>2, <2>3, <2>4, <2>5, <2>6, SMTT(30)
<1>9. CASE CleanupTCPStore(r)
  <2>0. /\ pc' = [pc EXCEPT ![r] = IF internal[r] THEN "sync" ELSE "done"]
        /\ UNCHANGED <<att, counter, uid, extStore, xchgMethod, tcpEnabled>>
    BY <1>9, SMTT(30) DEF CleanupTCPStore
  <2>1. CounterInStep'
    BY <1>9, <2>0, SMTT(30) DEF CleanupTCPStore
  <2>2. ReadyStore'
    BY <1>9, SMTT(30) DEF CleanupTCPStore
  <2>3. KeyOfAttempt'
    BY <1>9, SMTT(30) DEF CleanupTCPStore
  <2>4. StoreHoldsAttempt'
    BY <1>9, SMTT(30) DEF CleanupTCPStore
  <2>5. IdleClear'
    BY <1>9, SMTT(30) DEF CleanupTCPStore
  <2>6. SameRendezvousId'
    BY <1>9, SMTT(30) DEF CleanupTCPStore
  <2>7. QED
    BY <2>1, <2>2, <2>3, <2>4, <2>5, <2>6, SMTT(30)
<1>10. CASE StreamSynchronize(r)
  <2>1. CounterInStep'
    BY <1>10, SMTT(30) DEF StreamSynchronize
  <2>2. ReadyStore'
    BY <1>10, SMTT(30) DEF StreamSynchronize
  <2>3. KeyOfAttempt'
    BY <1>10, SMTT(30) DEF StreamSynchronize
  <2>4. StoreHoldsAttempt'
    BY <1>10, SMTT(30) DEF StreamSynchronize
  <2>5. IdleClear'
    BY <1>10 DEF StreamSynchronize
  <2>6. SameRendezvousId'
    BY <1>10, SMTT(30) DEF StreamSynchronize
  <2>7. QED
    BY <2>1, <2>2, <2>3, <2>4, <2>5, <2>6, SMTT(30)
<1>11. CASE StreamSynchronizeFail(r)
  <2>1. CounterInStep'
    BY <1>11, SMTT(30) DEF StreamSynchronizeFail
  <2>2. ReadyStore'
    BY <1>11, SMTT(30) DEF StreamSynchronizeFail
  <2>3. KeyOfAttempt'
    BY <1>11, SMTT(30) DEF StreamSynchronizeFail
  <2>4. StoreHoldsAttempt'
    BY <1>11, SMTT(30) DEF StreamSynchronizeFail
  <2>5. IdleClear'
    BY <1>11, SMTT(30) DEF StreamSynchronizeFail
  <2>6. SameRendezvousId'
    BY <1>11, SMTT(30) DEF StreamSynchronizeFail
  <2>7. QED
    BY <2>1, <2>2, <2>3, <2>4, <2>5, <2>6, SMTT(30)
<1>12. CASE Destroy(r)
  <2>1. CounterInStep'
    BY <1>12, SMTT(30) DEF Destroy
  <2>2. ReadyStore'
    BY <1>12, SMTT(30) DEF Destroy
  <2>3. KeyOfAttempt'
    BY <1>12, SMTT(30) DEF Destroy
  <2>4. StoreHoldsAttempt'
    BY <1>12, SMTT(30) DEF Destroy
  <2>5. IdleClear'
    BY <1>12, SMTT(30) DEF Destroy
  <2>6. SameRendezvousId'
    BY <1>12 DEF Destroy
  <2>7. QED
    BY <2>1, <2>2, <2>3, <2>4, <2>5, <2>6, SMTT(30)
<1>13. QED
  BY <1>1, <1>2, <1>3, <1>4, <1>5, <1>6, <1>7, <1>8, <1>9, <1>10, <1>11,
     <1>12 DEF RankStep

LEMMA NextIdInv ==
    ASSUME FailuresAfterKey
    PROVE  IdInv /\ [Next]_vars => IdInv'
<1> SUFFICES ASSUME IdInv, [Next]_vars PROVE IdInv'
  OBVIOUS
<1>1. TypeInv'
  BY NextTypeInv DEF IdInv
<1>2. CASE \E r \in Ranks : RankStep(r)
  BY <1>1, <1>2, RankStepIdRest, SMTT(30) DEF IdInv
<1>3. CASE \E u \in Ids : CommInitRankConfig(u)
  <2>1. PICK u \in Ids : CommInitRankConfig(u)
    BY <1>3, SMTT(30)
  <2>2. \A q \in Ranks : CanExchange(q)
    BY <2>1, ZenonT(30) DEF CommInitRankConfig, IdInv, IdRest, CounterInStep
  <2>3. QED
    BY <1>1, <2>1, <2>2, SMTT(30) DEF CommInitRankConfig, IdInv, IdRest, CounterInStep,
       ReadyStore, KeyOfAttempt, StoreHoldsAttempt, IdleClear,
       SameRendezvousId, CanExchange, ValidMethod, env
<1>4. CASE Terminated \/ UNCHANGED vars
  <2>1. UNCHANGED vars
    BY <1>4 DEF Terminated
  <2>2. /\ pc' = pc /\ att' = att /\ counter' = counter /\ kv' = kv
        /\ storeRef' = storeRef /\ key' = key /\ uid' = uid
        /\ extStore' = extStore /\ xchgMethod' = xchgMethod
        /\ tcpEnabled' = tcpEnabled
    BY <2>1 DEF vars
  <2>3. IdRest'
    BY <2>2 DEF IdInv, IdRest, CounterInStep, ReadyStore, KeyOfAttempt,
       StoreHoldsAttempt, IdleClear, SameRendezvousId, CanExchange,
       ValidMethod
  <2>4. QED
    BY <1>1, <2>3 DEF IdInv
<1>5. QED
  BY <1>2, <1>3, <1>4 DEF Next

(***************************************************************************)
(* Identity convergence: when no constructor throws and StoreManager never *)
(* fails (every failure strikes after getXCCLStoreKey), the uniqueId a    *)
(* rank holds is always the one rank 0 generated in the same attempt, so  *)
(* retried bootstraps never join a communicator of an earlier attempt.    *)
(* The run StaleId shows the assumption cannot be dropped.                *)
(***************************************************************************)
THEOREM IdConvergenceTheorem ==
    ASSUME FailuresAfterKey
    PROVE  Spec => []SameRendezvousId
<1>1. Spec => []IdInv
  BY InitIdInv, NextIdInv, PTL DEF Spec
<1>2. QED
  BY <1>1, PTL DEF IdInv, IdRest
=============================================================================
