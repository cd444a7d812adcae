------------------------ MODULE XcclRefinementProofs ------------------------
(***************************************************************************)
(* The bootstraps implement the rendezvous of module Rendezvous under the *)
(* mapping R of XcclBootstrap, for every number of ranks and attempts,    *)
(* when every failure strikes after getXCCLStoreKey.  The argument rests  *)
(* on IdInv of XcclBootstrapProofs (counter_ in step with the attempts,   *)
(* the store holding under key k only the id of attempt k + 1) and on two *)
(* facts about who holds an id before the exchange.                       *)
(***************************************************************************)
EXTENDS XcclBootstrapProofs

\* A rank that has not finished exchangeUniqueIdStore holds no id yet.
HoldsClear == \A r \in Ranks : pc[r] \in {"ready", "get"} => uid[r] = NoId

RefInv == IdInv /\ HoldsClear /\ OnlyOthersGet

USE NAssumption, MaxAttemptsAssumption, SentinelAssumption

LEMMA InitRefInv == Init => RefInv
BY InitIdInv DEF Init, RefInv, HoldsClear, OnlyOthersGet, Ranks

\* What an exchange does to the state the rendezvous sees.
LEMMA ExchangeEffect ==
    ASSUME IdInv, NEW r \in Ranks, ExchangeUniqueId(r)
    PROVE  /\ pc[r] = "ready"
           /\ att' = att
           /\ att[r] - 1 \in Keys
           /\ \/ /\ r = 0
                 /\ kv' = [kv EXCEPT ![att[r] - 1] = att[r]]
                 /\ uid' = [uid EXCEPT ![r] = att[r]]
                 /\ pc' = [pc EXCEPT ![r] = "config"]
              \/ /\ kv' = kv /\ uid' = uid
                 /\ pc' = [pc EXCEPT ![r] = "failed"]
              \/ /\ r # 0 /\ kv' = kv /\ uid' = uid
                 /\ pc' = [pc EXCEPT ![r] = "get"]
<1> USE DEF IdInv, TypeInv, TypeOK, CounterBound, Ranks, Keys, Ids, Attempts
<1>1. CanExchange(r)
  BY DEF ExchangeUniqueId, CanExchange, ValidMethod, IdRest, ReadyStore
<1>2. counter[r] = att[r] - 1 /\ att[r] \in Attempts
  BY <1>1 DEF ExchangeUniqueId, IdRest, CounterInStep
<1>3. QED
  BY <1>2, SMTT(30) DEF ExchangeUniqueId, ExchangeUniqueIdStore, GetXCCLStoreKey, Goto,
     env

LEMMA NextRefInv ==
    ASSUME FailuresAfterKey
    PROVE  RefInv /\ [Next]_vars => RefInv'
<1> SUFFICES ASSUME RefInv, [Next]_vars PROVE RefInv'
  OBVIOUS
<1>1. IdInv'
  BY NextIdInv DEF RefInv
<1>2. HoldsClear' /\ OnlyOthersGet'
  <2> USE DEF RefInv, HoldsClear, OnlyOthersGet, IdInv, TypeInv, TypeOK,
              Ranks, Goto
  <2>1. CASE \E r \in Ranks : RankStep(r)
    <3>1. PICK r \in Ranks : RankStep(r)
      BY <2>1
    <3>2. CASE Construct(r)
      BY <3>2 DEF Construct, IdRest, IdleClear
    <3>3. CASE ExchangeUniqueId(r)
      <4>1. pc[r] = "ready" /\ uid[r] = NoId
        BY <3>3, ExchangeEffect, SMTT(30)
      <4>2. CASE r = 0 /\ uid' = [uid EXCEPT ![r] = att[r]]
                 /\ pc' = [pc EXCEPT ![r] = "config"]
        BY <4>2
      <4>3. CASE uid' = uid /\ pc' = [pc EXCEPT ![r] = "failed"]
        BY <4>3
      <4>4. CASE r # 0 /\ uid' = uid /\ pc' = [pc EXCEPT ![r] = "get"]
        BY <4>1, <4>4
      <4>5. QED
        BY <3>3, <4>2, <4>3, <4>4, ExchangeEffect, SMTT(30)
    <3>4. CASE GetUniqueId(r)
      BY <3>4 DEF GetUniqueId
    <3>5. CASE Destroy(r)
      BY <3>5 DEF Destroy
    <3>6. CASE ConstructFail(r)
      BY <3>6 DEF ConstructFail
    <3>7. CASE ExchangeUniqueIdFail(r)
      BY <3>7 DEF ExchangeUniqueIdFail
    <3>8. CASE GetTimeout(r)
      BY <3>8 DEF GetTimeout
    <3>9. CASE PopulateConfig(r)
      BY <3>9 DEF PopulateConfig
    <3>10. CASE CommInitFail(r)
      BY <3>10 DEF CommInitFail
    <3>11. CASE CleanupTCPStore(r)
      BY <3>11 DEF CleanupTCPStore
    <3>12. CASE StreamSynchronize(r)
      BY <3>12 DEF StreamSynchronize
    <3>13. CASE StreamSynchronizeFail(r)
      BY <3>13 DEF StreamSynchronizeFail
    <3>14. QED
      BY <3>1, <3>2, <3>3, <3>4, <3>5, <3>6, <3>7, <3>8, <3>9, <3>10,
         <3>11, <3>12, <3>13 DEF RankStep
  <2>2. CASE \E u \in Ids : CommInitRankConfig(u)
    BY <2>2 DEF CommInitRankConfig
  <2>3. CASE Terminated \/ UNCHANGED vars
    BY <2>3 DEF Terminated, vars
  <2>4. QED
    BY <2>1, <2>2, <2>3 DEF Next
<1>3. QED
  BY <1>1, <1>2 DEF RefInv

-----------------------------------------------------------------------------
\* A step that keeps the attempts, the ids, the store and who is idle is
\* a stutter of the rendezvous.
LEMMA StutterRefines ==
    ASSUME att' = att, uid' = uid, kv' = kv,
           \A q \in Ranks : (pc'[q] = "idle") <=> (pc[q] = "idle")
    PROVE  UNCHANGED R!avars
BY DEF R!avars

\* Each step of the bootstraps is a step of the rendezvous or a stutter.
LEMMA StepRefines ==
    ASSUME FailuresAfterKey, RefInv, [Next]_vars
    PROVE  [R!Next]_R!avars
<1> USE DEF RefInv, IdInv, TypeInv, TypeOK, Ranks, R!Ranks, Keys, Ids,
            Attempts, Goto
<1>1. CASE \E r \in Ranks : RankStep(r)
  <2>1. PICK r \in Ranks : RankStep(r)
    BY <1>1
  <2>2. CASE Construct(r)
    <3>1. R!Begin(r)
      BY <2>2, ZenonT(30) DEF Construct, R!Begin, IdRest, IdleClear
    <3>2. QED
      BY <3>1 DEF R!Next
  <2>3. CASE ConstructFail(r)
    BY <2>3 DEF ConstructFail, FailuresAfterKey
  <2>4. CASE ExchangeUniqueId(r)
    <3>1. /\ pc[r] = "ready" /\ att' = att /\ att[r] - 1 \in Keys
          /\ \/ /\ r = 0
                /\ kv' = [kv EXCEPT ![att[r] - 1] = att[r]]
                /\ uid' = [uid EXCEPT ![r] = att[r]]
                /\ pc' = [pc EXCEPT ![r] = "config"]
             \/ /\ kv' = kv /\ uid' = uid
                /\ \E l \in {"failed", "get"} : pc' = [pc EXCEPT ![r] = l]
      BY <2>4, ExchangeEffect
    <3>2. CASE r = 0 /\ kv' = [kv EXCEPT ![att[r] - 1] = att[r]]
                     /\ uid' = [uid EXCEPT ![r] = att[r]]
                     /\ pc' = [pc EXCEPT ![r] = "config"]
      <4>1. kv[att[0] - 1] \in {NoValue, att[0]}
        BY <3>1, <3>2 DEF IdRest, StoreHoldsAttempt
      <4>2. ({kv'[k] : k \in Keys} \ {NoValue})
              = ({kv[k] : k \in Keys} \ {NoValue}) \cup {att[0]}
        <5>1. att[0] # NoValue
          BY <3>1, <3>2
        <5>2. QED
          BY <3>1, <3>2, <4>1, <5>1
      <4>3. uid[0] = NoId
        BY <3>1, <3>2 DEF HoldsClear
      <4>4. R!Generate
        BY <3>1, <3>2, <4>2, <4>3 DEF R!Generate
      <4>5. QED
        BY <4>4 DEF R!Next
    <3>3. CASE kv' = kv /\ uid' = uid
               /\ \E l \in {"failed", "get"} : pc' = [pc EXCEPT ![r] = l]
      BY <3>1, <3>3, StutterRefines, SMTT(30)
    <3>4. QED
      BY <3>1, <3>2, <3>3
  <2>5. CASE GetUniqueId(r)
    <3>1. r # 0 /\ key[r] = att[r] - 1 /\ key[r] \in Keys
      BY <2>5 DEF GetUniqueId, OnlyOthersGet, IdRest, KeyOfAttempt, KeyHeld
    <3>2. kv[key[r]] = att[r]
      BY <2>5, <3>1, SMTT(30) DEF GetUniqueId, IdRest, StoreHoldsAttempt
    <3>3. uid[r] = NoId
      BY <2>5 DEF GetUniqueId, HoldsClear
    <3>4. R!Learn(r)
      BY <2>5, <3>1, <3>2, <3>3, SMTT(30) DEF GetUniqueId, R!Learn
    <3>5. QED
      BY <3>4 DEF R!Next
  <2>6. CASE Destroy(r)
    <3>1. R!End(r)
      BY <2>6, ZenonT(30) DEF Destroy, R!End
    <3>2. QED
      BY <3>1 DEF R!Next
  <2>7. CASE \/ ExchangeUniqueIdFail(r) \/ GetTimeout(r) \/ PopulateConfig(r)
             \/ CommInitFail(r) \/ CleanupTCPStore(r)
             \/ StreamSynchronize(r) \/ StreamSynchronizeFail(r)
    <3>1. /\ att' = att /\ uid' = uid /\ kv' = kv
          /\ pc[r] # "idle"
          /\ \E l \in PCs \ {"idle"} : pc' = [pc EXCEPT ![r] = l]
      BY <2>7 DEF ExchangeUniqueIdFail, GetTimeout, PopulateConfig,
         CommInitFail, CleanupTCPStore, StreamSynchronize,
         StreamSynchronizeFail, PCs
    <3>2. QED
      BY <3>1, StutterRefines
  <2>8. QED
    BY <2>1, <2>2, <2>3, <2>4, <2>5, <2>6, <2>7 DEF RankStep
<1>2. CASE \E u \in Ids : CommInitRankConfig(u)
  BY <1>2, StutterRefines DEF CommInitRankConfig
<1>3. CASE Terminated \/ UNCHANGED vars
  BY <1>3, StutterRefines DEF Terminated, vars
<1>4. QED
  BY <1>1, <1>2, <1>3 DEF Next

(***************************************************************************)
(* Refinement (the property RendezvousRefined of the run IdConvergence):  *)
(* when no constructor throws and StoreManager never fails, every         *)
(* behaviour of the bootstraps is a behaviour of the rendezvous: a rank   *)
(* only ever learns the id rank 0 published for the same attempt, and a   *)
(* published id is never withdrawn.                                       *)
(***************************************************************************)
THEOREM RendezvousRefinement ==
    ASSUME FailuresAfterKey
    PROVE  Spec => RendezvousRefined
<1>1. Init => R!Init
  BY DEF Init, R!Init, Ranks, R!Ranks, Keys
<1>2. Spec => []RefInv
  BY InitRefInv, NextRefInv, PTL DEF Spec
<1>3. RefInv /\ [Next]_vars => [R!Next]_R!avars
  BY StepRefines
<1>4. QED
  BY <1>1, <1>2, <1>3, PTL DEF Spec, RendezvousRefined, R!Spec
=============================================================================
