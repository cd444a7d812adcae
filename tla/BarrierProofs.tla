--------------------------- MODULE BarrierProofs ---------------------------
(***************************************************************************)
(* Barrier safety of cleanupTCPStore (StoreReleasedOnReturn) for every    *)
(* number of ranks and attempts and every set of failures except a        *)
(* failing barrier allreduce, whose effect the run BarrierHang shows.     *)
(* The argument: a communicator's id is rank 0's attempt number when the  *)
(* collective init completes, and rank 0's attempts only grow, so a rank  *)
(* entering cleanup has never issued a barrier on its id; a rank that     *)
(* returns after waiting on the barrier therefore knows every peer of     *)
(* that communicator is past cleanup, where its store was dropped.        *)
(***************************************************************************)
EXTENDS XcclBootstrapProofs

\* The barrier allreduce never fails.
BarrierReliable == "allReduce" \notin Faults

\* A freshly constructed bootstrap has not created a store.
ReadyExternal == \A r \in Ranks : pc[r] = "ready" => ~internal[r]

\* Past the exchange, a rank created its own store exactly when no store
\* was supplied, which is the same for every rank.
UniformInternal ==
    \A r \in Ranks :
        pc[r] \in {"get", "config", "commInit", "cleanup", "sync", "done"}
            => (internal[r] <=> ~extStore)

\* cleanupTCPStore drops an internal store before the barrier.
SyncReleased ==
    \A r \in Ranks :
        pc[r] \in {"sync", "done"} /\ internal[r] => storeRef[r] = NoStore

\* A rank waiting on the barrier has issued it.
SyncReduced ==
    \A r \in Ranks : pc[r] = "sync" /\ internal[r] => uid[r] \in reduced[r]

\* Rank 0's id past the exchange is its own attempt number.
RankZeroId ==
    pc[0] \in {"config", "commInit", "cleanup", "sync", "done"}
        => uid[0] = att[0]

\* An id no later than rank 0's current rendezvous, and not that one while
\* rank 0 has still to reach the collective init.
Before0(v) ==
    \/ v < att[0]
    \/ v = att[0] /\ pc[0] \notin {"ready", "config", "commInit"}

\* Barriers were issued only on communicators that rank 0 has joined.
ReducedBefore == \A q \in Ranks : \A v \in reduced[q] : Before0(v)

\* A rank past the collective init holds the id of such a communicator.
CommBefore ==
    \A q \in Ranks :
        pc[q] \in {"cleanup", "sync", "done"}
            => uid[q] \in Ids /\ Before0(uid[q])

\* A rank entering cleanup has not issued the barrier on its communicator.
CleanupFresh ==
    \A q \in Ranks : pc[q] = "cleanup" => uid[q] \notin reduced[q]

\* Once a rank returned past the barrier, no peer of its communicator is
\* still in cleanup.
DoneAhead ==
    \A r, q \in Ranks :
        pc[r] = "done" /\ internal[r] /\ pc[q] = "cleanup"
            => uid[q] # uid[r]

BarrierRest ==
    /\ ReadyStore
    /\ OnlyOthersGet
    /\ ReadyExternal
    /\ UniformInternal
    /\ SyncReleased
    /\ SyncReduced
    /\ RankZeroId
    /\ ReducedBefore
    /\ CommBefore
    /\ CleanupFresh
    /\ DoneAhead

BarrierInv == TypeInv /\ BarrierRest
-----------------------------------------------------------------------------
USE NAssumption, MaxAttemptsAssumption, SentinelAssumption

LEMMA InitBarrierInv == Init => BarrierInv
BY InitTypeInv, SMTT(30) DEF Init, BarrierInv, BarrierRest, ReadyStore, OnlyOthersGet,
   ReadyExternal,
   UniformInternal, SyncReleased, SyncReduced, RankZeroId, ReducedBefore,
   CommBefore, CleanupFresh, DoneAhead, Ranks

\* Each rank's step preserves BarrierRest when the barrier never fails.
LEMMA RankStepBarrierRest ==
    ASSUME BarrierReliable, TypeInv, BarrierRest, TypeInv',
           NEW r \in Ranks, RankStep(r)
    PROVE  BarrierRest'
<1> SUFFICES /\ ReadyStore' /\ OnlyOthersGet' /\ ReadyExternal'
             /\ UniformInternal'
             /\ SyncReleased' /\ SyncReduced' /\ RankZeroId'
             /\ ReducedBefore' /\ CommBefore' /\ CleanupFresh' /\ DoneAhead'
  BY DEF BarrierRest
<1> USE DEF TypeInv, TypeOK, Ranks, Ids, Attempts, PCs, Goto, env,
            BarrierRest, ReadyStore, OnlyOthersGet, ReadyExternal,
            UniformInternal,
            SyncReleased, SyncReduced, RankZeroId, ReducedBefore, Before0,
            CommBefore, CleanupFresh, DoneAhead
<1>1. CASE Construct(r)
  <2>1. ReadyStore'
    BY <1>1 DEF Construct
  <2>2. OnlyOthersGet'
    BY <1>1 DEF Construct
  <2>3. ReadyExternal'
    BY <1>1 DEF Construct
  <2>4. UniformInternal'
    BY <1>1, SMTT(30) DEF Construct
  <2>5. SyncReleased'
    BY <1>1 DEF Construct
  <2>6. SyncReduced'
    BY <1>1 DEF Construct
  <2>7. RankZeroId'
    BY <1>1 DEF Construct
  <2>8. ReducedBefore'
    BY <1>1 DEF Construct
  <2>9. CommBefore'
    BY <1>1, SMTT(30) DEF Construct
  <2>10. CleanupFresh'
    BY <1>1 DEF Construct
  <2>11. DoneAhead'
    BY <1>1 DEF Construct
  <2>12. QED
    BY <2>1, <2>2, <2>3, <2>4, <2>5, <2>6, <2>7, <2>8, <2>9, <2>10, <2>11
<1>2. CASE ConstructFail(r)
  <2>1. ReadyStore'
    BY <1>2 DEF ConstructFail
  <2>2. OnlyOthersGet'
    BY <1>2 DEF ConstructFail
  <2>3. ReadyExternal'
    BY <1>2 DEF ConstructFail
  <2>4. UniformInternal'
    BY <1>2, SMTT(30) DEF ConstructFail
  <2>5. SyncReleased'
    BY <1>2 DEF ConstructFail
  <2>6. SyncReduced'
    BY <1>2 DEF ConstructFail
  <2>7. RankZeroId'
    BY <1>2 DEF ConstructFail
  <2>8. ReducedBefore'
    BY <1>2, SMTT(30) DEF ConstructFail
  <2>9. CommBefore'
    BY <1>2, SMTT(30) DEF ConstructFail
  <2>10. CleanupFresh'
    BY <1>2 DEF ConstructFail
  <2>11. DoneAhead'
    BY <1>2 DEF ConstructFail
  <2>12. QED
    BY <2>1, <2>2, <2>3, <2>4, <2>5, <2>6, <2>7, <2>8, <2>9, <2>10, <2>11
<1>3. CASE ExchangeUniqueId(r)
  <2>0. /\ pc[r] = "ready" /\ pc'[r] \in {"config", "failed", "get"}
        /\ \A q \in Ranks \ {r} : /\ pc'[q] = pc[q] /\ uid'[q] = uid[q]
                                  /\ storeRef'[q] = storeRef[q]
                                  /\ internal'[q] = internal[q]
        /\ pc'[r] = "config" => r = 0 /\ uid'[r] = att[r]
        /\ pc'[r] = "get" => r # 0
        /\ internal'[r] = ~extStore
        /\ UNCHANGED <<att, reduced, extStore>>
    <3>1. /\ pc[r] = "ready"
          /\ \/ /\ r = 0 /\ uid' = [uid EXCEPT ![r] = att[r]]
                /\ pc' = [pc EXCEPT ![r] = "config"]
             \/ /\ uid' = uid /\ pc' = [pc EXCEPT ![r] = "failed"]
             \/ /\ r # 0 /\ uid' = uid /\ pc' = [pc EXCEPT ![r] = "get"]
          /\ \/ /\ storeRef[r] # NoStore /\ storeRef' = storeRef
                /\ internal' = internal
             \/ /\ storeRef[r] = NoStore
                /\ storeRef' = [storeRef EXCEPT ![r] = att[r]]
                /\ internal' = [internal EXCEPT ![r] = TRUE]
          /\ UNCHANGED <<att, reduced, extStore>>
      BY <1>3 DEF ExchangeUniqueId, ExchangeUniqueIdStore, GetXCCLStoreKey
    <3>2. internal' = [internal EXCEPT ![r] = ~extStore]
      BY <3>1, SentinelAssumption
    <3>3. QED
      BY <3>1, <3>2, SMTT(30)
  <2>1. ReadyStore'
    <3>1. SUFFICES ASSUME NEW q \in Ranks, pc'[q] = "ready"
                   PROVE  storeRef'[q] = IF extStore' THEN ExtStore ELSE NoStore
      OBVIOUS
    <3>2. q # r
      BY <2>0, <3>1
    <3>3. QED
      BY <2>0, <3>1, <3>2, SMTT(30)
  <2>2. OnlyOthersGet'
    BY <2>0
  <2>3. ReadyExternal'
    BY <2>0, SMTT(30)
  <2>4. UniformInternal'
    BY <2>0, SMTT(30)
  <2>5. SyncReleased'
    BY <2>0, SMTT(30)
  <2>6. SyncReduced'
    BY <2>0
  <2>7. RankZeroId'
    BY <2>0
  <2>8. ReducedBefore'
    BY <2>0, SMTT(30)
  <2>9. CommBefore'
    BY <2>0, SMTT(30)
  <2>10. CleanupFresh'
    BY <2>0
  <2>11. DoneAhead'
    <3>1. SUFFICES ASSUME NEW p \in Ranks, NEW q \in Ranks, pc'[p] = "done",
                          internal'[p], pc'[q] = "cleanup"
                   PROVE  uid'[q] # uid'[p]
      OBVIOUS
    <3>2. p # r /\ q # r
      BY <2>0, <3>1, SMTT(30)
    <3>3. QED
      BY <2>0, <3>1, <3>2
  <2>12. QED
    BY <2>1, <2>2, <2>3, <2>4, <2>5, <2>6, <2>7, <2>8, <2>9, <2>10, <2>11
<1>4. CASE ExchangeUniqueIdFail(r)
  BY <1>4, SMTT(30) DEF ExchangeUniqueIdFail
<1>5. CASE GetUniqueId(r)
  <2>0. /\ r # 0 /\ pc[r] = "get"
        /\ uid' = [uid EXCEPT ![r] = kv[key[r]]]
        /\ pc' = [pc EXCEPT ![r] = "config"]
        /\ UNCHANGED <<att, storeRef, internal, reduced, extStore>>
    BY <1>5 DEF GetUniqueId
  <2>1. ReadyStore'
    BY <2>0
  <2>2. OnlyOthersGet'
    BY <2>0
  <2>3. ReadyExternal'
    BY <2>0
  <2>4. UniformInternal'
    BY <2>0, SMTT(30)
  <2>5. SyncReleased'
    BY <2>0
  <2>6. SyncReduced'
    BY <2>0
  <2>7. RankZeroId'
    BY <2>0
  <2>8. ReducedBefore'
    BY <2>0
  <2>9. CommBefore'
    BY <2>0
  <2>10. CleanupFresh'
    BY <2>0
  <2>11. DoneAhead'
    BY <2>0
  <2>12. QED
    BY <2>1, <2>2, <2>3, <2>4, <2>5, <2>6, <2>7, <2>8, <2>9, <2>10, <2>11
<1>6. CASE GetTimeout(r)
  BY <1>6, SMTT(30) DEF GetTimeout
<1>7. CASE PopulateConfig(r)
  <2>0. /\ pc[r] = "config" /\ pc'[r] \in {"commInit", "failed"}
        /\ pc' = [pc EXCEPT ![r] = pc'[r]]
        /\ UNCHANGED <<att, uid, storeRef, internal, reduced, extStore>>
    BY <1>7 DEF PopulateConfig
  <2>1. ReadyStore'
    BY <2>0
  <2>2. OnlyOthersGet'
    BY <2>0
  <2>3. ReadyExternal'
    BY <2>0
  <2>4. UniformInternal'
    BY <2>0, SMTT(30)
  <2>5. SyncReleased'
    BY <2>0, SMTT(30)
  <2>6. SyncReduced'
    BY <2>0
  <2>7. RankZeroId'
    BY <2>0
  <2>8. ReducedBefore'
    BY <2>0, SMTT(30)
  <2>9. CommBefore'
    BY <2>0, SMTT(30)
  <2>10. CleanupFresh'
    BY <2>0, SMTT(30)
  <2>11. DoneAhead'
    BY <2>0, ZenonT(30)
  <2>12. QED
    BY <2>1, <2>2, <2>3, <2>4, <2>5, <2>6, <2>7, <2>8, <2>9, <2>10, <2>11
<1>8. CASE CommInitFail(r)
  BY <1>8, SMTT(30) DEF CommInitFail
<1>9. CASE CleanupTCPStore(r)
  <2>1. CASE internal[r]
    <3>0. /\ pc[r] = "cleanup"
          /\ storeRef' = [storeRef EXCEPT ![r] = NoStore]
          /\ reduced' = [reduced EXCEPT ![r] = @ \cup {uid[r]}]
          /\ pc' = [pc EXCEPT ![r] = "sync"]
          /\ UNCHANGED <<att, uid, internal, extStore>>
      BY <1>9, <2>1 DEF CleanupTCPStore, BarrierReliable
    <3>1. ReadyStore'
      BY <2>1, <3>0
    <3>2. OnlyOthersGet'
      BY <2>1, <3>0
    <3>3. ReadyExternal'
      BY <2>1, <3>0
    <3>4. UniformInternal'
      BY <2>1, <3>0
    <3>5. SyncReleased'
      BY <2>1, <3>0
    <3>6. SyncReduced'
      BY <2>1, <3>0, SMTT(30)
    <3>7. RankZeroId'
      BY <2>1, <3>0
    <3>8. ReducedBefore'
      BY <2>1, <3>0
    <3>9. CommBefore'
      BY <2>1, <3>0
    <3>10. CleanupFresh'
      BY <2>1, <3>0
    <3>11. DoneAhead'
      BY <2>1, <3>0, SMTT(30)
    <3>12. QED
      BY <3>1, <3>2, <3>3, <3>4, <3>5, <3>6, <3>7, <3>8, <3>9, <3>10, <3>11
  <2>2. CASE ~internal[r]
    <3>0. /\ pc[r] = "cleanup"
          /\ pc' = [pc EXCEPT ![r] = "done"]
          /\ UNCHANGED <<att, uid, internal, storeRef, reduced, extStore>>
      BY <1>9, <2>2 DEF CleanupTCPStore
    <3>1. ReadyStore'
      BY <2>2, <3>0
    <3>2. OnlyOthersGet'
      BY <2>2, <3>0
    <3>3. ReadyExternal'
      BY <2>2, <3>0
    <3>4. UniformInternal'
      BY <2>2, <3>0
    <3>5. SyncReleased'
      BY <2>2, <3>0
    <3>6. SyncReduced'
      BY <2>2, <3>0
    <3>7. RankZeroId'
      BY <2>2, <3>0
    <3>8. ReducedBefore'
      BY <2>2, <3>0
    <3>9. CommBefore'
      BY <2>2, <3>0
    <3>10. CleanupFresh'
      BY <2>2, <3>0
    <3>11. DoneAhead'
      BY <2>2, <3>0, SMTT(30)
    <3>12. QED
      BY <3>1, <3>2, <3>3, <3>4, <3>5, <3>6, <3>7, <3>8, <3>9, <3>10, <3>11, SMTT(30)
  <2>3. QED
    BY <2>1, <2>2, SMTT(30)
<1>10. CASE StreamSynchronize(r)
  BY <1>10, SMTT(30) DEF StreamSynchronize
<1>11. CASE StreamSynchronizeFail(r)
  BY <1>11, SMTT(30) DEF StreamSynchronizeFail
<1>12. CASE Destroy(r)
  BY <1>12, SMTT(30) DEF Destroy
<1>13. QED
  BY <1>1, <1>2, <1>3, <1>4, <1>5, <1>6, <1>7, <1>8, <1>9, <1>10, <1>11,
     <1>12 DEF RankStep

LEMMA NextBarrierInv ==
    ASSUME BarrierReliable
    PROVE  BarrierInv /\ [Next]_vars => BarrierInv'
<1> SUFFICES ASSUME BarrierInv, [Next]_vars PROVE BarrierInv'
  OBVIOUS
<1>1. TypeInv'
  BY NextTypeInv DEF BarrierInv
<1>2. CASE \E r \in Ranks : RankStep(r)
  BY <1>1, <1>2, RankStepBarrierRest DEF BarrierInv
<1>3. CASE \E u \in Ids : CommInitRankConfig(u)
  <2> USE DEF BarrierInv, TypeInv, TypeOK, Ranks, Ids, Attempts
  <2>1. PICK u \in Ids : CommInitRankConfig(u)
    BY <1>3
  <2>2. /\ \A q \in Ranks : pc[q] = "commInit" /\ uid[q] = u
        /\ pc' = [q \in Ranks |-> "cleanup"]
        /\ UNCHANGED <<att, storeRef, internal, uid, reduced, extStore>>
    BY <2>1 DEF CommInitRankConfig, env
  \* The collective's id is rank 0's current attempt, on which no rank has
  \* issued a barrier yet.
  <2>3. u = att[0]
    BY <2>2 DEF BarrierRest, RankZeroId
  <2>4. \A q \in Ranks : \A v \in reduced[q] : v < att[0]
    BY <2>2 DEF BarrierRest, ReducedBefore, Before0
  <2>5. CleanupFresh'
    BY <2>2, <2>3, <2>4 DEF CleanupFresh
  <2>6. CommBefore' /\ ReducedBefore'
    BY <2>2, <2>3, <2>4 DEF CommBefore, ReducedBefore, Before0
  <2>7. /\ ReadyStore' /\ OnlyOthersGet' /\ ReadyExternal' /\ SyncReleased'
        /\ SyncReduced' /\ RankZeroId' /\ DoneAhead'
    BY <2>2, <2>3 DEF ReadyStore, OnlyOthersGet, ReadyExternal, SyncReleased,
       SyncReduced, RankZeroId, DoneAhead
  <2>8. UniformInternal'
    BY <2>2, SMTT(30) DEF BarrierRest, UniformInternal
  <2>9. QED
    BY <1>1, <2>5, <2>6, <2>7, <2>8, SMTT(30) DEF BarrierRest
<1>4. CASE Terminated \/ UNCHANGED vars
  BY <1>1, <1>4 DEF Terminated, vars, BarrierInv, BarrierRest, ReadyStore,
     OnlyOthersGet, ReadyExternal, UniformInternal, SyncReleased, SyncReduced,
     RankZeroId, ReducedBefore, Before0, CommBefore, CleanupFresh, DoneAhead
<1>5. QED
  BY <1>2, <1>3, <1>4 DEF Next

(***************************************************************************)
(* Barrier safety (the property StoreReleasedOnReturn of the run          *)
(* BarrierSafety): when the barrier allreduce of cleanupTCPStore never    *)
(* fails, createXcclComm returns on a rank that created its own store     *)
(* only after every member of the new communicator has dropped its store. *)
(* A peer still in cleanup would hold the same id, which DoneAhead        *)
(* excludes; a peer past cleanup created its store as the returning rank  *)
(* did (UniformInternal) and dropped it (SyncReleased).                   *)
(***************************************************************************)
THEOREM BarrierSafetyTheorem ==
    ASSUME BarrierReliable
    PROVE  Spec => []StoreReleasedOnReturn
<1>1. Spec => []BarrierInv
  BY InitBarrierInv, NextBarrierInv, PTL DEF Spec
<1>2. BarrierInv => StoreReleasedOnReturn
  BY DEF BarrierInv, BarrierRest, StoreReleasedOnReturn, DoneAhead,
     UniformInternal, SyncReleased, TypeInv, TypeOK
<1>3. QED
  BY <1>1, <1>2, PTL
=============================================================================
