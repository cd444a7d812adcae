------------------------------ MODULE HintProofs ------------------------------
(***************************************************************************)
(* Proofs about the configuration populateXcclConfigFromHints builds: the  *)
(* types, and that the call throws exactly on a rejected integer hint and  *)
(* otherwise hands the backend a config that holds every hint.  std::stoi  *)
(* is never unfolded: the proofs only use that what it returns lies in    *)
(* the range of int.                                                      *)
(***************************************************************************)
EXTENDS HintTranslation, FiniteSetTheorems, TLAPS

\* The keys the loop has already visited.
Visited == {order[i] : i \in 1 .. pos - 1}

\* The values the visited spellings of an integer field gave it.
VisitedValues(f) ==
    {Stoi(hints[k]).value : k \in {j \in Visited \cap IntKeys : FieldOf(j) = f}}

\* The inductive invariant: what the loop has done with the visited prefix.
HInv ==
    /\ TypeOK
    /\ DOMAIN config = IntFields \cup StrFields
    /\ \E n \in 1 .. Cardinality(dups) : dups = 1 .. n
    /\ \A k \in DOMAIN hints : \E i \in 1 .. Len(order) : order[i] = k
    /\ \A k \in Visited \cap IntKeys : Stoi(hints[k]).thrown = "none"
    /\ \A f \in IntFields :
          IF VisitedValues(f) = {} THEN config[f] = Unset
                                   ELSE config[f] \in VisitedValues(f)
    /\ \A k \in Visited \cap StrKeys : config[FieldOf(k)] \in dups \ {1}
    /\ status = "threw" =>
          /\ pos <= Len(order)
          /\ order[pos] \in IntKeys
          /\ Stoi(hints[order[pos]]).thrown # "none"
    /\ status = "done" => pos = Len(order) + 1
-----------------------------------------------------------------------------
\* No key is both an integer and a string hint, and no field is both.
LEMMA AliasesDisjoint ==
    IntKeys \cap StrKeys = {} /\ IntFields \cap StrFields = {}
BY DEF IntKeys, StrKeys, IntFields, StrFields, IntAliases, StrAliases

\* The chain of comparisons sends an integer key to an integer field and a
\* string key to a string field.
LEMMA FieldOfType ==
    /\ \A k \in IntKeys : FieldOf(k) \in IntFields
    /\ \A k \in StrKeys : FieldOf(k) \in StrFields
<1>1. ASSUME NEW k \in IntKeys PROVE FieldOf(k) \in IntFields
  <2>1. PICK a \in IntAliases : a[1] = k
    BY DEF IntKeys
  <2>2. a = <<k, a[2]>> /\ a[2] \in IntFields
    BY <2>1 DEF IntAliases, IntFields
  <2>3. /\ FieldOf(k) \in IntFields \cup StrFields
        /\ <<k, FieldOf(k)>> \in IntAliases \cup StrAliases
    BY <2>2 DEF FieldOf
  <2>4. <<k, FieldOf(k)>> \notin StrAliases
    BY AliasesDisjoint DEF StrKeys
  <2>. QED
    BY <2>3, <2>4 DEF IntFields
<1>2. ASSUME NEW k \in StrKeys PROVE FieldOf(k) \in StrFields
  <2>1. PICK a \in StrAliases : a[1] = k
    BY DEF StrKeys
  <2>2. a = <<k, a[2]>> /\ a[2] \in StrFields
    BY <2>1 DEF StrAliases, StrFields
  <2>3. /\ FieldOf(k) \in IntFields \cup StrFields
        /\ <<k, FieldOf(k)>> \in IntAliases \cup StrAliases
    BY <2>2 DEF FieldOf
  <2>4. <<k, FieldOf(k)>> \notin IntAliases
    BY AliasesDisjoint DEF IntKeys
  <2>. QED
    BY <2>3, <2>4 DEF StrFields
<1>. QED
  BY <1>1, <1>2

\* What std::stoi returns without throwing is an int.
LEMMA StoiRange ==
    ASSUME NEW s, Stoi(s).thrown = "none"
    PROVE  Stoi(s).value \in IntMin .. IntMax
BY DEF Stoi, Thrown, Returned

LEMMA InitHInv == Init => HInv
<1>. SUFFICES ASSUME Init PROVE HInv
  OBVIOUS
<1>1. PICK K \in SUBSET HintKeys :
          /\ IsFiniteSet(K)
          /\ hints \in [K -> Values]
          /\ order \in Orders(K)
  BY DEF Init
<1>2. Cardinality(K) \in Nat
  BY <1>1, FS_CardinalityType
<1>3. /\ order \in Seq(DOMAIN hints)
      /\ Len(order) = Cardinality(K)
      /\ \A k \in DOMAIN hints : \E i \in 1 .. Len(order) : order[i] = k
  BY <1>1, <1>2 DEF Orders
<1>4. Visited = {}
  BY DEF Init, Visited
<1>5. \A f \in IntFields : config[f] = Unset
  BY AliasesDisjoint DEF Init, StrFields, StrAliases
<1>6. /\ \A f \in StrFields : config[f] \in Nat \cup {Unset}
      /\ DOMAIN config = IntFields \cup StrFields
  BY DEF Init
<1>7. \E n \in 1 .. Cardinality(dups) : dups = 1 .. n
  <2>1. dups = {1} /\ Cardinality({1}) = 1
    BY FS_Singleton, SMTT(30) DEF Init
  <2>. QED
    BY <2>1
<1>8. TypeOK
  BY <1>1, <1>3, <1>5, <1>6 DEF Init, TypeOK
<1>. QED
  BY <1>3, <1>4, <1>5, <1>6, <1>7, <1>8, SMTT(30) DEF Init, HInv, VisitedValues

\* The facts about the current hint that every iteration uses.
LEMMA CurrentHint ==
    ASSUME HInv, pos <= Len(order)
    PROVE  /\ Len(order) \in Nat
           /\ pos \in 1 .. Len(order)
           /\ order[pos] \in DOMAIN hints
BY DEF HInv, TypeOK

\* An iteration that moves on adds the current key to the visited ones.
LEMMA VisitedStep ==
    ASSUME HInv, pos <= Len(order), pos' = pos + 1, order' = order
    PROVE  Visited' = Visited \cup {order[pos]}
<1>1. pos \in 1 .. Len(order) /\ Len(order) \in Nat
  BY CurrentHint
<1>2. 1 .. pos = (1 .. pos - 1) \cup {pos}
  BY <1>1
<1>. QED
  BY <1>1, <1>2 DEF Visited

LEMMA VisitedValuesStep ==
    ASSUME HInv, pos <= Len(order), pos' = pos + 1,
           UNCHANGED <<order, hints>>, NEW f
    PROVE  VisitedValues(f)' =
             IF order[pos] \in IntKeys /\ FieldOf(order[pos]) = f
               THEN VisitedValues(f) \cup {Stoi(hints[order[pos]]).value}
               ELSE VisitedValues(f)
BY VisitedStep DEF VisitedValues

\* An integer hint std::stoi accepts sets its field.
LEMMA ApplyIntHInv ==
    ASSUME HInv, status = "running", pos <= Len(order),
           order[pos] \in IntKeys,
           Stoi(hints[order[pos]]).thrown = "none",
           config' = [config EXCEPT ![FieldOf(order[pos])] =
                                      Stoi(hints[order[pos]]).value],
           pos' = pos + 1,
           UNCHANGED <<dups, status, hints, order>>
    PROVE  HInv'
<1>. DEFINE k == order[pos]
            v == Stoi(hints[k]).value
<1>1. /\ FieldOf(k) \in IntFields
      /\ FieldOf(k) \notin StrFields
      /\ k \notin StrKeys
      /\ v \in IntMin .. IntMax
  BY StoiRange, FieldOfType, AliasesDisjoint DEF k, v
<1>2. Visited' = Visited \cup {k}
  BY VisitedStep DEF k
<1>3. /\ DOMAIN config' = IntFields \cup StrFields
      /\ config'[FieldOf(k)] = v
      /\ \A f \in DOMAIN config \ {FieldOf(k)} : config'[f] = config[f]
  BY <1>1, SMTT(30) DEF HInv, k, v
<1>4. TypeOK'
  <2>1. pos' \in 1 .. Len(order') + 1
    BY CurrentHint
  <2>2. \A f \in IntFields : config'[f] \in (IntMin .. IntMax) \cup {Unset}
    BY <1>1, <1>3 DEF HInv, TypeOK
  <2>3. \A f \in StrFields : config'[f] \in Nat \cup {Unset}
    BY <1>1, <1>3 DEF HInv, TypeOK
  <2>. QED
    BY <2>1, <2>2, <2>3, SMTT(30) DEF HInv, TypeOK
<1>5. ASSUME NEW f \in IntFields
      PROVE  IF VisitedValues(f)' = {} THEN config'[f] = Unset
                                       ELSE config'[f] \in VisitedValues(f)'
  <2>1. CASE f = FieldOf(k)
    BY <2>1, <1>3, VisitedValuesStep DEF k, v
  <2>2. CASE f # FieldOf(k)
    <3>1. VisitedValues(f)' = VisitedValues(f) /\ config'[f] = config[f]
      BY <2>2, <1>3, VisitedValuesStep, SMTT(30) DEF k
    <3>. QED
      BY <3>1 DEF HInv
  <2>. QED
    BY <2>1, <2>2
<1>6. \A j \in Visited' \cap StrKeys : config'[FieldOf(j)] \in dups' \ {1}
  <2>1. SUFFICES ASSUME NEW j \in Visited' \cap StrKeys
                 PROVE  config'[FieldOf(j)] \in dups \ {1}
    OBVIOUS
  <2>2. j \in Visited /\ FieldOf(j) \in StrFields
    BY <1>1, <1>2, FieldOfType, SMTT(30)
  <2>. QED
    BY <2>2, <1>1, <1>3 DEF HInv
<1>7. \A j \in Visited' \cap IntKeys : Stoi(hints[j]).thrown = "none"
  BY <1>2 DEF HInv, k
<1>. QED
  BY <1>4, <1>5, <1>6, <1>7, <1>3, SMTT(30) DEF HInv

\* strdup returns a string no other field holds: dups stays 1 .. n.
LEMMA DupFresh ==
    ASSUME HInv
    PROVE  /\ Cardinality(dups) + 1 \in Nat \ {0, 1}
           /\ Cardinality(dups) + 1 \notin dups
           /\ \E n \in 1 .. Cardinality(dups \cup {Cardinality(dups) + 1}) :
                 dups \cup {Cardinality(dups) + 1} = 1 .. n
<1>1. PICK n \in 1 .. Cardinality(dups) : dups = 1 .. n
  BY DEF HInv
<1>2. n \in Nat \ {0} /\ Cardinality(dups) = n
  BY <1>1, FS_Interval
<1>3. dups \cup {n + 1} = 1 .. n + 1 /\ Cardinality(1 .. n + 1) = n + 1
  BY <1>1, <1>2, FS_Interval
<1>4. n + 1 \in 1 .. Cardinality(dups \cup {n + 1})
  BY <1>2, <1>3
<1>5. n + 1 \in Nat \ {0, 1} /\ n + 1 \notin dups
  BY <1>1, <1>2
<1>. QED
  BY <1>2, <1>3, <1>4, <1>5, SMTT(30)

\* A string hint is strdup'ed into its field.
LEMMA ApplyStrHInv ==
    ASSUME HInv, status = "running", pos <= Len(order),
           order[pos] \in StrKeys,
           config' = [config EXCEPT ![FieldOf(order[pos])] =
                                      Cardinality(dups) + 1],
           dups' = dups \cup {Cardinality(dups) + 1},
           pos' = pos + 1,
           UNCHANGED <<status, hints, order>>
    PROVE  HInv'
<1>. DEFINE k == order[pos]
            dup == Cardinality(dups) + 1
<1>1. /\ FieldOf(k) \in StrFields
      /\ FieldOf(k) \notin IntFields
      /\ k \notin IntKeys
  BY FieldOfType, AliasesDisjoint DEF k
<1>2. Visited' = Visited \cup {k}
  BY VisitedStep DEF k
<1>3. /\ DOMAIN config' = IntFields \cup StrFields
      /\ config'[FieldOf(k)] = dup
      /\ \A f \in DOMAIN config \ {FieldOf(k)} : config'[f] = config[f]
  BY <1>1 DEF HInv, k, dup
<1>4. /\ dup \in Nat \ {0, 1}
      /\ \E n \in 1 .. Cardinality(dups') : dups' = 1 .. n
  BY DupFresh DEF dup
<1>5. TypeOK'
  <2>1. pos' \in 1 .. Len(order') + 1
    BY CurrentHint
  <2>2. \A f \in IntFields : config'[f] \in (IntMin .. IntMax) \cup {Unset}
    BY <1>1, <1>3 DEF HInv, TypeOK
  <2>3. \A f \in StrFields : config'[f] \in Nat \cup {Unset}
    BY <1>1, <1>3, <1>4 DEF HInv, TypeOK
  <2>4. dups' \subseteq Nat \ {0}
    BY <1>4 DEF HInv, TypeOK
  <2>. QED
    BY <2>1, <2>2, <2>3, <2>4 DEF HInv, TypeOK
<1>6. ASSUME NEW f \in IntFields
      PROVE  IF VisitedValues(f)' = {} THEN config'[f] = Unset
                                       ELSE config'[f] \in VisitedValues(f)'
  <2>1. VisitedValues(f)' = VisitedValues(f) /\ config'[f] = config[f]
    BY <1>1, <1>3, VisitedValuesStep DEF k
  <2>. QED
    BY <2>1 DEF HInv
<1>7. ASSUME NEW j \in Visited' \cap StrKeys
      PROVE  config'[FieldOf(j)] \in dups' \ {1}
  <2>1. CASE FieldOf(j) = FieldOf(k)
    BY <2>1, <1>3, <1>4
  <2>2. CASE FieldOf(j) # FieldOf(k)
    <3>1. j \in Visited /\ FieldOf(j) \in StrFields
      BY <2>2, <1>2, FieldOfType
    <3>. QED
      BY <3>1, <2>2, <1>3 DEF HInv
  <2>. QED
    BY <2>1, <2>2
<1>8. \A j \in Visited' \cap IntKeys : Stoi(hints[j]).thrown = "none"
  BY <1>1, <1>2 DEF HInv
<1>. QED
  BY <1>5, <1>6, <1>7, <1>8, <1>3, <1>4 DEF HInv

\* A key no backend knows is warned about and skipped.
LEMMA SkipHInv ==
    ASSUME HInv, status = "running", pos <= Len(order),
           order[pos] \notin IntKeys \cup StrKeys,
           pos' = pos + 1,
           UNCHANGED <<config, dups, status, hints, order>>
    PROVE  HInv'
<1>1. Visited' = Visited \cup {order[pos]}
  BY VisitedStep
<1>2. \A f : VisitedValues(f)' = VisitedValues(f)
  BY VisitedValuesStep
<1>3. TypeOK'
  BY CurrentHint, SMTT(30) DEF HInv, TypeOK
<1>. QED
  BY <1>1, <1>2, <1>3 DEF HInv

LEMMA NextHInv == HInv /\ [Next]_vars => HInv'
<1>. SUFFICES ASSUME HInv, [Next]_vars PROVE HInv'
  OBVIOUS
<1>1. CASE ApplyHint
  <2>1. /\ status = "running" /\ pos <= Len(order)
        /\ UNCHANGED <<hints, order>>
    BY <1>1 DEF ApplyHint
  <2>2. CASE /\ order[pos] \in IntKeys
             /\ Stoi(hints[order[pos]]).thrown = "none"
             /\ config' = [config EXCEPT ![FieldOf(order[pos])] =
                                          Stoi(hints[order[pos]]).value]
             /\ pos' = pos + 1
             /\ UNCHANGED <<dups, status>>
    BY <2>1, <2>2, ApplyIntHInv
  <2>3. CASE /\ order[pos] \in IntKeys
             /\ Stoi(hints[order[pos]]).thrown # "none"
             /\ status' = "threw"
             /\ UNCHANGED <<pos, config, dups>>
    <3>1. UNCHANGED <<Visited, TypeOK>> /\ \A f : VisitedValues(f)' = VisitedValues(f)
      BY <2>1, <2>3 DEF Visited, VisitedValues, HInv, TypeOK
    <3>. QED
      BY <2>1, <2>3, <3>1, SMTT(30) DEF HInv
  <2>4. CASE /\ order[pos] \in StrKeys
             /\ config' = [config EXCEPT ![FieldOf(order[pos])] =
                                          Cardinality(dups) + 1]
             /\ dups' = dups \cup {Cardinality(dups) + 1}
             /\ pos' = pos + 1
             /\ UNCHANGED status
    BY <2>1, <2>4, ApplyStrHInv
  <2>5. CASE /\ order[pos] \notin IntKeys \cup StrKeys
             /\ pos' = pos + 1
             /\ UNCHANGED <<config, dups, status>>
    BY <2>1, <2>5, SkipHInv
  <2>. QED
    BY <1>1, <2>2, <2>3, <2>4, <2>5, SMTT(30) DEF ApplyHint
<1>2. CASE Finish
  <2>1. UNCHANGED Visited /\ \A f : VisitedValues(f)' = VisitedValues(f)
    BY <1>2 DEF Finish, Visited, VisitedValues
  <2>. QED
    BY <1>2, <2>1 DEF Finish, HInv, TypeOK
<1>3. CASE Ended \/ UNCHANGED vars
  <2>1. UNCHANGED vars
    BY <1>3 DEF Ended
  <2>2. UNCHANGED Visited /\ \A f : VisitedValues(f)' = VisitedValues(f)
    BY <2>1 DEF vars, Visited, VisitedValues
  <2>. QED
    BY <2>1, <2>2 DEF vars, HInv, TypeOK
<1>. QED
  BY <1>1, <1>2, <1>3 DEF Next

\* When the loop has ended, it has visited every key of the map.
LEMMA DoneVisitedAll ==
    ASSUME HInv, status = "done"
    PROVE  Visited = DOMAIN hints
<1>1. pos = Len(order) + 1 /\ Len(order) \in Nat
      /\ order \in Seq(DOMAIN hints)
  BY DEF HInv, TypeOK
<1>2. Visited = {order[i] : i \in 1 .. Len(order)}
  BY <1>1 DEF Visited
<1>3. Visited \subseteq DOMAIN hints
  BY <1>1, <1>2
<1>4. DOMAIN hints \subseteq Visited
  BY <1>2 DEF HInv
<1>. QED
  BY <1>3, <1>4

LEMMA HInvHintsApplied == HInv => HintsApplied
<1>. SUFFICES ASSUME HInv PROVE HintsApplied
  OBVIOUS
<1>1. status = "threw" => SomeHintRejected
  <2>. SUFFICES ASSUME status = "threw" PROVE SomeHintRejected
    OBVIOUS
  <2>1. order[pos] \in DOMAIN hints
    BY CurrentHint DEF HInv
  <2>. QED
    BY <2>1 DEF HInv, SomeHintRejected
<1>2. ASSUME status = "done"
      PROVE  /\ ~SomeHintRejected
             /\ \A f \in IntFields :
                   IF HintValues(f) = {} THEN config[f] = Unset
                                         ELSE config[f] \in HintValues(f)
             /\ \A k \in DOMAIN hints \cap StrKeys :
                   config[FieldOf(k)] \in dups \ {1}
  <2>1. Visited = DOMAIN hints
    BY <1>2, DoneVisitedAll
  <2>2. \A f : VisitedValues(f) = HintValues(f)
    BY <2>1 DEF VisitedValues, HintValues
  <2>. QED
    BY <2>1, <2>2 DEF HInv, SomeHintRejected
<1>. QED
  BY <1>1, <1>2 DEF HintsApplied

(***************************************************************************)
(* Type correctness of the hint translation, for every set of keys and    *)
(* values, bound on the hints and width of int: the loop stays within the *)
(* map, every integer field holds an int or its default (std::stoi never *)
(* hands back a value outside int), and strdup's strings are numbered     *)
(* 1, 2, ... in the order they were made.                                 *)
(***************************************************************************)
THEOREM HintTypeCorrect == Spec => []TypeOK
<1>1. Spec => []HInv
  BY InitHInv, NextHInv, PTL DEF Spec
<1>. QED
  BY <1>1, PTL DEF HInv

(***************************************************************************)
(* The hint translation against its definition (HintsApplied), for every  *)
(* set of keys and values and every iteration order of options.hints:     *)
(* populateXcclConfigFromHints throws exactly when an integer hint is     *)
(* rejected by std::stoi, and a config that reaches commInitRankConfig    *)
(* holds, in each integer field, the value of one of the field's          *)
(* spellings (the default when none was given), and in each string field *)
(* given by a hint a fresh strdup.  The argument is the loop invariant   *)
(* HInv over the keys visited so far.                                    *)
(***************************************************************************)
THEOREM HintsAppliedTheorem == Spec => []HintsApplied
<1>1. Spec => []HInv
  BY InitHInv, NextHInv, PTL DEF Spec
<1>. QED
  BY <1>1, HInvHintsApplied, PTL
=============================================================================
