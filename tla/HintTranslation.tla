--------------------------- MODULE HintTranslation ---------------------------
(***************************************************************************)
(* The configuration createXcclComm builds for the backend (lines          *)
(* 283-287): XCCL_CONFIG_INITIALIZER with the communicator name strdup'ed  *)
(* into it, then populateXcclConfigFromHints (lines 192-270), one hint of  *)
(* options.hints per step in the map's iteration order.  Hint values are  *)
(* sequences of characters and std::stoi is modelled by what it does; a    *)
(* strdup'ed string is an id.                                             *)
(***************************************************************************)
EXTENDS Integers, SequencesExt, FiniteSets

CONSTANTS
    HintKeys,   \* the keys a caller may put in options.hints
    Values,     \* the values it may give them: sequences of characters
    MaxHints,   \* bound on the number of hints
    IntBits,    \* width of int
    Unset       \* a config field XCCL_CONFIG_INITIALIZER leaves undefined

ASSUME HintsAssumption == MaxHints \in Nat /\ IntBits \in Nat \ {0}

IntMax == 2 ^ (IntBits - 1) - 1
IntMin == -(2 ^ (IntBits - 1))

Digit == [c \in {"0", "1", "2", "3", "4", "5", "6", "7", "8", "9"} |->
             CHOOSE n \in 0 .. 9 :
                 <<c>> = SubSeq(<<"0", "1", "2", "3", "4", "5", "6", "7",
                                  "8", "9">>, n + 1, n + 1)]

Space == {" ", "\t", "\n"}

\* The outcome of std::stoi: the exception it throws, or "none" and a value.
Thrown(e) == [thrown |-> e, value |-> 0]
Returned(v) == [thrown |-> "none", value |-> v]

\* Mutant: std::stol, with no narrowing to the range of int.
StoiNoRangeCheck(s) ==
    LET start  == SelectInSeq(s, LAMBDA c : c \notin Space)
        rest   == IF start = 0 THEN <<>> ELSE SubSeq(s, start, Len(s))
        signed == rest # <<>> /\ rest[1] \in {"+", "-"}
        body   == IF signed THEN Tail(rest) ELSE rest
        stop   == SelectInSeq(body, LAMBDA c : c \notin DOMAIN Digit)
        digits == IF stop = 0 THEN body ELSE SubSeq(body, 1, stop - 1)
        mag    == FoldLeft(LAMBDA acc, c : 10 * acc + Digit[c], 0, digits)
    IN  IF digits = <<>> THEN Thrown("invalid_argument")
        ELSE Returned(IF signed /\ rest[1] = "-" THEN -mag ELSE mag)

(***************************************************************************)
(* std::stoi(val): strtol in base 10 (leading white space, an optional     *)
(* sign, the longest run of digits; the rest is ignored), then the range  *)
(* of int.  The result is the int or the exception thrown.               *)
(***************************************************************************)
Stoi(s) ==
    LET start  == SelectInSeq(s, LAMBDA c : c \notin Space)
        rest   == IF start = 0 THEN <<>> ELSE SubSeq(s, start, Len(s))
        signed == rest # <<>> /\ rest[1] \in {"+", "-"}
        body   == IF signed THEN Tail(rest) ELSE rest
        stop   == SelectInSeq(body, LAMBDA c : c \notin DOMAIN Digit)
        digits == IF stop = 0 THEN body ELSE SubSeq(body, 1, stop - 1)
        mag    == FoldLeft(LAMBDA acc, c : 10 * acc + Digit[c], 0, digits)
        val    == IF signed /\ rest[1] = "-" THEN -mag ELSE mag
    IN  IF digits = <<>> THEN Thrown("invalid_argument")
        ELSE IF val \notin IntMin .. IntMax THEN Thrown("out_of_range")
        ELSE Returned(val)

\* The keys the chain of comparisons recognises, with the field each sets.
IntAliases ==
    {<<"blocking", "blocking">>,
     <<"cgaClusterSize", "cgaClusterSize">>, <<"cga_cluster_size", "cgaClusterSize">>,
     <<"minCTAs", "minCTAs">>, <<"min_ctas", "minCTAs">>,
     <<"maxCTAs", "maxCTAs">>, <<"max_ctas", "maxCTAs">>,
     <<"splitShare", "splitShare">>, <<"split_share", "splitShare">>,
     <<"trafficClass", "trafficClass">>, <<"traffic_class", "trafficClass">>,
     <<"collnetEnable", "collnetEnable">>, <<"collnet_enable", "collnetEnable">>,
     <<"CTAPolicy", "CTAPolicy">>, <<"cta_policy", "CTAPolicy">>,
     <<"shrinkShare", "shrinkShare">>,
     <<"nvlsCTAs", "nvlsCTAs">>, <<"nvls_ctas", "nvlsCTAs">>,
     <<"nChannelsPerNetPeer", "nChannelsPerNetPeer">>,
     <<"n_channels_per_net_peer", "nChannelsPerNetPeer">>,
     <<"nvlinkCentricSched", "nvlinkCentricSched">>,
     <<"nvlink_centric_sched", "nvlinkCentricSched">>}

StrAliases == {<<"netName", "netName">>, <<"commName", "commName">>}

IntKeys    == {a[1] : a \in IntAliases}
StrKeys    == {a[1] : a \in StrAliases}
IntFields  == {a[2] : a \in IntAliases}
StrFields  == {a[2] : a \in StrAliases}
FieldOf(k) == CHOOSE f \in IntFields \cup StrFields : <<k, f>> \in IntAliases \cup StrAliases

VARIABLES
    hints,    \* options.hints: key -> value
    order,    \* the order in which the map's loop visits the keys
    pos,      \* the loop's position in order
    config,   \* onecclConfig_t: field -> int, string id or Unset
    dups,     \* ids of the strings strdup has returned
    status    \* "running", "done", or "threw"

vars == <<hints, order, pos, config, dups, status>>

TypeOK ==
    /\ DOMAIN hints \subseteq HintKeys
    /\ \A k \in DOMAIN hints : hints[k] \in Values
    /\ order \in Seq(DOMAIN hints)
    /\ pos \in 1 .. Len(order) + 1
    /\ \A f \in IntFields : config[f] \in (IntMin .. IntMax) \cup {Unset}
    /\ \A f \in StrFields : config[f] \in Nat \cup {Unset}
    /\ dups \subseteq Nat \ {0}
    /\ status \in {"running", "done", "threw"}

\* The loop visits every key of the map once, in an order the code leaves
\* to the map.
Orders(K) ==
    {o \in [1 .. Cardinality(K) -> K] : \A k \in K : \E i \in DOMAIN o : o[i] = k}

\* Lines 283-284: the default config, with commName = strdup(name).
Init ==
    /\ \E K \in SUBSET HintKeys :
          /\ IsFiniteSet(K) /\ Cardinality(K) <= MaxHints
          /\ hints \in [K -> Values]
          /\ order \in Orders(K)
    /\ pos = 1
    /\ config = [f \in IntFields \cup StrFields |->
                    IF f = "commName" THEN 1 ELSE Unset]
    /\ dups = {1}
    /\ status = "running"
-----------------------------------------------------------------------------
\* Mutant: a value std::stoi rejects leaves the field at its default.
ApplyHintNoThrow ==
    /\ status = "running"
    /\ pos <= Len(order)
    /\ LET k == order[pos]
           r == Stoi(hints[k])
       IN  /\ IF k \in IntKeys /\ r.thrown = "none"
                THEN config' = [config EXCEPT ![FieldOf(k)] = r.value]
                ELSE UNCHANGED config
           /\ pos' = pos + 1
           /\ UNCHANGED <<hints, order, dups, status>>

(***************************************************************************)
(* One iteration of the loop of lines 202-269: an int hint is parsed with *)
(* std::stoi, which throws out of the whole call on a value it rejects; a *)
(* string hint is strdup'ed into the config; any other key is warned      *)
(* about and skipped.                                                     *)
(***************************************************************************)
ApplyHint ==
    /\ status = "running"
    /\ pos <= Len(order)
    /\ LET k   == order[pos]
           r   == Stoi(hints[k])
           dup == Cardinality(dups) + 1
       IN  \/ /\ k \in IntKeys
              /\ r.thrown = "none"
              /\ config' = [config EXCEPT ![FieldOf(k)] = r.value]
              /\ pos' = pos + 1
              /\ UNCHANGED <<dups, status>>
           \/ /\ k \in IntKeys
              /\ r.thrown # "none"
              /\ status' = "threw"
              /\ UNCHANGED <<pos, config, dups>>
           \/ /\ k \in StrKeys
              /\ config' = [config EXCEPT ![FieldOf(k)] = dup]
              /\ dups' = dups \cup {dup}
              /\ pos' = pos + 1
              /\ UNCHANGED status
           \/ /\ k \notin IntKeys \cup StrKeys
              /\ pos' = pos + 1
              /\ UNCHANGED <<config, dups, status>>
    /\ UNCHANGED <<hints, order>>

\* The loop ends and the config goes to commInitRankConfig (line 289).
Finish ==
    /\ status = "running"
    /\ pos = Len(order) + 1
    /\ status' = "done"
    /\ UNCHANGED <<hints, order, pos, config, dups>>

Ended ==
    /\ status \in {"done", "threw"}
    /\ UNCHANGED vars

Next == ApplyHint \/ Finish \/ Ended

Spec == Init /\ [][Next]_vars
-----------------------------------------------------------------------------
\* What each field may end up holding: the value of one of its spellings.
HintValues(f) ==
    {Stoi(hints[k]).value : k \in {j \in DOMAIN hints \cap IntKeys : FieldOf(j) = f}}

\* Some integer hint has a value std::stoi rejects.
SomeHintRejected ==
    \E k \in DOMAIN hints \cap IntKeys : Stoi(hints[k]).thrown # "none"

(***************************************************************************)
(* The translation against its definition: the call throws exactly when   *)
(* some integer hint is rejected (unknown keys never make it throw), and   *)
(* a completed config holds, in each integer field, the parsed value of   *)
(* one of the field's spellings, or the default when none was given, and  *)
(* in each string field given by a hint, a copy made for it.              *)
(***************************************************************************)
HintsApplied ==
    /\ status = "threw" => SomeHintRejected
    /\ status = "done" =>
          /\ ~SomeHintRejected
          /\ \A f \in IntFields :
                IF HintValues(f) = {} THEN config[f] = Unset
                                      ELSE config[f] \in HintValues(f)
          /\ \A k \in DOMAIN hints \cap StrKeys :
                config[FieldOf(k)] \in dups \ {1}

\* The spec's integer: white space, an optional sign, digits, white space.
WellFormed(s) ==
    \E i, j \in 0 .. Len(s) :
        /\ i < j
        /\ \A n \in 1 .. i : s[n] \in Space \cup {"+", "-"}
        /\ \A n \in 1 .. i - 1 : s[n] \in Space
        /\ \A n \in i + 1 .. j : s[n] \in DOMAIN Digit
        /\ \A n \in j + 1 .. Len(s) : s[n] \in Space

(***************************************************************************)
(* Spec 4.4: an integer hint whose value does not parse as an integer     *)
(* fails the whole call; a completed config was built only from           *)
(* well-formed integers.                                                  *)
(***************************************************************************)
MalformedRejected ==
    status = "done" => \A k \in DOMAIN hints \cap IntKeys : WellFormed(hints[k])

(***************************************************************************)
(* Every string strdup returned is held by the config that goes to the    *)
(* backend, which frees it; none is lost while the config is built, and   *)
(* none is left behind when the call throws.                              *)
(***************************************************************************)
NoLeakedStrings ==
    \A d \in dups :
        status # "threw" /\ \E f \in StrFields : config[f] = d
=============================================================================
