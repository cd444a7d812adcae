----------------------------- MODULE Rendezvous -----------------------------
(***************************************************************************)
(* What the bootstrap promises about unique ids (spec 3 and 4.2), without *)
(* keys, counters or stores.  Each process makes a sequence of attempts;  *)
(* in its a-th attempt rank 0 generates the id of rendezvous a and        *)
(* publishes it, and every other rank can only learn the id published for *)
(* its own attempt number.  An attempt ends with the id forgotten.        *)
(***************************************************************************)
EXTENDS Naturals

CONSTANTS N, MaxAttempts, NoId

VARIABLES
    phase,      \* per rank: "idle" between attempts, "active" in one
    attempt,    \* per rank: number of the current / last attempt
    holds,      \* per rank: the id it holds, or NoId
    published   \* the ids rank 0 has published

avars == <<phase, attempt, holds, published>>

Ranks == 0 .. N - 1

Init ==
    /\ phase = [r \in Ranks |-> "idle"]
    /\ attempt = [r \in Ranks |-> 0]
    /\ holds = [r \in Ranks |-> NoId]
    /\ published = {}

\* An attempt begins; it may end at once, before the rank does anything.
Begin(r) ==
    /\ phase[r] = "idle"
    /\ attempt[r] < MaxAttempts
    /\ attempt' = [attempt EXCEPT ![r] = @ + 1]
    /\ phase' \in {[phase EXCEPT ![r] = "active"], phase}
    /\ UNCHANGED <<holds, published>>

\* Rank 0 generates the id of its attempt and publishes it.
Generate ==
    /\ phase[0] = "active"
    /\ holds[0] = NoId
    /\ holds' = [holds EXCEPT ![0] = attempt[0]]
    /\ published' = published \cup {attempt[0]}
    /\ UNCHANGED <<phase, attempt>>

\* Another rank learns the id published for its own attempt.
Learn(r) ==
    /\ r # 0
    /\ phase[r] = "active"
    /\ holds[r] = NoId
    /\ attempt[r] \in published
    /\ holds' = [holds EXCEPT ![r] = attempt[r]]
    /\ UNCHANGED <<phase, attempt, published>>

\* The attempt ends, with a communicator or a failure.
End(r) ==
    /\ phase[r] = "active"
    /\ phase' = [phase EXCEPT ![r] = "idle"]
    /\ holds' = [holds EXCEPT ![r] = NoId]
    /\ UNCHANGED <<attempt, published>>

Next ==
    \/ Generate
    \/ \E r \in Ranks : Begin(r) \/ Learn(r) \/ End(r)

Spec == Init /\ [][Next]_avars
=============================================================================
