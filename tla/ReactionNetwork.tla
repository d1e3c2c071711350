---------------------------- MODULE ReactionNetwork ----------------------------
(***************************************************************************)
(* state_bound/chemical_execution.py and chemical_reaction_network.py: an  *)
(* assessment of an execution snapshot by three nodes (context, state,     *)
(* trajectory), the weakest of which decides.  A caller assesses snapshot  *)
(* after snapshot while evidence is gathered and verified, context or      *)
(* state drift, and the trajectory grows.                                  *)
(*                                                                         *)
(* Activation, inhibition and catalyst are in percent.  A reactivity is    *)
(* held multiplied by 200000 * total, which leaves it whole.               *)
(***************************************************************************)
EXTENDS Naturals, FiniteSetsExt

CONSTANTS
    Levels,          \* activations, inhibitions and catalysts, in percent
    MaxEvidence,     \* bound: items of evidence
    MaxTrajectory    \* bound: steps of the trajectory

ASSUME ReactionAssumption ==
    /\ Levels \subseteq 0 .. 100
    /\ MaxEvidence \in Nat /\ MaxTrajectory \in Nat

VARIABLES
    activation, inhibition, catalyst,
    items,       \* [total, verified]: the evidence
    drifted,     \* those of "context" and "state" that are invalid or drifted
    trajectory   \* its length

reactionVars == <<activation, inhibition, catalyst, items, drifted, trajectory>>

ReactionInit ==
    /\ activation \in Levels /\ inhibition \in Levels /\ catalyst \in Levels
    /\ items = [total |-> 0, verified |-> 0]
    /\ drifted = {}
    /\ trajectory = 0

-----------------------------------------------------------------------------

Nodes == 1 .. 3

\* _stability
Stable(n) ==
    CASE n = 1 -> "context" \notin drifted
      [] n = 2 -> "state" \notin drifted
      [] n = 3 -> trajectory > 0

\* effective_evidence: the catalyst closes part of the gap to full evidence.  With
\* no item the strength is 0.
Total == IF items.total = 0 THEN 1 ELSE items.total

Effective == 100 * items.verified + catalyst * (Total - items.verified)

\* Only the last node has a consequence, and so pressure: half of a tenth a step.
Pressure(n) == IF n = 3 THEN IF trajectory < 10 THEN trajectory ELSE 10 ELSE 0

Reactivity(n) ==
    IF Stable(n) THEN activation * Effective * (20 - Pressure(n)) ELSE 0

LastNode == CHOOSE n \in Nodes : \A m \in Nodes : m =< n

\* The first of the least reactive.
Weakest ==
    Min({n \in Nodes : \A m \in Nodes : Reactivity(n) =< Reactivity(m)})

\* barrier >= hold_threshold, 0.55.
BarrierHolds ==
    \/ inhibition >= 55
    \/ ~Stable(Weakest)
    \/ 100 * (Total - items.verified) >= 55 * Total

\* activation_threshold, 0.70.
ActivationThreshold == 140000 * Total

\* evaluate_reaction_network.  Its test of the cascade pressure, at most 0.5 here,
\* against 0.60 never holds.
Mode ==
    CASE inhibition >= 35 -> "INHIBIT"
      [] inhibition < 35 /\ BarrierHolds -> "HOLD"
      [] OTHER -> IF Reactivity(Weakest) >= ActivationThreshold
                  THEN "PROCEED" ELSE "UNKNOWN"

-----------------------------------------------------------------------------

Gather ==
    /\ items.total < MaxEvidence
    /\ items' \in {[total |-> items.total + 1, verified |-> v] :
                       v \in {items.verified, items.verified + 1}}
    /\ UNCHANGED <<activation, inhibition, catalyst, drifted, trajectory>>

VerifyOne ==
    /\ items.verified < items.total
    /\ items' = [items EXCEPT !.verified = @ + 1]
    /\ UNCHANGED <<activation, inhibition, catalyst, drifted, trajectory>>

Drift ==
    /\ \E d \in SUBSET {"context", "state"} : drifted' = d
    /\ UNCHANGED <<activation, inhibition, catalyst, items, trajectory>>

Extend ==
    /\ trajectory < MaxTrajectory
    /\ trajectory' = trajectory + 1
    /\ UNCHANGED <<activation, inhibition, catalyst, items, drifted>>

ReactionNext == Gather \/ VerifyOne \/ Drift \/ Extend

ReactionSpec == ReactionInit /\ [][ReactionNext]_reactionVars

-----------------------------------------------------------------------------

\* However strong activation and catalyst are, nothing proceeds in a drifted
\* context or state, without a trajectory, past an inhibitor, or with less than
\* 45 percent of the evidence verified, although the three nodes are summed up by
\* one of them and the catalyst stands in for missing evidence.
NothingProceedsUnproved ==
    Mode = "PROCEED" =>
        /\ drifted = {} /\ trajectory > 0
        /\ inhibition < 35
        /\ 100 * items.verified > 45 * items.total
        /\ \A n \in Nodes : Reactivity(n) >= ActivationThreshold
=============================================================================
