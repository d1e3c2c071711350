--------------------------- MODULE GovernanceScores ---------------------------
(***************************************************************************)
(* The integrity score (HAIS) and the risk score (DRS) of RFC-0003 and the *)
(* verdicts drawn from them: research/governance_reference.py, which also  *)
(* takes the measures from the claims of an artifact, and src/governance,  *)
(* which is given the measures.  Measures are in units of 1/Unit, scores   *)
(* in units of 1/(100 * Unit).                                             *)
(*                                                                         *)
(* An artifact gains evidence claim by claim; ClaimProvenanceEngine.attach *)
(* lets a claim refer only to evidence there is.                           *)
(***************************************************************************)
EXTENDS Collections, FiniteSets

CONSTANTS
    Claims,    \* claims of the artifact
    Facts,     \* ids of evidence
    Unit       \* Cardinality(Claims) * 5 divides it, so that no mean is rounded

\* ClaimType.value
Types == 0 .. 4

ASSUME ScoresAssumption ==
    /\ IsFiniteSet(Claims) /\ Claims # {}
    /\ Unit \in Nat \ {0}

VARIABLES
    claim_type,     \* of each claim
    overconfident,  \* claims with confidence above 0.80
    evidence_refs,  \* of each claim
    facts,          \* evidence of the artifact
    measures        \* prediction_output and pst_state: what no claim changes

scoreVars == <<claim_type, overconfident, evidence_refs, facts, measures>>

ScoresInit ==
    /\ claim_type \in [Claims -> Types]
    /\ overconfident \in SUBSET Claims
    /\ evidence_refs = [c \in Claims |-> {}]
    /\ facts = {}
    /\ measures \in [cps : {0, Unit}, cqm : {0, Unit}, impact : {0, Unit},
                     autonomy : {0, Unit}, reversibility : {0, Unit}, t : {0, Unit}]

AddFact(f) ==
    /\ facts' = facts \cup {f}
    /\ UNCHANGED <<claim_type, overconfident, evidence_refs, measures>>

\* attach raises ValueError when a reference is to evidence there is not.
Attach(c, f) ==
    /\ f \in facts
    /\ evidence_refs' = [evidence_refs EXCEPT ![c] = @ \cup {f}]
    /\ UNCHANGED <<claim_type, overconfident, facts, measures>>

ScoresNext == \E f \in Facts : AddFact(f) \/ \E c \in Claims : Attach(c, f)

ScoresSpec == ScoresInit /\ [][ScoresNext]_scoreVars

-----------------------------------------------------------------------------

Supported == {c \in Claims : evidence_refs[c] # {}}

Mean(sum) == (sum * Unit) \div Cardinality(Claims)

\* calculate_eas
EAS == Mean(Cardinality(Supported))

\* calculate_ned: an unsupported claim is as far as its type is strong.
NED ==
    SumOver([c \in Claims |-> (claim_type[c] + 1) * Unit], Claims \ Supported)
        \div (5 * Cardinality(Claims))

\* calculate_ocr
OCR == Mean(Cardinality(overconfident \ Supported))

\* HAISCalculator.calculate.
WeightedIntegrity(eas, ned, cps, cqm, ocr) ==
    30 * eas + 20 * (Unit - ned) + 20 * cps + 15 * cqm + 15 * (Unit - ocr)

\* DecisionRiskScore.calculate.
WeightedRisk(impact, autonomy, irreversibility, uncertainty) ==
    30 * impact + 25 * autonomy + 25 * irreversibility + 20 * uncertainty

\* evaluate_hais weighs the measures of the artifact alike.
HAIS == WeightedIntegrity(EAS, NED, measures.cps, measures.cqm, OCR)

\* evaluate_drs, which takes uncertainty to be what T lacks.
DRS == WeightedRisk(measures.impact, measures.autonomy, measures.reversibility,
                    Unit - measures.t)

\* GovernanceEngine.evaluate, with its thresholds 0.85, 0.65 and 0.60.
ReferenceVerdict ==
    CASE HAIS >= 85 * Unit /\ DRS < 60 * Unit -> "ALLOW"
      [] HAIS >= 85 * Unit /\ DRS >= 60 * Unit -> "ASK"
      [] HAIS < 65 * Unit /\ DRS < 60 * Unit -> "SANDBOX"
      [] OTHER -> "DENY"

\* With a floor below which a low risk no longer helps, as the reference has.
EngineVerdictWithFloor ==
    CASE HAIS >= 85 * Unit /\ DRS =< 30 * Unit -> "ALLOW"
      [] HAIS >= 85 * Unit /\ DRS > 30 * Unit -> "ASK"
      [] HAIS < 65 * Unit /\ DRS =< 30 * Unit -> "SANDBOX"
      [] OTHER -> "DENY"

\* GovernanceDecisionEngine.decide.
EngineVerdict ==
    CASE HAIS >= 85 * Unit /\ DRS =< 30 * Unit -> "ALLOW"
      [] HAIS >= 85 * Unit /\ DRS > 30 * Unit -> "ASK"
      [] HAIS < 85 * Unit /\ DRS =< 30 * Unit -> "SANDBOX"
      [] OTHER -> "DENY"

Strictness == [ALLOW |-> 0, ASK |-> 1, SANDBOX |-> 2, DENY |-> 3]

-----------------------------------------------------------------------------

\* Evidence for a claim never hurts: the integrity score does not fall, neither
\* engine takes an ALLOW back, and GovernanceDecisionEngine never gets stricter.
\* (GovernanceEngine does: it can turn SANDBOX into DENY.)
EvidenceNeverHurts ==
    [][evidence_refs' # evidence_refs =>
           /\ HAIS' >= HAIS
           /\ ReferenceVerdict = "ALLOW" => ReferenceVerdict' = "ALLOW"
           /\ Strictness[EngineVerdict'] =< Strictness[EngineVerdict]]_scoreVars
=============================================================================
