----------------------------- MODULE ClaimEvidence -----------------------------
(***************************************************************************)
(* research/claimlab: http_app.py keeps evidence in a table, where a POST  *)
(* with a known id replaces the row; a caller reads the rows back and has  *)
(* ClaimLab.assess (engine.py) judge a claim on them.                      *)
(***************************************************************************)
EXTENDS Collections, FiniteSets

CONSTANTS
    EvidenceIds,
    Bodies,        \* of the requests: [relation, source, strength, fresh,
                   \* independent, causal]
    NoSource,      \* an empty source
    Missing        \* no row

ASSUME ClaimAssumption ==
    /\ IsFiniteSet(EvidenceIds)
    /\ \A b \in Bodies :
           /\ b.relation \in {"SUPPORT", "CONTRADICT", "NEUTRAL", "MISSING", "STALE",
                              "CONFLICTED"}
           /\ b.strength \in Nat /\ {b.fresh, b.independent, b.causal} \subseteq BOOLEAN
    /\ Missing \notin Bodies

VARIABLES
    rows,      \* the table evidence
    claim      \* the claim: what its flags look at

claimVars == <<rows, claim>>

\* explains: its type is EXPLANATION or ONTOLOGY; universal: its wording; assumes:
\* an OBSERVATION with assumptions.
Claimed == [explains : BOOLEAN, universal : BOOLEAN, assumes : BOOLEAN]

ClaimInit ==
    /\ rows = [i \in EvidenceIds |-> Missing]
    /\ claim \in {c \in Claimed : ~(c.explains /\ c.assumes)}

\* create_evidence: INSERT ... ON CONFLICT DO UPDATE of every column.
CreateEvidence(i, b) ==
    /\ rows' = [rows EXCEPT ![i] = b]
    /\ UNCHANGED claim

ClaimNext == \E i \in EvidenceIds, b \in Bodies : CreateEvidence(i, b)

ClaimSpec == ClaimInit /\ [][ClaimNext]_claimVars

-----------------------------------------------------------------------------

Present == {i \in EvidenceIds : rows[i] # Missing}

Related(relations) == {i \in Present : rows[i].relation \in relations}

FreshOnes(relation) == {i \in Related({relation}) : rows[i].fresh}

Strength(ids) == SumOver([i \in ids |-> rows[i].strength], ids)

Support == Strength(FreshOnes("SUPPORT"))

\* A stale contradiction counts nowhere.
Contradiction == Strength(FreshOnes("CONTRADICT"))

Unresolved == Strength(Related({"MISSING", "STALE", "CONFLICTED"}))

IndependentSources ==
    {rows[i].source : i \in {j \in FreshOnes("SUPPORT") : rows[j].independent}}
        \ {NoSource}

\* _overclaim_flags
Flags ==
    {f \in {"causal", "universal", "assumptions", "dependent"} :
        \/ /\ f = "causal"
           /\ claim.explains /\ ~\E i \in Related({"SUPPORT"}) : rows[i].causal
        \/ f = "universal" /\ claim.universal /\ Contradiction > 0
        \/ f = "assumptions" /\ claim.assumes
        \/ /\ f = "dependent"
           /\ Support > 0 /\ ~\E i \in Related({"SUPPORT"}) : rows[i].independent}

ExactlyTwoSources == Cardinality(IndependentSources) = 2

EnoughSources == Cardinality(IndependentSources) >= 2

\* assess
Assessed ==
    CASE Support + Contradiction + Unresolved = 0 -> "UNKNOWN"
      [] Support + Contradiction + Unresolved # 0 /\ Flags # {} -> "OVERCLAIM"
      [] OTHER ->
           IF Contradiction > Support THEN "INVALID"
           ELSE IF Support > 0 /\ Contradiction = 0 /\ Unresolved = 0 /\ EnoughSources
           THEN "VALID" ELSE "WEAK"

\* The better of a verdict and no verdict.
Rank == [UNKNOWN |-> 0, OVERCLAIM |-> 0, INVALID |-> 0, WEAK |-> 1, VALID |-> 2]

\* quality < 1: some scored row is not fresh, or fewer than two independent sources.
LowQuality ==
    LET scored == Related({"SUPPORT", "CONTRADICT"})
    IN  \/ \E i \in scored : ~rows[i].fresh
        \/ Cardinality({rows[i].source : i \in {j \in scored : rows[j].independent}}
                           \ {NoSource}) < 2

\* _epistemic_state
EpistemicState ==
    CASE Assessed = "VALID" -> "ESTABLISHED"
      [] Assessed = "OVERCLAIM" -> "OVERCLAIMED"
      [] Assessed = "INVALID" -> "CONTESTED"
      [] Assessed = "UNKNOWN" -> "UNOBSERVED"
      [] OTHER -> IF Contradiction > 0 THEN "CONTESTED"
                  ELSE IF Unresolved > 0 \/ LowQuality THEN "UNRESOLVED"
                  ELSE "SUPPORTED"

-----------------------------------------------------------------------------

\* Fresh independent support under a new id never makes a verdict worse, nor a
\* claim that is supported less than supported: only a replaced row, or evidence of
\* another kind, takes a verdict back.
SupportNeverHurts ==
    [][\A i \in EvidenceIds :
           /\ rows[i] = Missing /\ rows'[i] # Missing
           /\ rows'[i].relation = "SUPPORT" /\ rows'[i].fresh /\ rows'[i].independent
           => /\ Rank[Assessed'] >= Rank[Assessed]
              /\ EpistemicState = "SUPPORTED" =>
                     EpistemicState' \in {"SUPPORTED", "ESTABLISHED"}]_claimVars
=============================================================================
