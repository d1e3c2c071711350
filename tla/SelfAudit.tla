------------------------------- MODULE SelfAudit -------------------------------
(***************************************************************************)
(* action_gate/self_audit.py behind /v1/self-audit: a caller submits an    *)
(* action or a claim with its evidence again and again, as it finds more   *)
(* evidence and verifies what it has.  Every audit looks at the request    *)
(* alone.                                                                  *)
(***************************************************************************)
EXTENDS Naturals, FiniteSets

CONSTANTS
    Items,       \* items of evidence a caller may find
    Supporting   \* those with a token of the claim among their supports

ASSUME AuditAssumption == IsFiniteSet(Items) /\ Supporting \subseteq Items

VARIABLES
    asked,      \* what is fixed of the request
    evidence,   \* items submitted
    verified    \* those of them that are verified

auditRequestVars == <<asked, evidence, verified>>

Asked ==
    [actor : BOOLEAN, session : BOOLEAN, internal : BOOLEAN,
     side_effect : BOOLEAN, claim : BOOLEAN]

SelfAuditInit ==
    /\ asked \in Asked
    /\ evidence = {}
    /\ verified = {}

Submit(i) ==
    /\ i \notin evidence
    /\ evidence' = evidence \cup {i}
    /\ verified' \in {verified, verified \cup {i}}
    /\ UNCHANGED asked

VerifyItem(i) ==
    /\ i \in evidence \ verified
    /\ verified' = verified \cup {i}
    /\ UNCHANGED <<asked, evidence>>

SelfAuditNext == \E i \in Items : Submit(i) \/ VerifyItem(i)

SelfAuditSpec == SelfAuditInit /\ [][SelfAuditNext]_auditRequestVars

-----------------------------------------------------------------------------

GapAtHalf == 2 * Cardinality(verified \cap Supporting) =< Cardinality(verified)

\* claim_evidence_gap >= 1.0, where the gap is 1 - supporting / verified.
GapIsOne == Cardinality(verified \cap Supporting) = 0

\* audit, in the order of its returns; side_effect is an external effect or a
\* mutation.
Audit ==
    CASE ~asked.actor \/ ~asked.session \/ asked.internal -> "DENY"
      [] OTHER ->
           IF verified = {} THEN IF asked.side_effect THEN "ASK" ELSE "DEFER"
           ELSE IF asked.claim /\ GapIsOne THEN "DENY"
           ELSE IF asked.side_effect THEN "ASK" ELSE "ALLOW"

\* More evidence, or more of it verified, never takes an ALLOW back, although the
\* gap can grow with every verified item that does not support the claim.
EvidenceNeverRevokes == [][Audit = "ALLOW" => Audit' = "ALLOW"]_auditRequestVars
=============================================================================
