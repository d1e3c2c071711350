-------------------------------- MODULE MCRules --------------------------------
(***************************************************************************)
(* The components that decide on what they are handed, checked side by     *)
(* side.  They share no state, so a behaviour runs one of them, the focus, *)
(* and the others stay where they begin.                                   *)
(***************************************************************************)
EXTENDS MCPolicyDecision, MarketGate, SelfAudit, GovernanceScores, ReactionNetwork,
        CommercialSale, Awareness, ClaimEvidence, EnterpriseBoundary

VARIABLE focus

MCUpper == [c \in Currencies |-> IF c = "usdt" THEN "USDT" ELSE c]

MCTerms ==
    {[mode |-> "absent", needs_approval |-> FALSE, proven |-> FALSE],
     [mode |-> "EXECUTE", needs_approval |-> FALSE, proven |-> FALSE],
     [mode |-> "EXECUTE", needs_approval |-> TRUE, proven |-> TRUE],
     [mode |-> "PROPOSE", needs_approval |-> FALSE, proven |-> TRUE]}

\* Support of two strengths, sources and kinds, and what speaks against it.
Supporting1 ==
    [relation |-> "SUPPORT", source |-> "s1", strength |-> 1, fresh |-> TRUE,
     independent |-> TRUE, causal |-> FALSE]

MCBodies ==
    {Supporting1,
     [Supporting1 EXCEPT !.source = "s2", !.strength = 0],
     [Supporting1 EXCEPT !.source = "s3", !.causal = TRUE],
     [Supporting1 EXCEPT !.source = NoSource],
     [Supporting1 EXCEPT !.independent = FALSE],
     [Supporting1 EXCEPT !.fresh = FALSE],
     [Supporting1 EXCEPT !.relation = "CONTRADICT"],
     [Supporting1 EXCEPT !.relation = "CONTRADICT", !.strength = 2, !.fresh = FALSE],
     [Supporting1 EXCEPT !.relation = "CONTRADICT", !.source = "s2", !.strength = 0],
     [Supporting1 EXCEPT !.relation = "NEUTRAL"],
     [Supporting1 EXCEPT !.relation = "STALE"]}

-----------------------------------------------------------------------------

Begin ==
    /\ focus \in {"policy", "market", "audit", "scores", "reaction", "sale",
                  "awareness", "claims", "enterprise"}
    /\ focus # "policy" =>
           /\ policy = {} /\ decision = NoDecision
           /\ server = [signing_secret |-> "signing", keys |-> {},
                        key_id |-> CHOOSE k \in KeyIds : TRUE]
    /\ PolicyInit
    /\ focus # "market" =>
           observed = [tick |-> CHOOSE t \in Ticks : TRUE, timestamp |-> 0,
                       sequence |-> 0, fault |-> "none"]
    /\ MarketInit
    /\ focus # "audit" => asked = CHOOSE a \in Asked : TRUE
    /\ SelfAuditInit
    /\ focus # "scores" =>
           /\ claim_type = [c \in Claims |-> 0]
           /\ overconfident = {}
           /\ measures = [cps |-> 0, cqm |-> 0, impact |-> 0, autonomy |-> 0,
                          reversibility |-> 0, t |-> 0]
    /\ ScoresInit
    /\ focus # "reaction" => activation = 0 /\ inhibition = 0 /\ catalyst = 0
    /\ ReactionInit
    /\ focus # "sale" =>
           sale = [invoice |-> [amount |-> CHOOSE a \in Amounts : TRUE, currency |-> "USDT"],
                   status |-> "AWAITING_PAYMENT", payment |-> Nothing,
                   entitlement |-> 0, delivery |-> Nothing]
    /\ SaleInit
    /\ focus # "awareness" =>
           contract = [x \in Components |-> [parent |-> ROOT,
                                             terms |-> CHOOSE t \in Terms : TRUE]]
    /\ AwarenessInit
    /\ focus # "claims" =>
           claim = [explains |-> FALSE, universal |-> FALSE, assumes |-> FALSE]
    /\ ClaimInit
    /\ focus # "enterprise" => graph = {}
    /\ EnterpriseInit

PolicyRuns ==
    /\ focus = "policy" /\ PolicyNext
    /\ UNCHANGED <<focus, marketVars, auditRequestVars, scoreVars, reactionVars,
                   saleVars, awarenessVars, claimVars, enterpriseVars>>

MarketRuns ==
    /\ focus = "market" /\ MarketNext
    /\ UNCHANGED <<focus, policyVars, auditRequestVars, scoreVars, reactionVars,
                   saleVars, awarenessVars, claimVars, enterpriseVars>>

AuditRuns ==
    /\ focus = "audit" /\ SelfAuditNext
    /\ UNCHANGED <<focus, policyVars, marketVars, scoreVars, reactionVars,
                   saleVars, awarenessVars, claimVars, enterpriseVars>>

ScoresRun ==
    /\ focus = "scores" /\ ScoresNext
    /\ UNCHANGED <<focus, policyVars, marketVars, auditRequestVars, reactionVars,
                   saleVars, awarenessVars, claimVars, enterpriseVars>>

ReactionRuns ==
    /\ focus = "reaction" /\ ReactionNext
    /\ UNCHANGED <<focus, policyVars, marketVars, auditRequestVars, scoreVars,
                   saleVars, awarenessVars, claimVars, enterpriseVars>>

SaleRuns ==
    /\ focus = "sale" /\ SaleNext
    /\ UNCHANGED <<focus, policyVars, marketVars, auditRequestVars, scoreVars,
                   reactionVars, awarenessVars, claimVars, enterpriseVars>>

AwarenessRuns ==
    /\ focus = "awareness" /\ AwarenessNext
    /\ UNCHANGED <<focus, policyVars, marketVars, auditRequestVars, scoreVars,
                   reactionVars, saleVars, claimVars, enterpriseVars>>

ClaimsRun ==
    /\ focus = "claims" /\ ClaimNext
    /\ UNCHANGED <<focus, policyVars, marketVars, auditRequestVars, scoreVars,
                   reactionVars, saleVars, awarenessVars, enterpriseVars>>

EnterpriseRuns ==
    /\ focus = "enterprise" /\ EnterpriseNext
    /\ UNCHANGED <<focus, policyVars, marketVars, auditRequestVars, scoreVars,
                   reactionVars, saleVars, awarenessVars, claimVars>>

Step ==
    \/ PolicyRuns \/ MarketRuns \/ AuditRuns \/ ScoresRun \/ ReactionRuns
    \/ SaleRuns \/ AwarenessRuns \/ ClaimsRun \/ EnterpriseRuns

RulesSpec ==
    Begin /\ [][Step]_<<focus, policyVars, marketVars, auditRequestVars, scoreVars,
                        reactionVars, saleVars, awarenessVars, claimVars,
                        enterpriseVars>>
=============================================================================
