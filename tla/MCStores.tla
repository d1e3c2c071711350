------------------------------- MODULE MCStores -------------------------------
(***************************************************************************)
(* The components that keep state several processes, threads or jobs       *)
(* share, and the financial runtime, checked side by side.  They share no  *)
(* table, so a behaviour runs one of them, the focus, and the others stay  *)
(* where they begin.                                                       *)
(***************************************************************************)
EXTENDS TLC, RateLimiter, AuthorityNonces, OracleCommits, FinancialRuntime, AuditChain,
        SecurityPlane, StateBound, InnovationHistory, LiveFeed, CsgAdmission

VARIABLE focus

CONSTANTS m1, m2

MCArchitecture == <<"identity", "state", "audit", "authority", "action">>
MCDecisionOf == (m1 :> "ALLOW") @@ (m2 :> "DENY")

\* The variables of each component but the clock they share.
rateOwn == <<rateStore, events, rateCall, admitted>>
nonceOwn == <<issued_at, nonces, call>>
oracleOwn == <<snapshots, commit>>
planeOwn == <<security_events, observer, kill_switch>>
boundOwn == <<world, executor, ran>>
feedOwn == <<provider, cognition, trained, live, loop, newest>>
admissionOwn == <<idempotency_keys, validation_events, csgKeys, csgCall>>

Begin ==
    /\ focus \in {"rate", "nonces", "oracle", "finance", "audit", "plane", "bound",
                  "innovation", "feed", "admission"}
    /\ focus # "rate" => rateStore = "database"
    /\ RateInit /\ OracleInit /\ FinanceInit /\ PlaneInit /\ FeedInit /\ AdmissionInit
    /\ focus # "nonces" =>
           /\ issued_at = [n \in Nonces |-> 0]
           /\ call = [c \in Calls |->
                  NewCall([client |-> "tool", nonce |-> CHOOSE n \in Nonces : TRUE,
                           fault |-> "none"])]
    /\ NonceInit
    /\ focus # "audit" => previous_hash = <<>>
    /\ AuditInit
    /\ focus # "bound" =>
           world = [version |-> 1, trajectory |-> CHOOSE c \in Contents : TRUE,
                    metadata |-> [p \in Parts |-> CHOOSE c \in Contents : TRUE]]
    /\ BoundInit
    /\ focus # "innovation" =>
           main = [commits |-> <<>>, history |-> <<>>, report |-> Malformed]
    /\ InnovationInit
    \* The keys of the ring are alike, so one of them may be the first.
    /\ csgKeys.current = CHOOSE k \in CsgKeyIds : TRUE

RateRuns ==
    /\ focus = "rate" /\ RateNext
    /\ UNCHANGED <<focus, nonceOwn, oracleOwn, financeVars, auditVars, planeOwn, boundOwn,
                   innovationVars, feedOwn, admissionOwn>>

NoncesRun ==
    /\ focus = "nonces" /\ NonceNext
    /\ UNCHANGED <<focus, rateOwn, oracleOwn, financeVars, auditVars, planeOwn, boundOwn,
                   innovationVars, feedOwn, admissionOwn>>

OracleRuns ==
    /\ focus = "oracle" /\ OracleNext
    /\ UNCHANGED <<focus, rateOwn, nonceOwn, financeVars, auditVars, planeOwn, boundOwn,
                   innovationVars, feedOwn, admissionOwn>>

FinanceRuns ==
    /\ focus = "finance" /\ FinanceNext
    /\ UNCHANGED <<focus, now, rateOwn, nonceOwn, oracleOwn, auditVars, planeOwn, boundOwn,
                   innovationVars, feedOwn, admissionOwn>>

AuditRuns ==
    /\ focus = "audit" /\ AuditNext
    /\ UNCHANGED <<focus, now, rateOwn, nonceOwn, oracleOwn, financeVars, planeOwn, boundOwn,
                   innovationVars, feedOwn, admissionOwn>>

PlaneRuns ==
    /\ focus = "plane" /\ PlaneNext
    /\ UNCHANGED <<focus, rateOwn, nonceOwn, oracleOwn, financeVars, auditVars, boundOwn,
                   innovationVars, feedOwn, admissionOwn>>

BoundRuns ==
    /\ focus = "bound" /\ BoundNext
    /\ UNCHANGED <<focus, rateOwn, nonceOwn, oracleOwn, financeVars, auditVars, planeOwn,
                   innovationVars, feedOwn, admissionOwn>>

InnovationRuns ==
    /\ focus = "innovation" /\ InnovationNext
    /\ UNCHANGED <<focus, now, rateOwn, nonceOwn, oracleOwn, financeVars, auditVars,
                   planeOwn, boundOwn, feedOwn, admissionOwn>>

FeedRuns ==
    /\ focus = "feed" /\ FeedNext
    /\ UNCHANGED <<focus, rateOwn, nonceOwn, oracleOwn, financeVars, auditVars,
                   planeOwn, boundOwn, innovationVars, admissionOwn>>

AdmissionRuns ==
    /\ focus = "admission" /\ AdmissionNext
    /\ UNCHANGED <<focus, rateOwn, nonceOwn, oracleOwn, financeVars, auditVars,
                   planeOwn, boundOwn, innovationVars, feedOwn>>

Step ==
    \/ RateRuns \/ NoncesRun \/ OracleRuns \/ FinanceRuns
    \/ AuditRuns \/ PlaneRuns \/ BoundRuns
    \/ InnovationRuns \/ FeedRuns \/ AdmissionRuns

StoresSpec ==
    Begin /\ [][Step]_<<focus, now, rateOwn, nonceOwn, oracleOwn, financeVars,
                        auditVars, planeOwn, boundOwn, innovationVars, feedOwn,
                        admissionOwn>>
=============================================================================
