-------------------------- MODULE EnterpriseBoundary --------------------------
(***************************************************************************)
(* The enterprise modules of action_gate in the order                      *)
(* PRODUCT/ENTERPRISE_ARCHITECTURE.md puts them: a signed DecisionContext, *)
(* an AuthorityBinding, the PolicyGraph and an ExecutionProfile are judged *)
(* by EnforcementEngine.authorize; what runs is appended to the            *)
(* EvidenceLedger, which PostExecutionForensics reads.                     *)
(*                                                                         *)
(* Identities and digests are abstracted to whether they agree: a binding  *)
(* that fails is a member of mismatches.                                   *)
(***************************************************************************)
EXTENDS Collections, SequencesExt

CONSTANTS
    Bindings,      \* authorities: one authority_id and nonce each
    Traces,        \* trace ids of executions
    MaxClock,      \* bound: contexts expire up to it
    MaxTrail       \* bound: length of the ledger

\* context.verify and the comparisons of authorize, in the code's order.
Mismatches ==
    {"signature", "tenant", "agent", "policy", "tool", "profile_id"}

\* The edges PolicyGraph.validate asks for.
Edges ==
    {"tenant_governs_policy", "agent_uses_policy", "policy_binds_tool",
     "policy_issues_authority"}

\* DEFAULT_PROFILES: what each risk level demands.
Demands ==
    [LOW |-> {}, HIGH |-> {"evidence", "replay"},
     CRITICAL |-> {"evidence", "replay", "review"}]

Submissions ==
    [binding : Bindings, mismatches : {{}} \cup {{m} : m \in Mismatches},
     expires_at : 0 .. MaxClock, profile : DOMAIN Demands,
     supplied : SUBSET {"evidence", "replay", "review"}]

Payloads == [authority : Bindings, action : {"pay", "ship"}]

VARIABLES
    time,       \* now of authorize
    graph,      \* the edges present; the graph is immutable
    claimed,    \* nonces nonce_claim has taken
    permits,    \* ghost: bindings of the permitted results, how often each
    permitted,  \* a permitted request that has not run yet
    trail       \* EvidenceLedger._events

enterpriseVars == <<time, graph, claimed, permits, permitted, trail>>

EnterpriseInit ==
    /\ time = 0
    /\ graph \in SUBSET Edges
    /\ claimed = {}
    /\ permits = [b \in Bindings |-> 0]
    /\ permitted = {}
    /\ trail = <<>>

-----------------------------------------------------------------------------

Expired(s) == time >= s.expires_at

Unmet(s) == Demands[s.profile] \ s.supplied

\* Everything authorize checks before it claims the nonce.
Entitled(s) ==
    /\ s.mismatches = {}
    /\ ~Expired(s)
    /\ graph = Edges
    /\ Unmet(s) = {}

ClaimsNonceFirst(s) == s.mismatches = {}

\* The nonce is claimed last: a request refused for anything else keeps it.
ClaimsNonce(s) == Entitled(s)

AuthorizeRequest(s) ==
    /\ claimed' = IF ClaimsNonce(s) THEN claimed \cup {s.binding} ELSE claimed
    /\ IF Entitled(s) /\ s.binding \notin claimed
       THEN /\ permits' = [permits EXCEPT ![s.binding] = @ + 1]
            /\ permitted' = permitted \cup {s.binding}
       ELSE UNCHANGED <<permits, permitted>>
    /\ UNCHANGED <<time, graph, trail>>

\* The hash of an event is what it digests.
EventHash(id, trace, payload, previous_hash) == <<id, trace, payload, previous_hash>>

LatestHash == IF trail = <<>> THEN "GENESIS" ELSE Last(trail).event_hash

\* The caller runs what was permitted and appends an EXECUTION event; an
\* event_id already used is refused.
RecordExecution(id, trace, payload) ==
    /\ Len(trail) < MaxTrail
    /\ payload.authority \in permitted
    /\ permitted' = permitted \ {payload.authority}
    /\ \A i \in DOMAIN trail : trail[i].event_id # id
    /\ trail' = Append(trail,
           [event_id |-> id, trace |-> trace, payload |-> payload,
            previous_hash |-> LatestHash,
            event_hash |-> EventHash(id, trace, payload, LatestHash)])
    /\ UNCHANGED <<time, graph, claimed, permits>>

SharedIfLast(i) == i = Len(trail)

\* append and events() copy deeply, so no caller holds a payload of the ledger.
Shared(i) == FALSE

\* A caller changes the payload of an event it passed in or was given.
CallerMutates(i, payload) ==
    /\ i \in DOMAIN trail
    /\ trail' = IF Shared(i) THEN [trail EXCEPT ![i].payload = payload] ELSE trail
    /\ UNCHANGED <<time, graph, claimed, permits, permitted>>

ClockTicks ==
    /\ time < MaxClock
    /\ time' = time + 1
    /\ UNCHANGED <<graph, claimed, permits, permitted, trail>>

EnterpriseNext ==
    \/ \E s \in Submissions : AuthorizeRequest(s)
    \/ \E id \in 1 .. MaxTrail, t \in Traces, p \in Payloads :
           RecordExecution(id, t, p) \/ CallerMutates(id, p)
    \/ ClockTicks

EnterpriseSpec == EnterpriseInit /\ [][EnterpriseNext]_enterpriseVars

-----------------------------------------------------------------------------

\* verify_chain
ChainVerifies ==
    \A i \in DOMAIN trail :
        /\ trail[i].previous_hash = IF i = 1 THEN "GENESIS" ELSE trail[i - 1].event_hash
        /\ trail[i].event_hash = EventHash(trail[i].event_id, trail[i].trace,
                                           trail[i].payload, trail[i].previous_hash)
        /\ \A j \in 1 .. i - 1 : trail[j].event_id # trail[i].event_id

\* The forensic signals of a trace: the same action three times at its end, or
\* more than one authority.
OfTrace(t) == Picked(trail, {i \in DOMAIN trail : trail[i].trace = t})

RepeatedAction(t) ==
    LET n == Len(OfTrace(t))
    IN  n >= 3 /\ \A k \in n - 2 .. n :
                      OfTrace(t)[k].payload.action = OfTrace(t)[n].payload.action

AuthorityChurn(t) ==
    Cardinality({OfTrace(t)[k].payload.authority : k \in DOMAIN OfTrace(t)}) > 1

\* A nonce is spent exactly when its request is permitted, and once: a request
\* refused because evidence, replay or a review is missing, or the graph lacks an
\* edge, can be completed and submitted again.
SpentByPermitOnly ==
    \A b \in Bindings :
        /\ permits[b] =< 1
        /\ b \in claimed <=> permits[b] = 1

\* The ledger verifies whatever callers do with the payloads they hold, and an
\* action repeated in a trace is never the work of one authority: forensics
\* reports the churn with it, because a nonce runs once.
TrailIsSound ==
    /\ ChainVerifies
    /\ \A t \in Traces : RepeatedAction(t) => AuthorityChurn(t)
=============================================================================
