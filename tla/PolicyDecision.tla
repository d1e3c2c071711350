---------------------------- MODULE PolicyDecision ----------------------------
(***************************************************************************)
(* How /v1/action/evaluate picks a verdict (action_gate/app.py) and what   *)
(* /v1/replay makes of the record later, after evidence has gone stale,    *)
(* the policy was replaced and the signing keys were rotated               *)
(* (policy_store.py, keyring.py).                                          *)
(*                                                                         *)
(* One decision, about one action.  A policy is the set of its lists that  *)
(* name the action.  A signature is the secret it was made with.           *)
(***************************************************************************)
EXTENDS Naturals, FiniteSets, Functions

CONSTANTS
    EvidenceSets,   \* what a request may bring, see EvidenceItem
    KeyIds,         \* keys of ACTION_GATE_SIGNING_KEYS; a key's secret is its id
    LegacySignals,  \* of records an older version stored; empty if there are none
    Unset,          \* an environment variable that is not set
    NoDecision,
    LastDay         \* bound: evidence expires up to it

Lists == {"critical", "high_risk", "external"}

\* An expires_at is absent, a time, not a timestamp, or one without a timezone.
EvidenceItem ==
    [value : 1 .. 2, state : {"FACT", "UNKNOWN"},
     expires : {"never", "at", "invalid", "naive"}, expires_at : 0 .. LastDay]

\* PreExecutionSignal.mode, which determines the consumer_action.
Modes == {"PROCEED", "HOLD", "INHIBIT", "UNKNOWN"}

ASSUME PolicyAssumption ==
    /\ EvidenceSets \subseteq SUBSET EvidenceItem
    /\ LegacySignals \subseteq Modes \cup {"none"}
    /\ LastDay \in Nat
    /\ Unset \notin KeyIds

VARIABLES
    day,        \* the time
    policy,     \* POLICY_SNAPSHOT of the running server
    server,     \* its keys: [signing_secret, keys, key_id]
    decision    \* the stored record

policyVars == <<day, policy, server, decision>>

-----------------------------------------------------------------------------

\* _configured_keys: ACTION_GATE_SIGNING_KEYS, or else the one secret there is.
Ring(s) ==
    IF s.keys # {} THEN [k \in s.keys |-> k]
    ELSE IF s.signing_secret # Unset THEN [k \in {s.key_id} |-> s.signing_secret]
    ELSE <<>>

\* sign: ACTION_GATE_SIGNING_SECRET goes before the current key.
SignedWith(s) ==
    IF s.signing_secret # Unset THEN s.signing_secret ELSE Ring(s)[s.key_id]

VerifiesCurrentKey(s, d) == SignedWith(s) = d.signature

\* verify_signature: the key the record names, or whatever sign would use now.
Verifies(s, d) ==
    \/ d.key_id \in DOMAIN Ring(s) /\ Ring(s)[d.key_id] = d.signature
    \/ SignedWith(s) = d.signature

-----------------------------------------------------------------------------

\* normalize_evidence.  Comparing a time without a timezone raises TypeError,
\* which nothing catches.
Raises(evidence) == \E e \in evidence : e.expires = "naive"

StateOf(e) ==
    CASE e.expires = "invalid" -> "UNKNOWN"
      [] e.expires = "at" /\ e.expires_at =< day -> "STALE"
      [] OTHER -> e.state

Normalized(evidence) == {[e EXCEPT !.state = StateOf(e)] : e \in evidence}

Contradictory(evidence) == \E e, f \in evidence : e.value # f.value

\* evidence_gate
Blocked(evidence) ==
    \/ Contradictory(evidence)
    \/ \E e \in Normalized(evidence) : e.state \in {"UNKNOWN", "STALE"}

\* evaluate_risk
Risk(lists, production) ==
    IF "critical" \in lists \/ ("high_risk" \in lists /\ production)
    THEN "CRITICAL"
    ELSE IF lists # {} THEN "HIGH" ELSE "LOW"

\* compute_signal
Signal(lists, risk, evidence) ==
    CASE risk = "CRITICAL" -> "INHIBIT"
      [] risk = "HIGH" /\ "high_risk" \in lists -> "HOLD"
      [] lists # {} /\ evidence = {} -> "UNKNOWN"
      [] OTHER -> "PROCEED"

\* decide, and decide_legacy, whose records may have no signal.
Verdict(lists, risk, signal) ==
    CASE signal = "INHIBIT" -> "DENY"
      [] signal \in {"HOLD", "UNKNOWN"} -> "ASK"
      [] OTHER ->
           IF "critical" \in lists THEN "SANDBOX"
           ELSE IF "high_risk" \in lists /\ risk = "CRITICAL" THEN "DENY"
           ELSE IF lists # {} THEN "ASK" ELSE "ALLOW"

\* What evaluate stores: blocked evidence makes it ASK whatever the policy says.
Record(lists, production, evidence, signal) ==
    [lists |-> lists, production |-> production,
     evidence |-> Normalized(evidence), signal |-> signal,
     forced |-> Blocked(evidence), approval |-> "none",
     decision |-> IF Blocked(evidence) THEN "ASK"
                  ELSE Verdict(lists, Risk(lists, production), signal),
     key_id |-> server.key_id, signature |-> SignedWith(server)]

\* Records of schema 3.0, which an older version stored: their signal came with
\* the request or not at all.
LegacyRecords ==
    {Record(l, p, e, s) : l \in SUBSET Lists, p \in BOOLEAN,
        e \in {f \in EvidenceSets : ~Raises(f)}, s \in LegacySignals}

\* load_policy accepts any lists; a production server has a secret.
PolicyInit ==
    /\ day = 0
    /\ policy \in SUBSET Lists
    /\ server \in {[signing_secret |-> s, keys |-> k, key_id |-> i] :
                      s \in {Unset, "signing"}, k \in SUBSET KeyIds, i \in KeyIds}
    /\ server.keys # {} => server.key_id \in server.keys
    /\ server.keys = {} => server.signing_secret # Unset
    /\ decision \in {NoDecision} \cup LegacyRecords

-----------------------------------------------------------------------------

Evaluate ==
    /\ decision = NoDecision
    /\ \E production \in BOOLEAN, evidence \in EvidenceSets :
           /\ ~Raises(evidence)
           /\ decision' = Record(policy, production, evidence,
                  Signal(policy, Risk(policy, production), evidence))
    /\ UNCHANGED <<day, policy, server>>

\* load answers nothing for a record whose signature does not verify.
Loads == decision # NoDecision /\ Verifies(server, decision)

\* Its other conditions are those of ExecutionGate.
Approve ==
    /\ Loads
    /\ decision.decision = "ASK"
    /\ \E approved \in BOOLEAN :
           decision' = [decision EXCEPT
               !.approval = IF approved THEN "approved" ELSE "rejected",
               !.decision = IF approved THEN "ALLOW" ELSE "DENY"]
    /\ UNCHANGED <<day, policy, server>>

\* The server is restarted with another policy.
DeployPolicy ==
    /\ \E lists \in SUBSET Lists : policy' = lists
    /\ UNCHANGED <<day, server, decision>>

\* PRODUCT/OPERATIONS_RUNBOOK.md: the new key is added and selected, the keys
\* there were are kept.
RotateKey ==
    /\ \E k \in KeyIds :
           server' = [server EXCEPT !.keys = @ \cup {k}, !.key_id = k]
    /\ UNCHANGED <<day, policy, decision>>

DayPasses ==
    /\ day < LastDay
    /\ day' = day + 1
    /\ UNCHANGED <<policy, server, decision>>

PolicyNext ==
    Evaluate \/ Approve \/ DeployPolicy \/ RotateKey \/ DayPasses

PolicySpec == PolicyInit /\ [][PolicyNext]_policyVars

-----------------------------------------------------------------------------

ReplayedListsOfToday == policy

\* replay: the recorded policy, evidence and signal, not today's.
ReplayedLists == decision.lists

\* What replay compares the replayed verdict with.
Expected ==
    IF decision.approval # "none" /\ decision.decision \in {"ALLOW", "DENY"}
    THEN "ASK" ELSE decision.decision

PolicyVerdict ==
    Verdict(ReplayedLists, Risk(ReplayedLists, decision.production), decision.signal)

Match ==
    /\ PolicyVerdict = Expected
    /\ ~Contradictory(decision.evidence)

\* Whatever keys are added and selected in whatever order, and whether or not
\* ACTION_GATE_SIGNING_SECRET is set beside them, a decision can be loaded.
RotationKeepsDecision == decision # NoDecision => Verifies(server, decision)

\* Replay reports a mismatch only of a decision that evidence forced to ASK where
\* the policy had another verdict, or that was contradictory: never because time
\* passed, another policy was deployed or a human approved.
ReplayReports ==
    decision # NoDecision =>
        (Match <=> \/ ~decision.forced
                   \/ /\ ~Contradictory(decision.evidence)
                      /\ Verdict(decision.lists,
                                 Risk(decision.lists, decision.production),
                                 decision.signal) = "ASK")

\* PRODUCT/CUSTOMER_ACCEPTANCE_MATRIX.md AG-15: the replay of a recorded decision
\* matches it.
RecordedDecisionReplays == Loads => Match
=============================================================================
