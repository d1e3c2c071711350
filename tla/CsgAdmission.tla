----------------------------- MODULE CsgAdmission -----------------------------
(***************************************************************************)
(* What a CSG request passes before and after it is decided: the contract, *)
(* the credentials, the time window and the signature, the record of what  *)
(* was passed and refused, and the replay endpoint that reads this record. *)
(* Anyone can send anything; a caller with the credentials uses the        *)
(* request id as the Idempotency-Key, as the repository's clients do.      *)
(*                                                                         *)
(* The keyring may gain and select keys meanwhile, and keeps what it had.   *)
(*                                                                         *)
(* Looking up or storing the decision of a key is one step: CsgIngress     *)
(* shows it behaves so.  A digest is what it digests, and the timestamp is *)
(* part of the payload.                                                    *)
(***************************************************************************)
EXTENDS StoreClock, Integers

CONSTANTS
    CsgCalls,    \* HTTP requests
    RequestIds,  \* request ids, and Idempotency-Keys
    Bodies,      \* what a request asks for
    DecisionOf,  \* deterministic_decision of a body
    Stamps,      \* timestamps of requests
    CsgKeyIds,   \* keys of ACTION_GATE_SIGNING_KEYS
    Skew,        \* ACTION_GATE_REQUEST_TTL_SKEW_SECONDS
    NoRow        \* no row under a key

CsgPayloads == [id : RequestIds, body : Bodies, timestamp : Stamps]

\* A persisted decision.
CsgRows ==
    [request_id : RequestIds, request_digest : CsgPayloads,
     decision : {DecisionOf[b] : b \in Bodies}, issued_at : Nat, key_id : CsgKeyIds]

ASSUME AdmissionAssumption ==
    /\ Skew \in Nat /\ Stamps \subseteq 0 .. MaxTime
    /\ NoRow \notin CsgRows

VARIABLES
    idempotency_keys,   \* rows by key
    validation_events,
    csgKeys,            \* ACTION_GATE_SIGNING_KEYS and ACTION_GATE_KEY_ID
    csgCall             \* what each HTTP request has come to

admissionVars == <<now, idempotency_keys, validation_events, csgKeys, csgCall>>

\* What is wrong with an HTTP request, besides its age.  Of several faults the code
\* finds the one it looks for first.
Defects == {"none", "no json", "no schema", "no token", "no key", "unsigned"}

Messages == [defect : Defects, payload : CsgPayloads]

AdmissionInit ==
    /\ now = 0
    /\ idempotency_keys = [k \in RequestIds |-> NoRow]
    /\ validation_events = {}
    /\ csgKeys \in {[known |-> {k}, current |-> k] : k \in CsgKeyIds}
    /\ csgCall = [c \in CsgCalls |-> [at |-> "unsent"]]

Event(m, result, error, created_at) ==
    [result |-> result, error |-> error, payload |-> m.payload, created_at |-> created_at,
     request_id |-> IF m.defect = "no json" THEN "none" ELSE m.payload.id]

CsgEnds(c, status) == csgCall' = [csgCall EXCEPT ![c] = [at |-> "answered", status |-> status]]

\* A message is made, or an earlier one sent again.
Send(c) ==
    /\ csgCall[c].at = "unsent"
    /\ \E m \in Messages :
           /\ m.payload.timestamp <= now
           /\ csgCall' = [csgCall EXCEPT ![c] = [at |-> "sent", message |-> m]]
    /\ UNCHANGED <<now, idempotency_keys, validation_events, csgKeys>>

\* The refusals, in the order of the code.
StatusOf(m) ==
    CASE m.defect = "no json" -> 400
      [] m.defect = "no schema" -> 422
      [] m.defect = "no token" -> 401
      [] m.defect = "no key" -> 400
      [] m.defect \in {"unsigned", "none"} /\ now - m.payload.timestamp > Skew -> 408
      [] m.defect = "unsigned" /\ now - m.payload.timestamp <= Skew -> 401
      [] OTHER -> 200

RejectCsg(c) ==
    LET m == csgCall[c].message
    IN  /\ csgCall[c].at = "sent"
        /\ StatusOf(m) # 200
        /\ validation_events' = validation_events \cup {Event(m, "REJECT", StatusOf(m), now)}
        /\ CsgEnds(c, StatusOf(m))
        /\ UNCHANGED <<now, idempotency_keys, csgKeys>>

Admit(c) ==
    LET m == csgCall[c].message
    IN  /\ csgCall[c].at = "sent"
        /\ StatusOf(m) = 200
        /\ csgCall' = [csgCall EXCEPT ![c].at = "admitted"]
        /\ UNCHANGED <<now, idempotency_keys, validation_events, csgKeys>>

\* build_decision
NewRow(m) ==
    [request_id |-> m.payload.id, request_digest |-> m.payload,
     decision |-> DecisionOf[m.payload.body], issued_at |-> now, key_id |-> csgKeys.current]

\* decide, past its checks: the row of the key, or a new one.
DecideKey(c) ==
    LET m == csgCall[c].message
        row == idempotency_keys[m.payload.id]
    IN  /\ csgCall[c].at = "admitted"
        /\ row # NoRow => row.request_digest = m.payload
        /\ idempotency_keys' = [idempotency_keys EXCEPT ![m.payload.id] =
               IF row = NoRow THEN NewRow(m) ELSE row]
        /\ csgCall' = [csgCall EXCEPT ![c] =
               [at |-> "decided", message |-> m, row |-> idempotency_keys'[m.payload.id]]]
        /\ UNCHANGED <<now, validation_events, csgKeys>>

KeyReused(c) ==
    LET m == csgCall[c].message
    IN  /\ csgCall[c].at = "admitted"
        /\ idempotency_keys[m.payload.id] # NoRow
        /\ idempotency_keys[m.payload.id].request_digest # m.payload
        /\ validation_events' = validation_events \cup {Event(m, "REJECT", 409, now)}
        /\ CsgEnds(c, 409)
        /\ UNCHANGED <<now, idempotency_keys, csgKeys>>

\* The PASS event carries the time the decision was issued at.
AnswerDecision(c) ==
    /\ csgCall[c].at = "decided"
    /\ validation_events' = validation_events \cup
           {Event(csgCall[c].message, "PASS", 200, csgCall[c].row.issued_at)}
    /\ csgCall' = [csgCall EXCEPT ![c] =
           [at |-> "answered", status |-> 200, id |-> csgCall[c].message.payload.id,
            row |-> csgCall[c].row]]
    /\ UNCHANGED <<now, idempotency_keys, csgKeys>>

\* The process dies: there is no answer, and what was committed stays.
CrashServer(c) ==
    /\ csgCall[c].at \in {"sent", "admitted", "decided"}
    /\ CsgEnds(c, 0)
    /\ UNCHANGED <<now, idempotency_keys, validation_events, csgKeys>>

\* PRODUCT/OPERATIONS_RUNBOOK.md: a key is added and selected, the others are kept.
RotateCsgKey(k) ==
    /\ csgKeys' = [known |-> csgKeys.known \cup {k}, current |-> k]
    /\ UNCHANGED <<now, idempotency_keys, validation_events, csgCall>>

AdmissionTick ==
    Tick({}) /\ UNCHANGED <<idempotency_keys, validation_events, csgKeys, csgCall>>

AdmissionNext ==
    \/ \E c \in CsgCalls : \/ Send(c) \/ RejectCsg(c) \/ Admit(c)
                           \/ DecideKey(c) \/ KeyReused(c) \/ AnswerDecision(c)
                           \/ CrashServer(c)
    \/ \E k \in CsgKeyIds : RotateCsgKey(k)
    \/ AdmissionTick

AdmissionSpec == AdmissionInit /\ [][AdmissionNext]_admissionVars

-----------------------------------------------------------------------------

EveryEvent(id) == {e \in validation_events : e.request_id = id}

Passed(id) == {e \in validation_events : e.result = "PASS" /\ e.request_id = id}

\* load_validation_request: any of the newest.
LatestPassed(id) ==
    {e \in Passed(id) : \A other \in Passed(id) : other.created_at <= e.created_at}

\* verify_decision_authority, of a stored decision and with require_unexpired=False.
VerifiesAuthority(row, payload) ==
    /\ payload.id = row.request_id
    /\ payload = row.request_digest
    /\ row.key_id \in csgKeys.known

\* csg_replay of a passed request.
ReplayAnswer(id, e) ==
    LET row == idempotency_keys[id]
    IN  IF row = NoRow THEN "csg_decision_not_persisted"
        ELSE IF e.payload # row.request_digest THEN "stored_csg_request_digest_mismatch"
        ELSE IF ~VerifiesAuthority(row, e.payload) THEN "stored_csg_decision_authority_invalid"
        ELSE IF DecisionOf[e.payload.body] # row.decision THEN "no match" ELSE "match"

\* A decision that was answered can be replayed ever after, to the same outcome,
\* whatever is sent again too late, reused, refused or sent by callers without
\* credentials, whatever keys are selected since, and whatever crashes.
AnswersStayReplayable ==
    \A c \in CsgCalls :
        csgCall[c].at = "answered" /\ csgCall[c].status = 200 =>
            /\ idempotency_keys[csgCall[c].id] = csgCall[c].row
            /\ LatestPassed(csgCall[c].id) # {}
            /\ \A e \in LatestPassed(csgCall[c].id) : ReplayAnswer(csgCall[c].id, e) = "match"
=============================================================================
