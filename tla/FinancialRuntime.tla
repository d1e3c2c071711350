--------------------------- MODULE FinancialRuntime ---------------------------
(***************************************************************************)
(* ControlledFinancialRuntime (financial_runtime/runtime.py): an operation *)
(* is reserved in the IdempotencyVault under the hash of its payload,      *)
(* decided, dispatched to a destination and verified.  One caller at a     *)
(* time; what varies is the destination, which may raise before or after   *)
(* it has acted, and the order of the calls.                               *)
(***************************************************************************)
EXTENDS Naturals

CONSTANTS
    Operations,    \* operation ids
    Candidates,    \* match candidates; the source event is fixed
    NoCandidate,   \* authorize called without a candidate
    NoRecord           \* no record in the vault, no call under way

VaultStates ==
    {"RESERVED", "ALLOW", "DENY", "ASK", "DEFER", "DISPATCHED", "UNKNOWN", "VERIFIED"}

ASSUME FinancialAssumption ==
    /\ NoRecord \notin VaultStates
    /\ NoCandidate \notin Candidates
    /\ NoRecord \notin [operation : Operations, candidate : Candidates \cup {NoCandidate}]

\* What operation_hash digests: the hash is one-to-one on payloads.
Payloads == [operation : Operations, candidate : Candidates \cup {NoCandidate}]

\* Everything decide looks at beyond the vault.
Circumstances ==
    [evidence_complete : BOOLEAN, policy_allows : BOOLEAN, exact : BOOLEAN]

VARIABLES
    vault,       \* state of each operation hash
    running,     \* the execute call under way, if any
    dispatched,  \* ghost: payloads handed to a destination, how often
    effects      \* ghost: payloads the destination acted on

financeVars == <<vault, running, dispatched, effects>>

FinanceInit ==
    /\ vault = [p \in Payloads |-> NoRecord]
    /\ running = NoRecord
    /\ dispatched = [p \in Payloads |-> 0]
    /\ effects = {}

-----------------------------------------------------------------------------

FreshUnlessExecuted(p) == vault[p] \notin {"DISPATCHED", "VERIFIED"}

\* reserve: the operation is fresh if the vault has no record of it.
Fresh(p) == vault[p] = NoRecord

\* decide, its tests in order; the score is 1 for an exact match only.
Decision(p, c) ==
    CASE ~Fresh(p)                    -> "DENY"
      [] Fresh(p) /\ ~c.evidence_complete  -> "DEFER"
      [] Fresh(p) /\ c.evidence_complete /\ ~c.policy_allows -> "DENY"
      [] OTHER -> IF p.candidate # NoCandidate /\ c.exact THEN "ALLOW" ELSE "ASK"

\* authorize: the decision overwrites the state of the operation, even of one
\* that has run.
Authorize(p, c) ==
    /\ running = NoRecord
    /\ vault' = [vault EXCEPT ![p] = Decision(p, c)]
    /\ UNCHANGED <<running, dispatched, effects>>

\* execute, up to the destination: an operation not allowed ends as FAILED.
Execute(p, c) ==
    /\ running = NoRecord
    /\ p.candidate # NoCandidate
    /\ IF Decision(p, c) = "ALLOW"
       THEN /\ vault' = [vault EXCEPT ![p] = "DISPATCHED"]
            /\ running' = [payload |-> p, at |-> "dispatched"]
            /\ dispatched' = [dispatched EXCEPT ![p] = @ + 1]
       ELSE /\ vault' = [vault EXCEPT ![p] = Decision(p, c)]
                    /\ UNCHANGED <<running, dispatched>>
    /\ UNCHANGED effects

\* destination.execute raises, having acted or not.
DestinationRaises ==
    /\ running # NoRecord /\ running.at = "dispatched"
    /\ vault' = [vault EXCEPT ![running.payload] = "UNKNOWN"]
    /\ running' = NoRecord
    /\ effects' \in {effects, effects \cup {running.payload}}
    /\ UNCHANGED dispatched

DestinationActs ==
    /\ running # NoRecord /\ running.at = "dispatched"
    /\ running' = [running EXCEPT !.at = "executed"]
    /\ effects' = effects \cup {running.payload}
    /\ UNCHANGED <<vault, dispatched>>

Verified(answer) == IF answer THEN "VERIFIED" ELSE "UNKNOWN"

\* destination.verify answers; an answer without "verified" counts as false.
DestinationVerifies ==
    /\ running # NoRecord /\ running.at = "executed"
    /\ \E answer \in BOOLEAN :
           /\ vault' = [vault EXCEPT ![running.payload] = Verified(answer)]
           /\ running' = NoRecord
    /\ UNCHANGED <<dispatched, effects>>

\* verify is outside the try: its exception reaches the caller, no record is
\* returned, and the vault keeps DISPATCHED.
VerifyRaises ==
    /\ running # NoRecord /\ running.at = "executed"
    /\ running' = NoRecord
    /\ UNCHANGED <<vault, dispatched, effects>>

FinanceNext ==
    \/ \E p \in Payloads, c \in Circumstances : Authorize(p, c) \/ Execute(p, c)
    \/ DestinationRaises \/ DestinationActs
    \/ DestinationVerifies \/ VerifyRaises

FinanceSpec == FinanceInit /\ [][FinanceNext]_financeVars

-----------------------------------------------------------------------------

\* An operation reaches a destination at most once, whatever its outcome was
\* reported to be, and one whose effect exists never looks open again: through any
\* number of later authorizations, and even when its verification raised, its state
\* says dispatched, unknown, verified or denied.
DispatchedOnce ==
    /\ \A p \in Payloads : dispatched[p] =< 1
    /\ \A p \in effects : vault[p] \in {"DISPATCHED", "UNKNOWN", "VERIFIED", "DENY"}

\* Why: what was dispatched is in the vault, never again in an open state.
FinanceInv ==
    /\ \A p \in Payloads :
           /\ dispatched[p] \in {0, 1}
           /\ dispatched[p] = 1 =>
                  vault[p] \in {"DISPATCHED", "UNKNOWN", "VERIFIED", "DENY"}
    /\ effects \subseteq {p \in Payloads : dispatched[p] = 1}
    /\ running # NoRecord =>
           /\ running.payload \in Payloads
           /\ dispatched[running.payload] = 1
=============================================================================
