--------------------------- MODULE AuthorityNonces ---------------------------
(***************************************************************************)
(* The table of consumed authority nonces (storage.consume_authority_nonce *)
(* and purge_authority_nonces), the two callers of                         *)
(* enforcement.enforce_execution_authority - the reference tool and the    *)
(* OANDA broker - and the maintenance command that purges the table.       *)
(*                                                                         *)
(* A call presents one authority.  Signatures are left out: no call        *)
(* presents a forged authority.                                            *)
(***************************************************************************)
EXTENDS StoreClock

CONSTANTS
    Calls,        \* calls of a tool or of the broker
    Nonces,       \* one authority each
    Lifetime,     \* ttl_seconds of issue_authority
    Retention,    \* --older-than-seconds of the purge
    None          \* no row

ASSUME NonceAssumption ==
    /\ Lifetime \in Nat /\ Retention \in Nat
    /\ None \notin Nat

\* The operator keeps a row for as long as a call may still present its nonce.
RetentionCovers == Lifetime + Delay =< Retention

VARIABLES
    issued_at,    \* when each authority was issued
    nonces,       \* authority_nonces: consumed_at of each row
    call          \* what each call is doing, and what came of it

nonceVars == <<now, issued_at, nonces, call>>

-----------------------------------------------------------------------------

\* What may be wrong with a call.  The first six are checked by the broker
\* alone, in this order; "binding" is a request that is not the authorised one.
Faults ==
    {"none", "policy", "no_authority", "no_tenant", "no_token", "no_account",
     "live_disabled", "binding"}

\* validate and the deterministic preconditions of submit_market_order.
BrokerAnswer(fault) ==
    IF fault = "policy" THEN "raised" ELSE "BLOCKED"

CallRecords ==
    [client : {"tool", "broker"}, nonce : Nonces, fault : Faults,
     at : {"idle", "verified", "claimed", "done"},
     verified_at : Nat,           \* also the consumed_at the call will write
     claimed : BOOLEAN,           \* its insertion found no row
     ran : BOOLEAN,               \* the tool ran, or the broker took the order
     answer : {"-", "EXECUTED", "403", "raised", "lost", "BLOCKED", "FILLED",
               "SUBMITTED", "UNKNOWN"}]

Kinds ==
    {k \in [client : {"tool", "broker"}, nonce : Nonces, fault : Faults] :
        k.client = "tool" => k.fault \in {"none", "no_authority", "binding"}}

NewCall(k) ==
    [client |-> k.client, nonce |-> k.nonce, fault |-> k.fault, at |-> "idle",
     verified_at |-> 0, claimed |-> FALSE, ran |-> FALSE, answer |-> "-"]

NonceInit ==
    /\ now = 0
    /\ issued_at \in [Nonces -> 0 .. MaxTime]
    /\ nonces = [n \in Nonces |-> None]
    /\ \E kind \in [Calls -> Kinds] : call = [c \in Calls |-> NewCall(kind[c])]

Ends(c, answer, ran) ==
    call' = [call EXCEPT ![c].at = "done", ![c].answer = answer, ![c].ran = ran]

\* verify_authority, at the clock's time; the decision is always ALLOW.
InLifetime(n) == issued_at[n] =< now /\ now < issued_at[n] + Lifetime

\* The broker binds action and policy before the nonce is consumed; the
\* reference tool's dependency passes neither and compares them afterwards.
Refused(c) ==
    IF call[c].client = "broker"
    THEN call[c].fault # "none"
    ELSE call[c].fault = "no_authority"

Refusal(c) ==
    IF call[c].client = "tool" THEN "403" ELSE BrokerAnswer(call[c].fault)

Reject(c) ==
    /\ call[c].at = "idle"
    /\ Refused(c) \/ ~InLifetime(call[c].nonce)
    /\ Ends(c, Refusal(c), FALSE)
    /\ UNCHANGED <<now, issued_at, nonces>>

\* Verified; consumed_at is read now and written later.
Verify(c) ==
    /\ call[c].at = "idle"
    /\ ~Refused(c)
    /\ InLifetime(call[c].nonce)
    /\ call' = [call EXCEPT ![c].at = "verified", ![c].verified_at = now]
    /\ UNCHANGED <<now, issued_at, nonces>>

\* INSERT ... ON CONFLICT DO NOTHING, one transaction on either backend.
Consume(c) ==
    /\ call[c].at = "verified"
    /\ nonces[call[c].nonce] = None
    /\ nonces' = [nonces EXCEPT ![call[c].nonce] = call[c].verified_at]
    /\ call' = [call EXCEPT ![c].at = "claimed", ![c].claimed = TRUE]
    /\ UNCHANGED <<now, issued_at>>

NonceReused(c) ==
    /\ call[c].at = "verified"
    /\ nonces[call[c].nonce] # None
    /\ Ends(c, Refusal(c), FALSE)
    /\ UNCHANGED <<now, issued_at, nonces>>

\* execute_protected_action after its dependency: bindings, then the answer.
RunTool(c) ==
    /\ call[c].at = "claimed" /\ call[c].client = "tool"
    /\ IF call[c].fault = "binding" THEN Ends(c, "403", FALSE)
                                   ELSE Ends(c, "EXECUTED", TRUE)
    /\ UNCHANGED <<now, issued_at, nonces>>

OutcomesBlocked ==
    {<<"FILLED", TRUE>>, <<"SUBMITTED", TRUE>>, <<"BLOCKED", TRUE>>,
     <<"BLOCKED", FALSE>>, <<"raised", TRUE>>}

\* What the broker's post may come to: the order is taken and the answer
\* arrives, or the answer is lost or an error and the order may have been taken
\* or not, or the order is taken and the answer is not JSON.
Outcomes ==
    {<<"FILLED", TRUE>>, <<"SUBMITTED", TRUE>>, <<"UNKNOWN", TRUE>>,
     <<"UNKNOWN", FALSE>>, <<"raised", TRUE>>}

PostOrder(c) ==
    /\ call[c].at = "claimed" /\ call[c].client = "broker"
    /\ \E outcome \in Outcomes : Ends(c, outcome[1], outcome[2])
    /\ UNCHANGED <<now, issued_at, nonces>>

\* The process dies with the call.
Crash(c) ==
    /\ call[c].at \in {"verified", "claimed"}
    /\ Ends(c, "lost", FALSE)
    /\ UNCHANGED <<now, issued_at, nonces>>

\* The transaction fails, before or after it was committed: the exception is
\* BLOCKED to the broker's caller, an error to the tool's.
ConsumeFails(c) ==
    /\ call[c].at = "verified"
    /\ \/ UNCHANGED nonces
       \/ /\ nonces[call[c].nonce] = None
          /\ nonces' = [nonces EXCEPT ![call[c].nonce] = call[c].verified_at]
    /\ Ends(c, IF call[c].client = "tool" THEN "raised" ELSE "BLOCKED", FALSE)
    /\ UNCHANGED <<now, issued_at>>

PurgeableAtOnce(n, read) == nonces[n] # None /\ nonces[n] < read

Purgeable(n, read) == nonces[n] # None /\ nonces[n] + Retention < read

\* The cutoff is computed from a clock read before the deletion.
Purge ==
    \E read \in 0 .. now :
        /\ nonces' = [n \in Nonces |->
               IF Purgeable(n, read) THEN None ELSE nonces[n]]
        /\ UNCHANGED <<now, issued_at, call>>

NonceTick ==
    /\ Tick({call[c].verified_at : c \in {d \in Calls : call[d].at = "verified"}})
    /\ UNCHANGED <<issued_at, nonces, call>>

NonceNext ==
    \/ \E c \in Calls :
           \/ Reject(c) \/ Verify(c) \/ Consume(c) \/ NonceReused(c)
           \/ RunTool(c) \/ PostOrder(c) \/ Crash(c) \/ ConsumeFails(c)
    \/ Purge
    \/ NonceTick

NonceSpec == NonceInit /\ [][NonceNext]_nonceVars

-----------------------------------------------------------------------------

\* An authority is claimed once, by one call, though its row may be purged and
\* calls verified in time may insert late.
ClaimedOnce ==
    \A c, d \in Calls :
        call[c].claimed /\ call[d].claimed /\ call[c].nonce = call[d].nonce => c = d

\* Why: a claim's row stays until no call verified in time can still insert.
NonceInv ==
    /\ \A c \in Calls :
           call[c].claimed =>
               \/ nonces[call[c].nonce] # None
                  /\ nonces[call[c].nonce] >= issued_at[call[c].nonce]
               \/ issued_at[call[c].nonce] + Lifetime + Delay < now
    /\ \A n \in Nonces : nonces[n] # None => issued_at[n] =< nonces[n]
    /\ \A c \in Calls :
           call[c].at = "verified" =>
               /\ ~call[c].claimed
               /\ issued_at[call[c].nonce] =< call[c].verified_at
               /\ call[c].verified_at < issued_at[call[c].nonce] + Lifetime
               /\ now =< call[c].verified_at + Delay

\* The broker's answer never denies an order that may exist: BLOCKED means no
\* order, an order that exists is answered as one or as UNKNOWN, or the call
\* ends without an answer; and an authority is used up only by an order sent.
BrokerAnswersTrue ==
    \A c \in Calls :
        call[c].client = "broker" /\ call[c].at = "done" =>
            /\ call[c].ran => call[c].answer \in {"FILLED", "SUBMITTED", "UNKNOWN", "raised"}
            /\ call[c].answer \in {"FILLED", "SUBMITTED"} => call[c].ran
            /\ call[c].claimed => call[c].answer # "BLOCKED"
            /\ call[c].fault # "none" => ~call[c].claimed
=============================================================================
