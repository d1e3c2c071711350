----------------------------- MODULE StoreProofs -----------------------------
(***************************************************************************)
(* Proofs about the tables processes share - rate limits, nonces, oracle   *)
(* commits - and about the vault of the financial runtime: any number of   *)
(* requests, calls, commits and operations, any delay, window and limit.   *)
(***************************************************************************)
EXTENDS RateLimiter, AuthorityNonces, OracleCommits, FinancialRuntime,
        AuditChain, SecurityPlane, InductionFacts, FiniteSetTheorems,
        SequenceTheorems, TLAPS

-----------------------------------------------------------------------------
(* The financial runtime.                                                  *)

\* The types of the vault and of the call under way.
FinanceTypeOK ==
    /\ vault \in [Payloads -> VaultStates \cup {NoRecord}]
    /\ running \in {NoRecord} \cup [payload : Payloads, at : {"dispatched", "executed"}]
    /\ dispatched \in [Payloads -> Nat]

\* decide answers a state of the vault, and ALLOW only for what the vault has
\* no record of.
LEMMA DecisionFacts ==
    ASSUME NEW p \in Payloads, NEW c \in Circumstances
    PROVE  /\ Decision(p, c) \in {"ALLOW", "DENY", "ASK", "DEFER"}
           /\ Decision(p, c) = "ALLOW" => vault[p] = NoRecord
           /\ vault[p] # NoRecord => Decision(p, c) = "DENY"
BY DEF Decision, Fresh

\* A decision written to the vault leaves the types and the invariant.
LEMMA DecidedKeeps ==
    ASSUME FinanceTypeOK, FinanceInv, NEW p \in Payloads, NEW c \in Circumstances,
           vault' = [vault EXCEPT ![p] = Decision(p, c)],
           UNCHANGED <<running, dispatched, effects>>
    PROVE  (FinanceTypeOK /\ FinanceInv)'
<1>1. Decision(p, c) \in VaultStates
  BY DecisionFacts DEF VaultStates
<1>2. FinanceTypeOK'
  BY <1>1 DEF FinanceTypeOK
<1>3. \A q \in Payloads : dispatched[q] = 1 =>
          vault'[q] \in {"DISPATCHED", "UNKNOWN", "VERIFIED", "DENY"}
  <2>1. ASSUME NEW q \in Payloads, dispatched[q] = 1
        PROVE  vault'[q] \in {"DISPATCHED", "UNKNOWN", "VERIFIED", "DENY"}
    <3>1. vault[q] \in {"DISPATCHED", "UNKNOWN", "VERIFIED", "DENY"}
      BY <2>1 DEF FinanceInv
    <3>2. vault[q] # NoRecord
      BY <3>1, FinancialAssumption DEF VaultStates
    <3>3. QED BY <3>1, <3>2, DecisionFacts DEF FinanceTypeOK
  <2>2. QED BY <2>1
<1>4. QED BY <1>2, <1>3 DEF FinanceInv

\* The invariant holds of every step.
LEMMA FinanceStep ==
    ASSUME FinanceTypeOK, FinanceInv, [FinanceNext]_financeVars
    PROVE  (FinanceTypeOK /\ FinanceInv)'
<1>1. ASSUME NEW p \in Payloads, NEW c \in Circumstances, Authorize(p, c)
      PROVE  (FinanceTypeOK /\ FinanceInv)'
  BY <1>1, DecidedKeeps DEF Authorize
<1>2. ASSUME NEW p \in Payloads, NEW c \in Circumstances, Execute(p, c)
      PROVE  (FinanceTypeOK /\ FinanceInv)'
  <2>1. CASE Decision(p, c) = "ALLOW"
    <3>1. vault[p] \notin VaultStates
      BY <2>1, DecisionFacts, FinancialAssumption
    <3>2. dispatched[p] = 0
      BY <3>1 DEF FinanceInv, VaultStates
    <3>3. /\ vault' = [vault EXCEPT ![p] = "DISPATCHED"]
          /\ running' = [payload |-> p, at |-> "dispatched"]
          /\ dispatched' = [dispatched EXCEPT ![p] = 1]
          /\ effects' = effects
      BY <1>2, <2>1, <3>2 DEF Execute, FinanceTypeOK
    <3>4. FinanceTypeOK'
      BY <3>3 DEF FinanceTypeOK, VaultStates
    <3>5. FinanceInv'
      BY <3>3 DEF FinanceInv, FinanceTypeOK
    <3>6. QED BY <3>4, <3>5
  <2>2. CASE Decision(p, c) # "ALLOW"
    BY <1>2, <2>2, DecidedKeeps DEF Execute
  <2>3. QED BY <2>1, <2>2
<1>3. CASE DestinationRaises
  <2>1. running.payload \in Payloads /\ dispatched[running.payload] = 1
    BY <1>3 DEF DestinationRaises, FinanceInv
  <2>2. QED BY <1>3, <2>1 DEF DestinationRaises, FinanceInv, FinanceTypeOK, VaultStates
<1>4. CASE DestinationActs
  <2>1. /\ running \in [payload : Payloads, at : {"dispatched", "executed"}]
        /\ dispatched[running.payload] = 1
    BY <1>4 DEF DestinationActs, FinanceInv, FinanceTypeOK
  <2>2. running' = [running EXCEPT !.at = "executed"] /\ running'.payload = running.payload
    BY <1>4, <2>1 DEF DestinationActs
  <2>3. running' \in [payload : Payloads, at : {"dispatched", "executed"}]
    BY <2>1, <2>2
  <2>4. QED BY <1>4, <2>1, <2>2, <2>3 DEF DestinationActs, FinanceInv, FinanceTypeOK
<1>5. CASE DestinationVerifies
  <2>1. running.payload \in Payloads
    BY <1>5 DEF DestinationVerifies, FinanceInv
  <2>2. PICK answer \in BOOLEAN :
            vault' = [vault EXCEPT ![running.payload] = Verified(answer)]
    BY <1>5 DEF DestinationVerifies
  <2>3. Verified(answer) \in {"VERIFIED", "UNKNOWN"}
    BY DEF Verified
  <2>4. QED BY <1>5, <2>1, <2>2, <2>3
            DEF DestinationVerifies, FinanceInv, FinanceTypeOK, VaultStates
<1>6. CASE VerifyRaises
  BY <1>6 DEF VerifyRaises, FinanceInv, FinanceTypeOK
<1>7. CASE UNCHANGED financeVars
  BY <1>7 DEF financeVars, FinanceInv, FinanceTypeOK
<1>8. QED BY <1>1, <1>2, <1>3, <1>4, <1>5, <1>6, <1>7 DEF FinanceNext

\* A financial operation is handed to a destination at most once, and what has had
\* an effect never looks open again, whatever the destination raised and however
\* often it is authorized later.
THEOREM FinanceDispatchedOnce == FinanceSpec => []DispatchedOnce
<1>1. FinanceInit => FinanceTypeOK /\ FinanceInv
  BY DEF FinanceInit, FinanceTypeOK, FinanceInv
<1>2. FinanceTypeOK /\ FinanceInv /\ [FinanceNext]_financeVars => (FinanceTypeOK /\ FinanceInv)'
  BY FinanceStep
<1>3. FinanceTypeOK /\ FinanceInv => DispatchedOnce
  <2>1. ASSUME FinanceInv, NEW p \in Payloads PROVE dispatched[p] =< 1
    BY <2>1 DEF FinanceInv
  <2>2. ASSUME FinanceInv, NEW p \in effects
        PROVE  vault[p] \in {"DISPATCHED", "UNKNOWN", "VERIFIED", "DENY"}
    BY <2>2 DEF FinanceInv
  <2>3. QED BY <2>1, <2>2 DEF DispatchedOnce
<1>4. QED BY <1>1, <1>2, <1>3, PTL DEF FinanceSpec

-----------------------------------------------------------------------------
(* The nonces.                                                             *)

\* The types of the nonces and the calls.
NonceTypeOK ==
    /\ now \in Nat
    /\ issued_at \in [Nonces -> Nat]
    /\ nonces \in [Nonces -> Nat \cup {None}]
    /\ call \in [Calls -> CallRecords]

\* What the broker's answer rests on: a call at fault never claims, and nothing is
\* claimed or sent before its turn.
CallInv ==
    \A c \in Calls :
        /\ call[c].at \in {"idle", "verified"} => ~call[c].claimed
        /\ call[c].at # "done" => ~call[c].ran
        /\ call[c].client = "broker" /\ call[c].fault # "none" =>
               ~call[c].claimed /\ call[c].at \in {"idle", "done"}

\* The records of the calls a behaviour begins with.
LEMMA NewCallFacts ==
    ASSUME NEW k \in Kinds
    PROVE  /\ NewCall(k) \in CallRecords
           /\ NewCall(k).at = "idle" /\ ~NewCall(k).claimed /\ ~NewCall(k).ran
  BY SMTT(60) DEF Kinds, NewCall, CallRecords, Faults

\* Behaviours begin in the invariant.
LEMMA NonceStart ==
    ASSUME NonceInit
    PROVE  NonceTypeOK /\ NonceInv /\ CallInv /\ ClaimedOnce /\ BrokerAnswersTrue
<1>1. PICK kind \in [Calls -> Kinds] : call = [c \in Calls |-> NewCall(kind[c])]
  BY DEF NonceInit
<1>2. \A c \in Calls : /\ call[c] \in CallRecords
                       /\ call[c].at = "idle" /\ ~call[c].claimed /\ ~call[c].ran
  BY <1>1, NewCallFacts
<1>3. issued_at \in [Nonces -> Nat]
  BY ClockAssumption DEF NonceInit
<1>4. NonceTypeOK
  BY <1>1, <1>2, <1>3 DEF NonceInit, NonceTypeOK
<1>5. QED BY <1>2, <1>4
          DEF NonceInit, NonceInv, CallInv, ClaimedOnce, BrokerAnswersTrue

\* A call that ends writes its place, its answer and whether it ran.
LEMMA EndsFacts ==
    ASSUME NonceTypeOK, NEW c \in Calls, NEW answer, NEW sent \in BOOLEAN,
           answer \in {"EXECUTED", "403", "raised", "lost", "BLOCKED", "FILLED",
                       "SUBMITTED", "UNKNOWN"},
           Ends(c, answer, sent)
    PROVE  /\ call' \in [Calls -> CallRecords]
           /\ call'[c].at = "done" /\ call'[c].answer = answer /\ call'[c].ran = sent
           /\ \A d \in Calls \ {c} : call'[d] = call[d]
           /\ \A d \in Calls : /\ call'[d].nonce = call[d].nonce
                               /\ call'[d].claimed = call[d].claimed
                               /\ call'[d].client = call[d].client
                               /\ call'[d].fault = call[d].fault
                               /\ call'[d].verified_at = call[d].verified_at
<1>1. call[c] \in CallRecords
  BY DEF NonceTypeOK
<1>2. call' = [call EXCEPT ![c] =
                  [call[c] EXCEPT !.at = "done", !.answer = answer, !.ran = sent]]
  BY DEF Ends, NonceTypeOK
<1>3. [call[c] EXCEPT !.at = "done", !.answer = answer, !.ran = sent] \in CallRecords
  BY <1>1 DEF CallRecords
<1>4. QED BY <1>1, <1>2, <1>3 DEF NonceTypeOK, CallRecords
\* The ends of a call: each leaves the clock, and the table unless the transaction
\* of the nonce failed after it was committed.
EndsSomehow(c) ==
    \E answer \in {"EXECUTED", "403", "raised", "lost", "BLOCKED", "FILLED",
                   "SUBMITTED", "UNKNOWN"}, sent \in BOOLEAN :
        Ends(c, answer, sent)

\* Each of the actions that end a call does so.
LEMMA EndingActions ==
    ASSUME NonceTypeOK, NEW c \in Calls,
           \/ Reject(c) \/ NonceReused(c) \/ RunTool(c) \/ PostOrder(c) \/ Crash(c)
           \/ ConsumeFails(c)
    PROVE  /\ EndsSomehow(c)
           /\ now' = now /\ issued_at' = issued_at
           /\ nonces' = nonces \/ ConsumeFails(c)
<1>1. Refusal(c) \in {"403", "raised", "BLOCKED"}
  BY DEF Refusal, BrokerAnswer
<1>2. CASE Reject(c)
  <2>1. Ends(c, Refusal(c), FALSE)
    BY <1>2 DEF Reject
  <2>2. EndsSomehow(c)
    BY <1>1, <2>1 DEF EndsSomehow
  <2>3. QED BY <1>2, <2>2 DEF Reject
<1>3. CASE NonceReused(c)
  <2>1. Ends(c, Refusal(c), FALSE)
    BY <1>3 DEF NonceReused
  <2>2. EndsSomehow(c)
    BY <1>1, <2>1 DEF EndsSomehow
  <2>3. QED BY <1>3, <2>2 DEF NonceReused
<1>4. CASE RunTool(c)
  <2>1. Ends(c, "403", FALSE) \/ Ends(c, "EXECUTED", TRUE)
    BY <1>4 DEF RunTool
  <2>2. EndsSomehow(c)
    BY <2>1 DEF EndsSomehow
  <2>3. QED BY <1>4, <2>2 DEF RunTool
<1>5. CASE PostOrder(c)
  <2>1. PICK outcome \in Outcomes : Ends(c, outcome[1], outcome[2])
    BY <1>5 DEF PostOrder
  <2>2. \/ outcome = <<"FILLED", TRUE>> \/ outcome = <<"SUBMITTED", TRUE>>
        \/ outcome = <<"UNKNOWN", TRUE>> \/ outcome = <<"UNKNOWN", FALSE>>
        \/ outcome = <<"raised", TRUE>>
    BY <2>1, Zenon DEF Outcomes
  <2>3. EndsSomehow(c)
    <3>1. CASE outcome = <<"FILLED", TRUE>>
      BY <2>1, <3>1 DEF EndsSomehow
    <3>2. CASE outcome = <<"SUBMITTED", TRUE>>
      BY <2>1, <3>2 DEF EndsSomehow
    <3>3. CASE outcome = <<"UNKNOWN", TRUE>>
      BY <2>1, <3>3 DEF EndsSomehow
    <3>4. CASE outcome = <<"UNKNOWN", FALSE>>
      BY <2>1, <3>4 DEF EndsSomehow
    <3>5. CASE outcome = <<"raised", TRUE>>
      BY <2>1, <3>5 DEF EndsSomehow
    <3>6. QED BY <2>2, <3>1, <3>2, <3>3, <3>4, <3>5
  <2>4. QED BY <1>5, <2>3 DEF PostOrder
<1>6. CASE Crash(c)
  <2>1. EndsSomehow(c)
    BY <1>6 DEF Crash, EndsSomehow
  <2>2. QED BY <1>6, <2>1 DEF Crash
<1>7. CASE ConsumeFails(c)
  <2>1. Ends(c, "raised", FALSE) \/ Ends(c, "BLOCKED", FALSE)
    BY <1>7 DEF ConsumeFails
  <2>2. EndsSomehow(c)
    BY <2>1 DEF EndsSomehow
  <2>3. QED BY <1>7, <2>2 DEF ConsumeFails
<1>8. QED BY <1>2, <1>3, <1>4, <1>5, <1>6, <1>7

\* A row that is written now, for a call verified in time, satisfies the invariant
\* of the table, and none that are there are touched.
LEMMA RowWritten ==
    ASSUME NonceTypeOK, NonceInv, NEW c \in Calls, call[c].at = "verified",
           nonces[call[c].nonce] = None,
           nonces' = [nonces EXCEPT ![call[c].nonce] = call[c].verified_at],
           issued_at' = issued_at
    PROVE  /\ nonces' \in [Nonces -> Nat \cup {None}]
           /\ \A n \in Nonces : nonces'[n] # None => issued_at[n] =< nonces'[n]
           /\ \A n \in Nonces : nonces[n] # None => nonces'[n] = nonces[n]
           /\ nonces'[call[c].nonce] = call[c].verified_at
<1>1. call[c] \in CallRecords
  BY DEF NonceTypeOK
<1>2. call[c].nonce \in Nonces /\ call[c].verified_at \in Nat
  BY <1>1 DEF CallRecords
<1>3. issued_at[call[c].nonce] =< call[c].verified_at
  BY DEF NonceInv
<1>4. QED BY <1>2, <1>3 DEF NonceTypeOK, NonceInv

\* The end of a call keeps the invariant.
LEMMA EndingKeeps ==
    ASSUME NonceTypeOK, NonceInv, NEW c \in Calls,
           EndsSomehow(c), now' = now, issued_at' = issued_at,
           nonces' = nonces \/ ConsumeFails(c)
    PROVE  (NonceTypeOK /\ NonceInv)'
<1>1. PICK answer \in {"EXECUTED", "403", "raised", "lost", "BLOCKED", "FILLED",
                       "SUBMITTED", "UNKNOWN"}, sent \in BOOLEAN :
          Ends(c, answer, sent)
  BY DEF EndsSomehow
<1>2. /\ call' \in [Calls -> CallRecords]
      /\ call'[c].at = "done"
      /\ \A d \in Calls \ {c} : call'[d] = call[d]
      /\ \A d \in Calls : call'[d].nonce = call[d].nonce /\ call'[d].claimed = call[d].claimed
  BY <1>1, EndsFacts
<1>3. /\ nonces' \in [Nonces -> Nat \cup {None}]
      /\ \A n \in Nonces : nonces'[n] # None => issued_at[n] =< nonces'[n]
      /\ \A n \in Nonces : nonces[n] # None => nonces'[n] = nonces[n]
  <2>1. CASE nonces' = nonces
    BY <2>1 DEF NonceTypeOK, NonceInv
  <2>2. CASE nonces' # nonces
    BY <2>2, RowWritten DEF ConsumeFails
  <2>3. QED BY <2>1, <2>2
<1>4. \A d \in Calls : call[d].nonce \in Nonces
  BY DEF NonceTypeOK, CallRecords
<1>5. NonceTypeOK'
  BY <1>2, <1>3 DEF NonceTypeOK
<1>6. NonceInv'
  <2>1. \A d \in Calls : call'[d].claimed =>
            \/ nonces'[call'[d].nonce] # None
               /\ nonces'[call'[d].nonce] >= issued_at[call'[d].nonce]
            \/ issued_at[call'[d].nonce] + Lifetime + Delay < now
    BY <1>2, <1>3, <1>4 DEF NonceInv
  <2>2. \A d \in Calls : call'[d].at = "verified" =>
            /\ ~call'[d].claimed
            /\ issued_at[call'[d].nonce] =< call'[d].verified_at
            /\ call'[d].verified_at < issued_at[call'[d].nonce] + Lifetime
            /\ now =< call'[d].verified_at + Delay
    BY <1>2 DEF NonceInv
  <2>3. QED BY <1>3, <2>1, <2>2 DEF NonceInv
<1>7. QED BY <1>5, <1>6
\* A call that is verified or claims its nonce changes only in place, time or claim.
LEMMA VerifyFacts ==
    ASSUME NonceTypeOK, NEW c \in Calls, Verify(c)
    PROVE  /\ call' \in [Calls -> CallRecords]
           /\ call'[c].at = "verified" /\ call'[c].verified_at = now
           /\ call'[c].claimed = call[c].claimed /\ call'[c].nonce = call[c].nonce
           /\ call'[c].client = call[c].client /\ call'[c].fault = call[c].fault
           /\ call'[c].ran = call[c].ran /\ call'[c].answer = call[c].answer
           /\ \A d \in Calls \ {c} : call'[d] = call[d]
<1>1. call[c] \in CallRecords /\ now \in Nat
  BY DEF NonceTypeOK
<1>2. call' = [call EXCEPT ![c] = [call[c] EXCEPT !.at = "verified", !.verified_at = now]]
  BY DEF Verify, NonceTypeOK
<1>3. [call[c] EXCEPT !.at = "verified", !.verified_at = now] \in CallRecords
  BY <1>1 DEF CallRecords
<1>4. QED BY <1>1, <1>2, <1>3 DEF NonceTypeOK, CallRecords

\* Consuming a nonce claims it for its call and leaves the other calls alone.
LEMMA ConsumeFacts ==
    ASSUME NonceTypeOK, NEW c \in Calls, Consume(c)
    PROVE  /\ call' \in [Calls -> CallRecords]
           /\ call'[c].at = "claimed" /\ call'[c].claimed
           /\ call'[c].nonce = call[c].nonce
           /\ call'[c].client = call[c].client /\ call'[c].fault = call[c].fault
           /\ call'[c].ran = call[c].ran /\ call'[c].answer = call[c].answer
           /\ \A d \in Calls \ {c} : call'[d] = call[d]
<1>1. call[c] \in CallRecords
  BY DEF NonceTypeOK
<1>2. call' = [call EXCEPT ![c] = [call[c] EXCEPT !.at = "claimed", !.claimed = TRUE]]
  BY DEF Consume, NonceTypeOK
<1>3. [call[c] EXCEPT !.at = "claimed", !.claimed = TRUE] \in CallRecords
  BY <1>1 DEF CallRecords
<1>4. QED BY <1>1, <1>2, <1>3 DEF NonceTypeOK, CallRecords

\* Every step keeps the types and the invariant of the table.
LEMMA NonceStep ==
    ASSUME NonceTypeOK, NonceInv, CallInv, RetentionCovers, [NonceNext]_nonceVars
    PROVE  (NonceTypeOK /\ NonceInv)'
<1> USE ClockAssumption, NonceAssumption
<1>0. \A d \in Calls : /\ call[d].nonce \in Nonces /\ call[d].verified_at \in Nat
                       /\ issued_at[call[d].nonce] \in Nat
  BY DEF NonceTypeOK, CallRecords
<1>1. ASSUME NEW c \in Calls,
             \/ Reject(c) \/ NonceReused(c) \/ RunTool(c) \/ PostOrder(c) \/ Crash(c)
             \/ ConsumeFails(c)
      PROVE  (NonceTypeOK /\ NonceInv)'
  BY <1>1, EndingActions, EndingKeeps
<1>2. ASSUME NEW c \in Calls, Verify(c) PROVE (NonceTypeOK /\ NonceInv)'
  <2>1. /\ issued_at[call[c].nonce] =< now
        /\ now < issued_at[call[c].nonce] + Lifetime
        /\ now' = now /\ issued_at' = issued_at /\ nonces' = nonces
        /\ call[c].at = "idle"
    BY <1>2 DEF Verify, InLifetime
  <2>2. ~call[c].claimed
    BY <2>1 DEF CallInv
  <2>3. NonceTypeOK'
    BY <1>2, <2>1, VerifyFacts DEF NonceTypeOK
  <2>4. \A d \in Calls : call'[d].claimed = call[d].claimed /\ call'[d].nonce = call[d].nonce
    BY <1>2, VerifyFacts
  <2>5. /\ call'[c].verified_at = now /\ now \in Nat /\ call'[c].claimed = FALSE
        /\ \A d \in Calls \ {c} : call'[d] = call[d]
    BY <1>2, <2>2, <2>4, VerifyFacts DEF NonceTypeOK
  <2>6. \A d \in Calls : call'[d].at = "verified" =>
            /\ ~call'[d].claimed
            /\ issued_at[call'[d].nonce] =< call'[d].verified_at
            /\ call'[d].verified_at < issued_at[call'[d].nonce] + Lifetime
            /\ now =< call'[d].verified_at + Delay
    <3>1. ASSUME NEW d \in Calls, call'[d].at = "verified"
          PROVE  /\ ~call'[d].claimed
                 /\ issued_at[call'[d].nonce] =< call'[d].verified_at
                 /\ call'[d].verified_at < issued_at[call'[d].nonce] + Lifetime
                 /\ now =< call'[d].verified_at + Delay
      <4>1. CASE d = c
        BY <1>0, <2>1, <2>4, <2>5, <4>1
      <4>2. CASE d # c
        BY <2>5, <3>1, <4>2 DEF NonceInv
      <4>3. QED BY <4>1, <4>2
    <3>2. QED BY <3>1
  <2>7. NonceInv'
    BY <2>1, <2>4, <2>6 DEF NonceInv
  <2>8. QED BY <2>3, <2>7
<1>3. ASSUME NEW c \in Calls, Consume(c) PROVE (NonceTypeOK /\ NonceInv)'
  <2>1. /\ now' = now /\ issued_at' = issued_at
        /\ call[c].at = "verified" /\ nonces[call[c].nonce] = None
        /\ nonces' = [nonces EXCEPT ![call[c].nonce] = call[c].verified_at]
    BY <1>3 DEF Consume
  <2>2. QED BY <1>0, <1>3, <2>1, ConsumeFacts, RowWritten DEF NonceTypeOK, NonceInv
<1>4. CASE Purge
  <2>1. PICK read \in 0 .. now :
            nonces' = [n \in Nonces |-> IF Purgeable(n, read) THEN None ELSE nonces[n]]
    BY <1>4 DEF Purge
  <2>2. now' = now /\ issued_at' = issued_at /\ call' = call
    BY <1>4 DEF Purge
  <2>3. nonces' \in [Nonces -> Nat \cup {None}]
    BY <2>1 DEF NonceTypeOK
  <2>4. \A n \in Nonces : nonces'[n] # None => nonces'[n] = nonces[n]
    BY <2>1
  <2>5. ASSUME NEW n \in Nonces, nonces[n] # None, nonces'[n] = None
        PROVE  issued_at[n] + Lifetime + Delay < now
    <3>1. nonces[n] \in Nat /\ nonces[n] + Retention < read /\ read =< now /\ now \in Nat
          /\ issued_at[n] \in Nat /\ issued_at[n] =< nonces[n] /\ read \in Nat
      BY <2>1, <2>5 DEF Purgeable, NonceTypeOK, NonceInv
    <3>2. QED BY <3>1 DEF RetentionCovers
  <2>6. \A d \in Calls : call[d].claimed =>
            \/ nonces'[call[d].nonce] # None
               /\ nonces'[call[d].nonce] >= issued_at[call[d].nonce]
            \/ issued_at[call[d].nonce] + Lifetime + Delay < now
    BY <1>0, <2>4, <2>5 DEF NonceInv
  <2>7. QED BY <2>2, <2>3, <2>4, <2>6 DEF NonceTypeOK, NonceInv
<1>5. CASE NonceTick
  <2>1. /\ now' = now + 1 /\ now \in Nat
        /\ issued_at' = issued_at /\ nonces' = nonces /\ call' = call
    BY <1>5 DEF NonceTick, Tick, NonceTypeOK
  <2>2. \A d \in Calls : call[d].at = "verified" => now < call[d].verified_at + Delay
    BY <1>5 DEF NonceTick, Tick
  <2>3. QED BY <1>0, <2>1, <2>2 DEF NonceTypeOK, NonceInv
<1>6. CASE UNCHANGED nonceVars
  BY <1>6 DEF nonceVars, NonceTypeOK, NonceInv
<1>7. QED BY <1>1, <1>2, <1>3, <1>4, <1>5, <1>6 DEF NonceNext
\* Every step keeps what the broker's answers rest on.
LEMMA CallStep ==
    ASSUME NonceTypeOK, CallInv, [NonceNext]_nonceVars
    PROVE  CallInv'
<1>1. ASSUME NEW c \in Calls,
             \/ Reject(c) \/ NonceReused(c) \/ RunTool(c) \/ PostOrder(c) \/ Crash(c)
             \/ ConsumeFails(c)
      PROVE  CallInv'
  <2>1. PICK answer \in {"EXECUTED", "403", "raised", "lost", "BLOCKED", "FILLED",
                         "SUBMITTED", "UNKNOWN"}, sent \in BOOLEAN :
            Ends(c, answer, sent)
    BY <1>1, EndingActions DEF EndsSomehow
  <2>2. /\ call'[c].at = "done"
        /\ \A d \in Calls \ {c} : call'[d] = call[d]
        /\ \A d \in Calls : /\ call'[d].claimed = call[d].claimed
                            /\ call'[d].client = call[d].client
                            /\ call'[d].fault = call[d].fault
    BY <2>1, EndsFacts
  <2>3. QED BY <2>2 DEF CallInv
<1>2. ASSUME NEW c \in Calls, Verify(c) PROVE CallInv'
  <2>1. call[c].at = "idle" /\ (call[c].client = "broker" => call[c].fault = "none")
    BY <1>2 DEF Verify, Refused
  <2>2. QED BY <1>2, <2>1, VerifyFacts DEF CallInv
<1>3. ASSUME NEW c \in Calls, Consume(c) PROVE CallInv'
  <2>1. call[c].at = "verified"
    BY <1>3 DEF Consume
  <2>2. QED BY <1>3, <2>1, ConsumeFacts DEF CallInv
<1>4. CASE call' = call
  BY <1>4 DEF CallInv
<1>5. QED BY <1>1, <1>2, <1>3, <1>4 DEF NonceNext, nonceVars, Purge, NonceTick

\* Every step keeps a claim the only one.
LEMMA ClaimStep ==
    ASSUME NonceTypeOK, NonceInv, ClaimedOnce, [NonceNext]_nonceVars
    PROVE  ClaimedOnce'
<1> USE ClockAssumption, NonceAssumption
<1>1. ASSUME NEW c \in Calls,
             \/ Reject(c) \/ NonceReused(c) \/ RunTool(c) \/ PostOrder(c) \/ Crash(c)
             \/ ConsumeFails(c)
      PROVE  ClaimedOnce'
  <2>1. PICK answer \in {"EXECUTED", "403", "raised", "lost", "BLOCKED", "FILLED",
                         "SUBMITTED", "UNKNOWN"}, sent \in BOOLEAN :
            Ends(c, answer, sent)
    BY <1>1, EndingActions DEF EndsSomehow
  <2>2. \A d \in Calls : call'[d].nonce = call[d].nonce /\ call'[d].claimed = call[d].claimed
    BY <2>1, EndsFacts
  <2>3. QED BY <2>2 DEF ClaimedOnce
<1>2. ASSUME NEW c \in Calls, Verify(c) PROVE ClaimedOnce'
  <2>1. \A d \in Calls : call'[d].nonce = call[d].nonce /\ call'[d].claimed = call[d].claimed
    BY <1>2, VerifyFacts
  <2>2. QED BY <2>1 DEF ClaimedOnce
<1>3. ASSUME NEW c \in Calls, Consume(c) PROVE ClaimedOnce'
  <2>1. /\ call[c].at = "verified" /\ nonces[call[c].nonce] = None
        /\ call[c].verified_at < issued_at[call[c].nonce] + Lifetime
        /\ now =< call[c].verified_at + Delay
    BY <1>3 DEF Consume, NonceInv
  <2>2. call[c].nonce \in Nonces /\ call[c].verified_at \in Nat
        /\ issued_at[call[c].nonce] \in Nat /\ now \in Nat
    BY DEF NonceTypeOK, CallRecords
  <2>3. ~(issued_at[call[c].nonce] + Lifetime + Delay < now)
    BY <2>1, <2>2
  <2>4. \A d \in Calls : call[d].claimed => call[d].nonce # call[c].nonce
    BY <2>1, <2>3 DEF NonceInv
  <2>5. /\ \A d \in Calls \ {c} : call'[d] = call[d]
        /\ call'[c].nonce = call[c].nonce
    BY <1>3, ConsumeFacts
  <2>6. QED BY <2>4, <2>5 DEF ClaimedOnce
<1>4. CASE call' = call
  BY <1>4 DEF ClaimedOnce
<1>5. QED BY <1>1, <1>2, <1>3, <1>4 DEF NonceNext, nonceVars, Purge, NonceTick

\* The end of a broker's call: what was sent, answered and claimed agree.
LEMMA BrokerEnds ==
    ASSUME NonceTypeOK, CallInv, NEW c \in Calls, call[c].client = "broker",
           \/ Reject(c) \/ NonceReused(c) \/ RunTool(c) \/ PostOrder(c) \/ Crash(c)
           \/ ConsumeFails(c)
    PROVE  \E answer \in {"EXECUTED", "403", "raised", "lost", "BLOCKED", "FILLED",
                          "SUBMITTED", "UNKNOWN"}, sent \in BOOLEAN :
               /\ Ends(c, answer, sent)
               /\ sent => answer \in {"FILLED", "SUBMITTED", "UNKNOWN", "raised"}
               /\ answer \in {"FILLED", "SUBMITTED"} => sent
               /\ call[c].claimed => answer # "BLOCKED"
<1>1. CASE Reject(c)
  <2>1. /\ Ends(c, "raised", FALSE) \/ Ends(c, "BLOCKED", FALSE)
        /\ ~call[c].claimed
    BY <1>1 DEF Reject, Refusal, BrokerAnswer, CallInv
  <2>2. QED BY <2>1
<1>2. CASE NonceReused(c)
  <2>1. /\ Ends(c, "raised", FALSE) \/ Ends(c, "BLOCKED", FALSE)
        /\ ~call[c].claimed
    BY <1>2 DEF NonceReused, Refusal, BrokerAnswer, CallInv
  <2>2. QED BY <2>1
<1>3. CASE PostOrder(c)
  <2>1. PICK outcome \in Outcomes : Ends(c, outcome[1], outcome[2])
    BY <1>3 DEF PostOrder
  <2>2. \/ outcome = <<"FILLED", TRUE>> \/ outcome = <<"SUBMITTED", TRUE>>
        \/ outcome = <<"UNKNOWN", TRUE>> \/ outcome = <<"UNKNOWN", FALSE>>
        \/ outcome = <<"raised", TRUE>>
    BY <2>1, Zenon DEF Outcomes
  <2>3. CASE outcome = <<"FILLED", TRUE>>
    BY <2>1, <2>3
  <2>4. CASE outcome = <<"SUBMITTED", TRUE>>
    BY <2>1, <2>4
  <2>5. CASE outcome = <<"UNKNOWN", TRUE>>
    BY <2>1, <2>5
  <2>6. CASE outcome = <<"UNKNOWN", FALSE>>
    BY <2>1, <2>6
  <2>7. CASE outcome = <<"raised", TRUE>>
    BY <2>1, <2>7
  <2>8. QED BY <2>2, <2>3, <2>4, <2>5, <2>6, <2>7
<1>4. CASE Crash(c)
  <2>1. Ends(c, "lost", FALSE)
    BY <1>4 DEF Crash
  <2>2. QED BY <2>1
<1>5. CASE ConsumeFails(c)
  <2>1. Ends(c, "BLOCKED", FALSE) /\ ~call[c].claimed
    BY <1>5 DEF ConsumeFails, CallInv
  <2>2. QED BY <2>1
<1>6. CASE RunTool(c)
  BY <1>6 DEF RunTool
<1>7. QED BY <1>1, <1>2, <1>3, <1>4, <1>5, <1>6

\* Every step keeps the broker's answers true.
LEMMA BrokerStep ==
    ASSUME NonceTypeOK, CallInv, BrokerAnswersTrue, [NonceNext]_nonceVars
    PROVE  BrokerAnswersTrue'
<1>1. ASSUME NEW c \in Calls,
             \/ Reject(c) \/ NonceReused(c) \/ RunTool(c) \/ PostOrder(c) \/ Crash(c)
             \/ ConsumeFails(c)
      PROVE  BrokerAnswersTrue'
  <2>1. CASE call[c].client = "broker"
    <3>1. PICK answer \in {"EXECUTED", "403", "raised", "lost", "BLOCKED", "FILLED",
                           "SUBMITTED", "UNKNOWN"}, sent \in BOOLEAN :
              /\ Ends(c, answer, sent)
              /\ sent => answer \in {"FILLED", "SUBMITTED", "UNKNOWN", "raised"}
              /\ answer \in {"FILLED", "SUBMITTED"} => sent
              /\ call[c].claimed => answer # "BLOCKED"
      BY <1>1, <2>1, BrokerEnds
    <3>2. /\ call'[c].answer = answer /\ call'[c].ran = sent
          /\ call'[c].claimed = call[c].claimed /\ call'[c].fault = call[c].fault
          /\ \A d \in Calls \ {c} : call'[d] = call[d]
      BY <3>1, EndsFacts
    <3>3. call[c].fault # "none" => ~call[c].claimed
      BY <2>1 DEF CallInv
    <3>4. QED BY <3>1, <3>2, <3>3 DEF BrokerAnswersTrue
  <2>2. CASE call[c].client # "broker"
    <3>1. PICK answer \in {"EXECUTED", "403", "raised", "lost", "BLOCKED", "FILLED",
                           "SUBMITTED", "UNKNOWN"}, sent \in BOOLEAN :
              Ends(c, answer, sent)
      BY <1>1, EndingActions DEF EndsSomehow
    <3>2. call'[c].client # "broker" /\ \A d \in Calls \ {c} : call'[d] = call[d]
      BY <2>2, <3>1, EndsFacts
    <3>3. QED BY <3>2 DEF BrokerAnswersTrue
  <2>3. QED BY <2>1, <2>2
<1>2. ASSUME NEW c \in Calls, Verify(c) PROVE BrokerAnswersTrue'
  BY <1>2, VerifyFacts DEF BrokerAnswersTrue
<1>3. ASSUME NEW c \in Calls, Consume(c) PROVE BrokerAnswersTrue'
  BY <1>3, ConsumeFacts DEF BrokerAnswersTrue
<1>4. CASE call' = call
  BY <1>4 DEF BrokerAnswersTrue
<1>5. QED BY <1>1, <1>2, <1>3, <1>4 DEF NonceNext, nonceVars, Purge, NonceTick

\* Every step keeps the types, whatever the retention.
LEMMA NonceTypeStep ==
    ASSUME NonceTypeOK, [NonceNext]_nonceVars
    PROVE  NonceTypeOK'
<1>0. \A d \in Calls : call[d].nonce \in Nonces /\ call[d].verified_at \in Nat
  BY DEF NonceTypeOK, CallRecords
<1>1. ASSUME NEW c \in Calls,
             \/ Reject(c) \/ NonceReused(c) \/ RunTool(c) \/ PostOrder(c) \/ Crash(c)
             \/ ConsumeFails(c)
      PROVE  NonceTypeOK'
  <2>1. PICK answer \in {"EXECUTED", "403", "raised", "lost", "BLOCKED", "FILLED",
                         "SUBMITTED", "UNKNOWN"}, sent \in BOOLEAN :
            Ends(c, answer, sent)
    BY <1>1, EndingActions DEF EndsSomehow
  <2>2. call' \in [Calls -> CallRecords]
    BY <2>1, EndsFacts
  <2>3. nonces' \in [Nonces -> Nat \cup {None}]
    BY <1>0, <1>1, EndingActions DEF ConsumeFails, NonceTypeOK
  <2>4. QED BY <1>1, <2>2, <2>3, EndingActions DEF NonceTypeOK
<1>2. ASSUME NEW c \in Calls, Verify(c) PROVE NonceTypeOK'
  BY <1>2, VerifyFacts DEF Verify, NonceTypeOK
<1>3. ASSUME NEW c \in Calls, Consume(c) PROVE NonceTypeOK'
  BY <1>0, <1>3, ConsumeFacts DEF Consume, NonceTypeOK
<1>4. CASE Purge
  BY <1>4 DEF Purge, NonceTypeOK
<1>5. CASE NonceTick
  BY <1>5 DEF NonceTick, Tick, NonceTypeOK
<1>6. CASE UNCHANGED nonceVars
  BY <1>6 DEF nonceVars, NonceTypeOK
<1>7. QED BY <1>1, <1>2, <1>3, <1>4, <1>5, <1>6 DEF NonceNext

\* Where rows are kept for as long as a call may still present their nonce, every
\* authority is claimed by at most one call, whatever is purged, delayed or crashes.
THEOREM NonceClaimedOnce == ASSUME RetentionCovers PROVE NonceSpec => []ClaimedOnce
<1>1. NonceInit => NonceTypeOK /\ NonceInv /\ CallInv /\ ClaimedOnce
  BY NonceStart
<1>2. NonceTypeOK /\ NonceInv /\ CallInv /\ ClaimedOnce /\ [NonceNext]_nonceVars
          => (NonceTypeOK /\ NonceInv /\ CallInv /\ ClaimedOnce)'
  BY NonceStep, CallStep, ClaimStep
<1>3. QED BY <1>1, <1>2, PTL DEF NonceSpec

\* The broker's answer never denies an order that may exist, whatever the retention
\* of the nonces, and a call at fault uses up no authority.
THEOREM BrokerAnswersHold == NonceSpec => []BrokerAnswersTrue
<1>1. NonceInit => NonceTypeOK /\ CallInv /\ BrokerAnswersTrue
  BY NonceStart
<1>2. NonceTypeOK /\ CallInv /\ BrokerAnswersTrue /\ [NonceNext]_nonceVars
          => (NonceTypeOK /\ CallInv /\ BrokerAnswersTrue)'
  BY NonceTypeStep, CallStep, BrokerStep
<1>3. QED BY <1>1, <1>2, PTL DEF NonceSpec

-----------------------------------------------------------------------------
(* The commits of the State Oracle.                                        *)

Stamped == [at : {"stamped"},
            row : [id : Nat, world_version : Versions, committed_at : Nat]]

OracleTypeOK ==
    /\ now \in Nat
    /\ snapshots \subseteq Rows
    /\ commit \in [Commits -> [at : {"idle", "refused", "failed_503", "committed"}]
                                  \cup Stamped]

\* Ids are given to one row each, times are read before they are written, and of
\* the rows there is a latest one.
OracleInv ==
    /\ \A c, d \in Commits :
           commit[c].at = "stamped" /\ commit[d].at = "stamped"
               /\ commit[c].row.id = commit[d].row.id => c = d
    /\ \A c \in Commits : commit[c].at = "stamped" =>
           /\ commit[c].row.committed_at =< now
           /\ \A e \in snapshots : e.id # commit[c].row.id
    /\ \A e \in snapshots : e.committed_at =< e.at
    /\ snapshots # {} =>
           \E e \in snapshots : \A f \in snapshots \ {e} : Later(e, f)

\* A commit under way is a stamped row.
LEMMA StampedRow ==
    ASSUME OracleTypeOK, NEW c \in Commits, commit[c].at = "stamped"
    PROVE  commit[c] \in Stamped
BY DEF OracleTypeOK, Stamped

\* Inserting a row whose id is new leaves a latest row.
LEMMA LatestStays ==
    ASSUME OracleTypeOK, OracleInv, NEW new \in Rows, \A e \in snapshots : e.id # new.id
    PROVE  \E e \in snapshots \cup {new} :
               \A f \in (snapshots \cup {new}) \ {e} : Later(e, f)
<1>1. CASE snapshots = {}
  BY <1>1
<1>2. CASE snapshots # {}
  <2>1. PICK top \in snapshots : \A f \in snapshots \ {top} : Later(top, f)
    BY <1>2 DEF OracleInv
  <2>2. top \in Rows /\ snapshots \subseteq Rows
    BY <2>1 DEF OracleTypeOK
  <2>3. top.id # new.id
    BY <2>1
  <2>4. Later(top, new) \/ Later(new, top)
    BY <2>2, <2>3 DEF Later, Rows
  <2>5. CASE Later(top, new)
    BY <2>1, <2>5
  <2>6. CASE Later(new, top)
    <3>1. ASSUME NEW f \in snapshots PROVE Later(new, f)
      <4>1. CASE f = top
        BY <2>6, <4>1
      <4>2. CASE f # top
        <5>1. Later(top, f) /\ f \in Rows
          BY <2>1, <2>2, <3>1, <4>2
        <5>2. QED BY <2>2, <2>6, <5>1 DEF Later, Rows
      <4>3. QED BY <4>1, <4>2
    <3>2. QED BY <3>1
  <2>7. QED BY <2>4, <2>5, <2>6
<1>3. QED BY <1>1, <1>2

\* Every step keeps the types and the invariant.
LEMMA OracleStep ==
    ASSUME OracleTypeOK, OracleInv, [OracleNext]_oracleVars
    PROVE  (OracleTypeOK /\ OracleInv)'
<1>1. ASSUME NEW c \in Commits, RejectCommit(c) PROVE (OracleTypeOK /\ OracleInv)'
  <2>1. commit' = [commit EXCEPT ![c] = [at |-> "refused"]]
    BY <1>1 DEF RejectCommit, CommitDone
  <2>2. now' = now /\ snapshots' = snapshots
    BY <1>1 DEF RejectCommit
  <2>3. QED BY <2>1, <2>2 DEF OracleTypeOK, OracleInv
<1>2. ASSUME NEW c \in Commits, StampCommit(c) PROVE (OracleTypeOK /\ OracleInv)'
  <2>1. PICK id \in 1 .. MaxId, v \in Versions :
            /\ \A d \in Commits : commit[d].at = "stamped" => commit[d].row.id # id
            /\ \A e \in snapshots : e.id # id
            /\ commit' = [commit EXCEPT ![c] =
                   [at |-> "stamped",
                    row |-> [id |-> id, world_version |-> v, committed_at |-> now]]]
    BY <1>2 DEF StampCommit
  <2>2. now' = now /\ snapshots' = snapshots /\ now \in Nat /\ id \in Nat
    BY <1>2, <2>1 DEF StampCommit, OracleTypeOK
  <2>3. [at |-> "stamped",
         row |-> [id |-> id, world_version |-> v, committed_at |-> now]] \in Stamped
    BY <2>2 DEF Stamped
  <2>4. OracleTypeOK'
    BY <2>1, <2>2, <2>3 DEF OracleTypeOK
  <2>5. /\ commit'[c].row.id = id /\ commit'[c].row.committed_at = now
        /\ \A d \in Commits \ {c} : commit'[d] = commit[d]
    BY <2>1 DEF OracleTypeOK
  <2>6. QED BY <2>1, <2>2, <2>4, <2>5 DEF OracleInv
<1>3. ASSUME NEW c \in Commits, Insert(c) PROVE (OracleTypeOK /\ OracleInv)'
  <2>1. commit[c] \in Stamped /\ commit[c].at = "stamped" /\ now' = now /\ now \in Nat
    BY <1>3, StampedRow DEF Insert, OracleTypeOK
  <2>2. CASE Known(commit[c].row.world_version)
    <3>1. commit' = [commit EXCEPT ![c] = [at |-> "failed_503"]] /\ snapshots' = snapshots
      BY <1>3, <2>2 DEF Insert, CommitDone
    <3>2. QED BY <2>1, <3>1 DEF OracleTypeOK, OracleInv
  <2>3. CASE ~Known(commit[c].row.world_version)
    <3> DEFINE new == [id |-> commit[c].row.id, at |-> now,
                       world_version |-> commit[c].row.world_version,
                       committed_at |-> commit[c].row.committed_at]
    <3>1. commit' = [commit EXCEPT ![c] = [at |-> "committed"]]
          /\ snapshots' = snapshots \cup {new}
      BY <1>3, <2>3 DEF Insert, CommitDone
    <3>2. new \in Rows /\ new.id = commit[c].row.id /\ new.committed_at =< new.at
      BY <2>1 DEF Stamped, Rows, OracleInv
    <3>3. OracleTypeOK'
      BY <2>1, <3>1, <3>2 DEF OracleTypeOK
    <3>4. /\ \A e \in snapshots : e.id # new.id
          /\ \A d \in Commits \ {c} :
                 commit[d].at = "stamped" => commit[d].row.id # new.id
      BY <2>1, <3>2 DEF OracleInv
    <3> HIDE DEF new
    <3>5. \E e \in snapshots' : \A f \in snapshots' \ {e} : Later(e, f)
      BY <3>1, <3>2, <3>4, LatestStays
    <3>6. \A d \in Commits : commit'[d].at = "stamped" => d # c /\ commit'[d] = commit[d]
      BY <3>1 DEF OracleTypeOK
    <3>7. QED BY <2>1, <3>1, <3>2, <3>3, <3>4, <3>5, <3>6 DEF OracleInv
  <2>4. QED BY <2>2, <2>3
<1>4. CASE OracleTick
  <2>1. now' = now + 1 /\ now \in Nat /\ snapshots' = snapshots /\ commit' = commit
    BY <1>4 DEF OracleTick, Tick, OracleTypeOK
  <2>2. \A d \in Commits : commit[d].at = "stamped" =>
            commit[d].row.committed_at \in Nat
    BY StampedRow DEF Stamped
  <2>3. QED BY <2>1, <2>2 DEF OracleTypeOK, OracleInv
<1>5. CASE UNCHANGED oracleVars
  BY <1>5 DEF oracleVars, OracleTypeOK, OracleInv
<1>6. QED BY <1>1, <1>2, <1>3, <1>4, <1>5 DEF OracleNext

\* The world the oracle answers is never one whose commit had ended before another
\* committed one began, for any number of concurrent commits.
THEOREM OracleLaterCommitWins == OracleSpec => []LaterCommitWins
<1>1. OracleInit => OracleTypeOK /\ OracleInv
  BY DEF OracleInit, OracleTypeOK, OracleInv
<1>2. OracleTypeOK /\ OracleInv /\ [OracleNext]_oracleVars => (OracleTypeOK /\ OracleInv)'
  BY OracleStep
<1>3. OracleTypeOK /\ OracleInv => LaterCommitWins
  <2>1. SUFFICES ASSUME OracleTypeOK, OracleInv, snapshots # {}, NEW e \in snapshots
                 PROVE  ~(Current.at < e.committed_at)
    BY DEF LaterCommitWins
  <2>2. Current \in snapshots /\ \A f \in snapshots \ {Current} : Later(Current, f)
    BY <2>1 DEF OracleInv, Current
  <2>3. Current \in Rows /\ e \in Rows /\ Current.committed_at =< Current.at
    BY <2>1, <2>2 DEF OracleTypeOK, OracleInv
  <2>4. CASE e = Current
    BY <2>3, <2>4 DEF Rows
  <2>5. CASE e # Current
    <3>1. Later(Current, e)
      BY <2>1, <2>2, <2>5
    <3>2. QED BY <2>3, <3>1 DEF Later, Rows
  <2>6. QED BY <2>4, <2>5
<1>4. QED BY <1>1, <1>2, <1>3, PTL DEF OracleSpec

-----------------------------------------------------------------------------
(* The rate limits.                                                        *)

RateTypeOK ==
    /\ now \in Nat
    /\ rateStore \in {"memory", "database"}
    /\ events \subseteq admitted
    /\ admitted \subseteq Events
    /\ IsFiniteSet(admitted)
    /\ rateCall \in [Requests -> [at : {"idle"} \cup Answered]
                                     \cup [at : {"timed"}, stamp : Nat]]

\* Places of the queue are given in the order of time.
QueueInv ==
    /\ \A e \in admitted : e.number =< Cardinality(admitted)
    /\ \A e, f \in admitted : e.number =< f.number => e.at =< f.at

\* The limit in force is a number.
LEMMA LimitNat == EffectiveLimit \in Nat
BY RateAssumption DEF EffectiveLimit

\* What is kept is a part of what is there, and holds all that is in the window.
LEMMA KeptFacts ==
    ASSUME RateTypeOK, NEW stamp \in Nat
    PROVE  /\ KeptAt(stamp) \subseteq events
           /\ IsFiniteSet(KeptAt(stamp)) /\ Cardinality(KeptAt(stamp)) \in Nat
           /\ \A e \in events : ~Expired(e, stamp) => e \in KeptAt(stamp)
<1>1. KeptAt(stamp) \subseteq events
  BY DEF KeptAt
<1>2. IsFiniteSet(KeptAt(stamp))
  BY <1>1, FS_Subset DEF RateTypeOK
<1>3. \A e \in events : e.number \in Nat
  BY DEF RateTypeOK, Events
<1>4. \A e \in events : ~Expired(e, stamp) => e \in KeptAt(stamp)
  BY <1>3 DEF KeptAt
<1>5. QED BY <1>1, <1>2, <1>4, FS_CardinalityType

\* The time a request carries under the lock.
LEMMA TimedRequest ==
    ASSUME RateTypeOK, RateInv, NEW r \in Requests, rateCall[r].at = "timed"
    PROVE  /\ rateCall[r].stamp \in Nat
           /\ rateCall[r].stamp =< now /\ now =< rateCall[r].stamp + Delay
BY DEF RateTypeOK, RateInv, Answered

\* Letting a request through keeps the types and the invariants.
LEMMA AllowKeeps ==
    ASSUME RateTypeOK, RateInv, QueueInv, NEW r \in Requests, Allow(r)
    PROVE  (RateTypeOK /\ RateInv /\ QueueInv)'
<1> USE ClockAssumption, RateAssumption
<1> DEFINE stamp == rateCall[r].stamp
           e == [number |-> Cardinality(admitted) + 1, stamp |-> stamp, at |-> now]
<1>1. stamp \in Nat /\ stamp =< now /\ now =< stamp + Delay /\ now \in Nat
  BY TimedRequest DEF Allow, RateTypeOK
<1>2. /\ events' = KeptAt(stamp) \cup {e} /\ admitted' = admitted \cup {e}
      /\ now' = now /\ rateStore' = rateStore
      /\ rateCall' = [rateCall EXCEPT ![r] = [at |-> "allowed"]]
      /\ ~Full(KeptAt(stamp))
  BY DEF Allow, Answer
<1>3. Cardinality(admitted) \in Nat
  BY FS_CardinalityType DEF RateTypeOK
<1>4. /\ e \in Events /\ e.number = Cardinality(admitted) + 1
      /\ e.stamp = stamp /\ e.at = now
  BY <1>1, <1>3 DEF Events
<1>5. \A f \in admitted : f \in Events /\ f # e
  BY <1>3, <1>4 DEF QueueInv, RateTypeOK, Events
<1> HIDE DEF stamp, e
<1>6. /\ KeptAt(stamp) \subseteq events
      /\ IsFiniteSet(KeptAt(stamp)) /\ Cardinality(KeptAt(stamp)) \in Nat
      /\ \A f \in events : ~Expired(f, stamp) => f \in KeptAt(stamp)
  BY <1>1, KeptFacts
<1>7. e \notin admitted /\ e \notin KeptAt(stamp)
  BY <1>5, <1>6 DEF RateTypeOK
<1>8. /\ IsFiniteSet(admitted') /\ Cardinality(admitted') = Cardinality(admitted) + 1
      /\ Cardinality(events') = Cardinality(KeptAt(stamp)) + 1
  BY <1>2, <1>6, <1>7, FS_AddElement DEF RateTypeOK
<1>9. Cardinality(events') =< EffectiveLimit
  BY <1>2, <1>6, <1>8, LimitNat DEF Full
<1>10. EffectiveLimit' = EffectiveLimit
  BY <1>2 DEF EffectiveLimit
<1>11. RateTypeOK'
  BY <1>2, <1>4, <1>6, <1>8 DEF RateTypeOK, Answered
<1>12. \A f \in admitted' : now' < f.stamp + Window => f \in events'
  <2>1. ASSUME NEW f \in admitted, now < f.stamp + Window PROVE f \in events'
    <3>1. f \in events /\ f.stamp \in Nat
      BY <1>5, <2>1 DEF RateInv, Events
    <3>2. ~Expired(f, stamp)
      BY <1>1, <2>1, <3>1 DEF Expired
    <3>3. QED BY <1>2, <1>6, <3>1, <3>2
  <2>2. QED BY <1>2, <2>1
<1>13. \A q \in Requests : rateCall'[q].at = "timed" =>
           rateCall'[q].stamp =< now /\ now =< rateCall'[q].stamp + Delay
  BY <1>2 DEF RateTypeOK, RateInv
<1>14. \A f \in admitted' : f.stamp =< f.at /\ f.at =< f.stamp + Delay /\ f.at =< now
  BY <1>1, <1>2, <1>4 DEF RateInv
<1>15. RateInv'
  BY <1>2, <1>6, <1>9, <1>10, <1>12, <1>13, <1>14 DEF RateInv, RateTypeOK
<1>16. \A f \in admitted : /\ f.number \in Nat /\ f.at \in Nat /\ f.at =< now
                           /\ f.number =< Cardinality(admitted)
  BY <1>5 DEF Events, QueueInv, RateInv
<1>17. QueueInv'
  <2>1. \A f \in admitted' : f.number =< Cardinality(admitted')
    BY <1>2, <1>3, <1>4, <1>8, <1>16
  <2>2. ASSUME NEW f \in admitted', NEW g \in admitted', f.number =< g.number
        PROVE  f.at =< g.at
    <3>1. CASE g = e
      BY <1>1, <1>2, <1>4, <1>16, <3>1
    <3>2. CASE g # e
      <4>1. f # e
        BY <1>2, <1>3, <1>4, <1>16, <2>2, <3>2
      <4>2. QED BY <1>2, <2>2, <3>2, <4>1 DEF QueueInv
    <3>3. QED BY <3>1, <3>2
  <2>3. QED BY <2>1, <2>2 DEF QueueInv
<1>18. QED BY <1>11, <1>15, <1>17

\* So does every step.
LEMMA RateStep ==
    ASSUME RateTypeOK, RateInv, QueueInv, [RateNext]_rateVars
    PROVE  (RateTypeOK /\ RateInv /\ QueueInv)'
<1> USE ClockAssumption, RateAssumption
<1>1. ASSUME NEW r \in Requests, ReadClock(r)
      PROVE  (RateTypeOK /\ RateInv /\ QueueInv)'
  <2>1. /\ rateCall' = [rateCall EXCEPT ![r] = [at |-> "timed", stamp |-> now]]
        /\ now' = now /\ rateStore' = rateStore /\ events' = events
        /\ admitted' = admitted /\ now \in Nat
    BY <1>1 DEF ReadClock, RateTypeOK
  <2>2. RateTypeOK' /\ QueueInv' /\ EffectiveLimit' = EffectiveLimit
    BY <2>1 DEF RateTypeOK, QueueInv, EffectiveLimit
  <2>3. QED BY <2>1, <2>2 DEF RateInv, RateTypeOK
<1>2. ASSUME NEW r \in Requests, Allow(r)
      PROVE  (RateTypeOK /\ RateInv /\ QueueInv)'
  BY <1>2, AllowKeeps
<1>3. ASSUME NEW r \in Requests, Refuse(r)
      PROVE  (RateTypeOK /\ RateInv /\ QueueInv)'
  <2>1. /\ rateCall' = [rateCall EXCEPT ![r] = [at |-> "refused_429"]]
        /\ now' = now /\ rateStore' = rateStore /\ admitted' = admitted
        /\ events' \in {events, KeptAt(rateCall[r].stamp)} /\ now \in Nat
    BY <1>3 DEF Refuse, Answer, RateTypeOK
  <2>2. /\ rateCall[r].stamp \in Nat /\ rateCall[r].stamp =< now
        /\ \A e \in events : e.stamp \in Nat
    BY <1>3, TimedRequest DEF Refuse, RateTypeOK, Events
  <2>3. /\ KeptAt(rateCall[r].stamp) \subseteq events
        /\ \A e \in events : ~Expired(e, rateCall[r].stamp) => e \in KeptAt(rateCall[r].stamp)
    BY <2>2, KeptFacts
  <2>4. events' \subseteq events
    BY <2>1, <2>3
  <2>5. \A e \in events : now < e.stamp + Window => e \in events'
    BY <2>1, <2>2, <2>3 DEF Expired
  <2>6. /\ IsFiniteSet(events) /\ Cardinality(events') =< Cardinality(events)
        /\ Cardinality(events') \in Nat /\ Cardinality(events) \in Nat
    BY <2>4, FS_Subset, FS_CardinalityType DEF RateTypeOK
  <2>7. RateTypeOK' /\ QueueInv' /\ EffectiveLimit' = EffectiveLimit
    BY <2>1, <2>4 DEF RateTypeOK, QueueInv, EffectiveLimit, Answered
  <2>8. Cardinality(events') =< EffectiveLimit
    BY <2>6, LimitNat DEF RateInv
  <2>9. \A q \in Requests : rateCall'[q].at = "timed" =>
            rateCall'[q].stamp =< now /\ now =< rateCall'[q].stamp + Delay
    BY <2>1 DEF RateTypeOK, RateInv
  <2>10. QED BY <2>1, <2>4, <2>5, <2>7, <2>8, <2>9 DEF RateInv
<1>4. ASSUME NEW r \in Requests, StoreFails(r)
      PROVE  (RateTypeOK /\ RateInv /\ QueueInv)'
  <2>1. /\ rateCall' = [rateCall EXCEPT ![r] = [at |-> "unavailable_503"]]
        /\ now' = now /\ rateStore' = rateStore /\ events' = events
        /\ admitted' = admitted
    BY <1>4 DEF StoreFails, Answer
  <2>2. RateTypeOK' /\ QueueInv' /\ EffectiveLimit' = EffectiveLimit
    BY <2>1 DEF RateTypeOK, QueueInv, EffectiveLimit, Answered
  <2>3. QED BY <2>1, <2>2 DEF RateInv, RateTypeOK
<1>5. CASE RateTick
  <2>1. /\ now' = now + 1 /\ now \in Nat /\ rateStore' = rateStore /\ events' = events
        /\ admitted' = admitted /\ rateCall' = rateCall
    BY <1>5 DEF RateTick, Tick, RateTypeOK
  <2>2. \A r \in Requests : rateCall[r].at = "timed" => now < rateCall[r].stamp + Delay
    BY <1>5 DEF RateTick, Tick
  <2>3. RateTypeOK' /\ QueueInv' /\ EffectiveLimit' = EffectiveLimit
    BY <2>1 DEF RateTypeOK, QueueInv, EffectiveLimit
  <2>4. /\ \A e \in admitted : e.stamp \in Nat /\ e.at \in Nat
        /\ \A r \in Requests : rateCall[r].at = "timed" => rateCall[r].stamp \in Nat
    BY TimedRequest DEF RateTypeOK, Events
  <2>5. QED BY <2>1, <2>2, <2>3, <2>4 DEF RateInv
<1>6. CASE UNCHANGED rateVars
  <2>1. RateTypeOK' /\ QueueInv' /\ EffectiveLimit' = EffectiveLimit
    BY <1>6 DEF rateVars, RateTypeOK, QueueInv, EffectiveLimit
  <2>2. QED BY <1>6, <2>1 DEF rateVars, RateInv
<1>7. QED BY <1>1, <1>2, <1>3, <1>4, <1>5, <1>6 DEF RateNext
\* Behaviours begin with nothing let through.
LEMMA RateStart ==
    ASSUME RateInit
    PROVE  RateTypeOK /\ RateInv /\ QueueInv
<1>1. IsFiniteSet({}) /\ Cardinality({}) = 0
  BY FS_EmptySet
<1>2. QED BY <1>1, LimitNat DEF RateInit, RateTypeOK, RateInv, QueueInv

\* Never more than the limit is let through in any span of Window - Delay, for any
\* limit, window, delay and number of requests, on either store.
THEOREM RateWindowBounded == RateSpec => []WindowBounded
<1>1. RateInit => RateTypeOK /\ RateInv /\ QueueInv
  BY RateStart
<1>2. RateTypeOK /\ RateInv /\ QueueInv /\ [RateNext]_rateVars
          => (RateTypeOK /\ RateInv /\ QueueInv)'
  BY RateStep
<1>3. RateTypeOK /\ RateInv => WindowBounded
  <2>1. SUFFICES ASSUME RateTypeOK, RateInv PROVE WindowBounded
    OBVIOUS
  <2>2. ASSUME NEW e \in RecentlyAdmitted PROVE e \in events
    <3>1. e \in admitted /\ now + Delay < e.at + Window
      BY <2>2 DEF RecentlyAdmitted
    <3>2. /\ e.at \in Nat /\ e.stamp \in Nat /\ now \in Nat
          /\ e.at =< e.stamp + Delay
      BY <2>1, <3>1 DEF RateTypeOK, Events, RateInv
    <3>3. now < e.stamp + Window
      BY <3>1, <3>2, ClockAssumption, RateAssumption
    <3>4. QED BY <2>1, <3>1, <3>3 DEF RateInv
  <2>3. IsFiniteSet(events)
    BY <2>1, FS_Subset DEF RateTypeOK
  <2>4. /\ Cardinality(RecentlyAdmitted) =< Cardinality(events)
        /\ IsFiniteSet(RecentlyAdmitted)
    BY <2>2, <2>3, FS_Subset
  <2>5. Cardinality(RecentlyAdmitted) \in Nat /\ Cardinality(events) \in Nat
    BY <2>3, <2>4, FS_CardinalityType
  <2>6. Cardinality(events) =< EffectiveLimit
    BY <2>1 DEF RateInv
  <2>7. QED BY <2>4, <2>5, <2>6, LimitNat DEF WindowBounded
<1>4. QED BY <1>1, <1>2, <1>3, PTL DEF RateSpec

\* What is kept under the lock was let through within the last Window + Delay.
LEMMA KeptIsRecent ==
    ASSUME RateTypeOK, RateInv, QueueInv, NEW stamp \in Nat, now =< stamp + Delay,
           NEW e \in KeptAt(stamp)
    PROVE  e \in admitted /\ now < e.at + Window + Delay
<1> USE ClockAssumption, RateAssumption
<1>1. PICK head \in events : head.number =< e.number /\ ~Expired(head, stamp)
  <2>1. e \in events /\ e.number \in Nat
    BY KeptFacts DEF RateTypeOK, Events
  <2>2. QED BY <2>1 DEF KeptAt
<1>2. e \in admitted /\ head \in admitted
  BY KeptFacts DEF RateTypeOK
<1>3. /\ head.at \in Nat /\ head.stamp \in Nat /\ e.at \in Nat /\ now \in Nat
      /\ head.stamp =< head.at /\ head.at =< e.at
  BY <1>1, <1>2 DEF RateTypeOK, Events, RateInv, QueueInv
<1>4. stamp < head.stamp + Window
  BY <1>1, <1>3 DEF Expired
<1>5. QED BY <1>2, <1>3, <1>4

\* A request is refused only when the limit was let through within the last Window +
\* Delay, whatever the queue still holds behind its head.
THEOREM RateRefusalsHaveCause == RateSpec => RefusalsHaveCause
<1> DEFINE Caused ==
        \A r \in Requests :
            rateCall[r].at = "timed" /\ rateCall'[r].at = "refused_429" =>
                Cardinality({e \in admitted : now < e.at + Window + Delay}) >= EffectiveLimit
<1>1. RateInit => RateTypeOK /\ RateInv /\ QueueInv
  BY RateStart
<1>2. RateTypeOK /\ RateInv /\ QueueInv /\ [RateNext]_rateVars
          => (RateTypeOK /\ RateInv /\ QueueInv)'
  BY RateStep
<1>3. RateTypeOK /\ RateInv /\ QueueInv /\ [RateNext]_rateVars => [Caused]_rateVars
  <2>1. SUFFICES ASSUME RateTypeOK, RateInv, QueueInv, [RateNext]_rateVars, NEW r \in Requests,
                        rateCall[r].at = "timed", rateCall'[r].at = "refused_429"
                 PROVE  Cardinality({e \in admitted : now < e.at + Window + Delay})
                            >= EffectiveLimit
    OBVIOUS
  <2>2. Refuse(r)
    <3>1. ASSUME NEW q \in Requests, NEW state, rateCall' = [rateCall EXCEPT ![q] = state],
                 state.at # "refused_429" \/ q # r
          PROVE  FALSE
      BY <2>1, <3>1 DEF RateTypeOK
    <3>2. ~(UNCHANGED rateVars) /\ ~RateTick
      BY <2>1 DEF rateVars, RateTick
    <3>3. ASSUME NEW q \in Requests, ReadClock(q) \/ Allow(q) \/ StoreFails(q) PROVE FALSE
      <4>1. CASE ReadClock(q)
        BY <3>1, <4>1 DEF ReadClock
      <4>2. CASE Allow(q)
        BY <3>1, <4>2 DEF Allow, Answer
      <4>3. CASE StoreFails(q)
        BY <3>1, <4>3 DEF StoreFails, Answer
      <4>4. QED BY <3>3, <4>1, <4>2, <4>3
    <3>4. ASSUME NEW q \in Requests, Refuse(q), q # r PROVE FALSE
      BY <3>1, <3>4 DEF Refuse, Answer
    <3>5. QED BY <2>1, <3>2, <3>3, <3>4 DEF RateNext
  <2>3. rateCall[r].stamp \in Nat /\ now =< rateCall[r].stamp + Delay
    BY <2>1, TimedRequest
  <2>4. Cardinality(KeptAt(rateCall[r].stamp)) >= EffectiveLimit
    BY <2>2 DEF Refuse, Full
  <2>5. KeptAt(rateCall[r].stamp) \subseteq
            {e \in admitted : now < e.at + Window + Delay}
    BY <2>1, <2>3, KeptIsRecent
  <2>6. IsFiniteSet({e \in admitted : now < e.at + Window + Delay})
    BY <2>1, FS_Subset DEF RateTypeOK
  <2>7. /\ Cardinality(KeptAt(rateCall[r].stamp))
               =< Cardinality({e \in admitted : now < e.at + Window + Delay})
        /\ IsFiniteSet(KeptAt(rateCall[r].stamp))
    BY <2>5, <2>6, FS_Subset
  <2>8. /\ Cardinality(KeptAt(rateCall[r].stamp)) \in Nat
        /\ Cardinality({e \in admitted : now < e.at + Window + Delay}) \in Nat
    BY <2>6, <2>7, FS_CardinalityType
  <2>9. QED BY <2>4, <2>7, <2>8, LimitNat
<1>4. QED BY <1>1, <1>2, <1>3, PTL DEF RateSpec, RefusalsHaveCause

-----------------------------------------------------------------------------
(* The burst alarm.                                                        *)

Counted == [at : {"counted"}, ts : Nat, named : BOOLEAN, count : Nat]

PlaneEvent == [number : Nat, ts : Nat, named : BOOLEAN, anomaly : BOOLEAN]

PlaneTypeOK ==
    /\ now \in Nat
    /\ IsFiniteSet(security_events) /\ security_events \subseteq PlaneEvent
    /\ observer \in [Observers -> [at : {"idle"}] \cup Counted]

\* The events of one key in the window that begins at start.
Burst(start) ==
    {e \in security_events : e.named /\ start =< e.ts /\ e.ts =< start + AnomalyWindow}

\* The observers whose event will be one of them, and raise no alarm.
Quiet(start) ==
    {o \in Observers :
        /\ observer[o].at = "counted" /\ observer[o].named
        /\ start =< observer[o].ts /\ observer[o].ts =< start + AnomalyWindow
        /\ observer[o].count + 1 < AlarmCount}

\* As long as no event of a window raised the alarm, those stored and those on
\* their way are one less than AlarmCount and one for each further observer.
BurstBound(start) ==
    (\A e \in Burst(start) : ~e.anomaly) =>
        Cardinality(Burst(start)) + Cardinality(Quiet(start))
            =< AlarmCount + Cardinality(Observers) - 2

PlaneInv == PlaneTypeOK /\ \A start \in Nat : BurstBound(start)

\* Both sets are finite.
LEMMA BurstFinite ==
    ASSUME PlaneTypeOK, NEW start \in Nat
    PROVE  /\ IsFiniteSet(Burst(start)) /\ Cardinality(Burst(start)) \in Nat
           /\ IsFiniteSet(Quiet(start)) /\ Cardinality(Quiet(start)) \in Nat
           /\ Cardinality(Quiet(start)) =< Cardinality(Observers)
           /\ Cardinality(Observers) \in Nat \ {0}
<1>1. Burst(start) \in SUBSET security_events /\ Quiet(start) \in SUBSET Observers
  BY DEF Burst, Quiet
<1>2. IsFiniteSet(security_events) /\ IsFiniteSet(Observers) /\ Observers # {}
  BY PlaneAssumption DEF PlaneTypeOK
<1> QED BY <1>1, <1>2, FS_Subset, FS_CardinalityType, FS_EmptySet

\* What is counted at a time includes every window that is still open then.
LEMMA WindowCounted ==
    ASSUME PlaneTypeOK, NEW start \in Nat, NEW ts \in Nat, ts =< start + AnomalyWindow
    PROVE  /\ Cardinality(Burst(start)) =< MatchCount(ts, TRUE)
           /\ \A named \in BOOLEAN : MatchCount(ts, named) \in Nat
<1>1. \A e \in security_events : e.ts \in Nat
  BY DEF PlaneTypeOK, PlaneEvent
<1>2. Burst(start) \in SUBSET Matches(ts) /\ Matches(ts) \in SUBSET security_events
  BY <1>1, PlaneAssumption DEF Burst, Matches
<1>3. IsFiniteSet(Matches(ts)) /\ Cardinality(Matches(ts)) \in Nat
      /\ Cardinality(Burst(start)) =< Cardinality(Matches(ts))
  BY <1>2, FS_Subset, FS_CardinalityType DEF PlaneTypeOK
<1> QED BY <1>3 DEF MatchCount

\* An observation that was counted: it is quiet only if the window held little.
LEMMA CountKeepsBound ==
    ASSUME PlaneInv, NEW o \in Observers, Count(o)
    PROVE  PlaneInv'
<1>1. PICK named \in BOOLEAN :
        observer' = [observer EXCEPT ![o] =
            [at |-> "counted", ts |-> now, named |-> named,
             count |-> MatchCount(now, named)]]
  BY DEF Count
<1>2. /\ now' = now /\ security_events' = security_events
      /\ observer[o].at = "idle" /\ PlaneTypeOK
  BY DEF Count, PlaneInv
<1>3. MatchCount(now, named) \in Nat
  <2>1. now \in Nat /\ now =< now + AnomalyWindow
    BY <1>2, PlaneAssumption DEF PlaneTypeOK
  <2> QED BY <1>2, <2>1, WindowCounted
<1>4. PlaneTypeOK'
  BY <1>1, <1>2, <1>3 DEF PlaneTypeOK, Counted
<1>5. ASSUME NEW start \in Nat, \A e \in Burst(start)' : ~e.anomaly
      PROVE  Cardinality(Burst(start)') + Cardinality(Quiet(start)')
                 =< AlarmCount + Cardinality(Observers) - 2
  <2>1. Burst(start)' = Burst(start)
    BY <1>2 DEF Burst
  <2>2. Cardinality(Burst(start)) + Cardinality(Quiet(start))
            =< AlarmCount + Cardinality(Observers) - 2
    BY <1>5, <2>1 DEF PlaneInv, BurstBound
  <2>3. /\ Cardinality(Quiet(start)') \in Nat
        /\ Cardinality(Quiet(start)') =< Cardinality(Observers)
        /\ Cardinality(Observers) \in Nat \ {0}
    <3>1. Quiet(start)' \in SUBSET Observers
      BY DEF Quiet
    <3> QED BY <3>1, PlaneAssumption, FS_Subset, FS_CardinalityType, FS_EmptySet
  <2>4. CASE o \in Quiet(start)'
    <3>1. /\ named /\ now =< start + AnomalyWindow
          /\ MatchCount(now, named) + 1 < AlarmCount
      BY <2>4, <1>1, <1>2 DEF Quiet, PlaneTypeOK
    <3>2. Cardinality(Burst(start)) =< MatchCount(now, TRUE)
      BY <3>1, <1>2, WindowCounted DEF PlaneTypeOK
    <3>3. MatchCount(now, named) = MatchCount(now, TRUE)
      BY <3>1
    <3>4. Cardinality(Burst(start)) \in Nat
      BY <1>2, BurstFinite
    <3>5. Cardinality(Burst(start)) =< AlarmCount - 2
      <4>1. PICK m \in Nat : m = MatchCount(now, named)
        BY <1>3
      <4>2. m + 1 < AlarmCount
        BY <3>1, <4>1, Zenon
      <4>3. Cardinality(Burst(start)) =< m
        BY <3>2, <3>3, <4>1, Zenon
      <4> QED BY <4>2, <4>3, <3>4, PlaneAssumption
    <3> QED BY <2>1, <2>3, <3>4, <3>5, PlaneAssumption
  <2>5. CASE o \notin Quiet(start)'
    <3>1. Quiet(start)' = Quiet(start)
      <4>1. \A p \in Observers \ {o} : observer'[p] = observer[p]
        BY <1>1, <1>2 DEF PlaneTypeOK
      <4>2. o \notin Quiet(start)
        BY <1>2 DEF Quiet
      <4> QED BY <4>1, <4>2, <2>5 DEF Quiet
    <3> QED BY <2>1, <2>2, <3>1
  <2> QED BY <2>4, <2>5
<1> QED BY <1>4, <1>5 DEF PlaneInv, BurstBound

\* An insertion: the event takes the place of its observer, or raises the alarm.
LEMMA StoreKeepsBound ==
    ASSUME PlaneInv, NEW o \in Observers, Store(o)
    PROVE  PlaneInv'
<1> DEFINE new == [number |-> Cardinality(security_events) + 1,
                   ts |-> observer[o].ts, named |-> observer[o].named,
                   anomaly |-> observer[o].count + 1 >= AlarmCount]
<1>1. /\ observer[o].at = "counted"
      /\ security_events' = security_events \cup {new}
      /\ observer' = [observer EXCEPT ![o] = [at |-> "idle"]]
      /\ now' = now /\ PlaneTypeOK
  BY DEF Store, PlaneInv
<1>2. observer[o] \in Counted
  BY <1>1 DEF PlaneTypeOK
<1>3. new \in PlaneEvent
  BY <1>1, <1>2, FS_CardinalityType DEF PlaneTypeOK, PlaneEvent, Counted
<1>4. /\ new.ts = observer[o].ts /\ new.named = observer[o].named
      /\ new.anomaly <=> observer[o].count + 1 >= AlarmCount
  OBVIOUS
<1> HIDE DEF new
<1>5. PlaneTypeOK'
  <2>1. IsFiniteSet(security_events')
    BY <1>1, FS_AddElement DEF PlaneTypeOK
  <2> QED BY <1>1, <1>3, <2>1 DEF PlaneTypeOK
<1>6. ASSUME NEW start \in Nat, \A e \in Burst(start)' : ~e.anomaly
      PROVE  Cardinality(Burst(start)') + Cardinality(Quiet(start)')
                 =< AlarmCount + Cardinality(Observers) - 2
  <2>1. Burst(start) \subseteq Burst(start)'
    BY <1>1 DEF Burst
  <2>2. Cardinality(Burst(start)) + Cardinality(Quiet(start))
            =< AlarmCount + Cardinality(Observers) - 2
    BY <1>6, <2>1 DEF PlaneInv, BurstBound
  <2>3. /\ IsFiniteSet(Burst(start)) /\ Cardinality(Burst(start)) \in Nat
        /\ IsFiniteSet(Quiet(start)) /\ Cardinality(Quiet(start)) \in Nat
        /\ Cardinality(Observers) \in Nat
    BY <1>1, BurstFinite
  <2>4. Quiet(start)' = Quiet(start) \ {o}
    BY <1>1, <1>2 DEF Quiet, PlaneTypeOK
  <2>5. CASE new \in Burst(start)'
    <3>1. o \in Quiet(start)
      <4>1. ~new.anomaly /\ new.named /\ start =< new.ts
            /\ new.ts =< start + AnomalyWindow
        BY <1>6, <2>5 DEF Burst
      <4>2. observer[o].count + 1 < AlarmCount
        BY <4>1, <1>2, <1>4, PlaneAssumption DEF Counted
      <4> QED BY <4>1, <4>2, <1>1, <1>4 DEF Quiet
    <3>2. Cardinality(Quiet(start)') = Cardinality(Quiet(start)) - 1
      BY <2>3, <2>4, <3>1, FS_RemoveElement
    <3>3. Burst(start)' = Burst(start) \cup {new}
      BY <1>1, <2>5 DEF Burst
    <3>4. /\ Cardinality(Burst(start)') \in Nat
          /\ Cardinality(Burst(start)') =< Cardinality(Burst(start)) + 1
      <4>1. Cardinality(Burst(start) \cup {new})
                \in {Cardinality(Burst(start)), Cardinality(Burst(start)) + 1}
        BY <2>3, FS_AddElement
      <4> QED BY <2>3, <3>3, <4>1
    <3> QED BY <2>2, <2>3, <3>2, <3>4, PlaneAssumption
  <2>6. CASE new \notin Burst(start)'
    <3>1. Burst(start)' = Burst(start)
      BY <1>1, <2>6 DEF Burst
    <3>2. /\ Cardinality(Quiet(start)') \in Nat
          /\ Cardinality(Quiet(start)') =< Cardinality(Quiet(start))
      BY <2>3, <2>4, FS_Subset, FS_CardinalityType
    <3> QED BY <2>2, <2>3, <3>1, <3>2, PlaneAssumption
  <2> QED BY <2>5, <2>6
<1> QED BY <1>5, <1>6 DEF PlaneInv, BurstBound

\* For any number of observers, any window and any alarm count, a burst is noticed
\* (action_gate/security_plane.py, observe).
THEOREM BurstIsNoticed == PlaneSpec => []BurstNoticed
<1>1. PlaneInit => PlaneInv
  <2> SUFFICES ASSUME PlaneInit PROVE PlaneInv
    OBVIOUS
  <2>1. PlaneTypeOK
    BY FS_EmptySet DEF PlaneInit, PlaneTypeOK
  <2>2. \A start \in Nat : Burst(start) = {} /\ Quiet(start) = {}
    BY DEF PlaneInit, Burst, Quiet
  <2>3. Cardinality(Observers) \in Nat \ {0} /\ Cardinality({}) = 0
    BY PlaneAssumption, FS_EmptySet, FS_CardinalityType
  <2>4. 0 + 0 =< AlarmCount + Cardinality(Observers) - 2
    BY <2>3, PlaneAssumption
  <2> QED BY <2>1, <2>2, <2>3, <2>4 DEF PlaneInv, BurstBound
<1>2. PlaneInv /\ [PlaneNext]_planeVars => PlaneInv'
  <2> SUFFICES ASSUME PlaneInv, [PlaneNext]_planeVars PROVE PlaneInv'
    OBVIOUS
  <2>1. ASSUME security_events' = security_events, observer' = observer, now' \in Nat
        PROVE  PlaneInv'
    BY <2>1 DEF PlaneInv, PlaneTypeOK, BurstBound, Burst, Quiet
  <2>2. CASE SetKillSwitch
    BY <2>1, <2>2 DEF SetKillSwitch, PlaneInv, PlaneTypeOK
  <2>3. CASE PlaneTick
    BY <2>1, <2>3 DEF PlaneTick, Tick, PlaneInv, PlaneTypeOK
  <2>4. CASE UNCHANGED planeVars
    BY <2>1, <2>4 DEF planeVars, PlaneInv, PlaneTypeOK
  <2> QED BY <2>2, <2>3, <2>4, CountKeepsBound, StoreKeepsBound DEF PlaneNext
<1>3. PlaneInv => BurstNoticed
  <2> SUFFICES ASSUME PlaneInv, NEW start \in 0 .. MaxTime,
                      Cardinality(Burst(start)) >= AlarmCount + Cardinality(Observers) - 1
               PROVE  \E e \in Burst(start) : e.anomaly
    BY DEF BurstNoticed, Burst
  <2>1. start \in Nat
    BY ClockAssumption
  <2>2. /\ Cardinality(Burst(start)) \in Nat /\ Cardinality(Quiet(start)) \in Nat
        /\ Cardinality(Observers) \in Nat
    BY <2>1, BurstFinite DEF PlaneInv
  <2> QED BY <2>1, <2>2, PlaneAssumption DEF PlaneInv, BurstBound
<1> QED BY <1>1, <1>2, <1>3, PTL DEF PlaneSpec

-----------------------------------------------------------------------------
(* The audit chain.                                                        *)

\* The function that Along defines by recursion exists, and obeys its equation.
LEMMA AlongSteps ==
    ASSUME NEW table, IsFiniteSet(DOMAIN table)
    PROVE  /\ Along(table)[0] = {Genesis}
           /\ \A n \in 1 .. Cardinality(DOMAIN table) :
                  Along(table)[n] = UNION {Next1(table, h) : h \in Along(table)[n - 1]}
<1> DEFINE N == Cardinality(DOMAIN table)
           S == SUBSET (DOMAIN table \cup {Genesis})
           step == [X \in S |-> UNION {Next1(table, h) : h \in X}]
           base == {Genesis}
           Follows(f) == f = [n \in 0 .. N |->
               IF n = 0 THEN {Genesis} ELSE UNION {Next1(table, h) : h \in f[n - 1]}]
<1>1. N \in Nat /\ base \in S /\ \A X \in S : step[X] \in S
  BY FS_CardinalityType DEF Next1
<1>2. PICK f : Iterates(f, N, S, base, step)
  <2> HIDE DEF N, S, step, base
  <2> QED BY <1>1, IterationExists
<1>3. Follows(f)
  <2>1. ASSUME NEW n \in 0 .. N
        PROVE  f[n] = IF n = 0 THEN {Genesis}
                      ELSE UNION {Next1(table, h) : h \in f[n - 1]}
    <3>1. ASSUME n # 0 PROVE f[n - 1] \in S
      <4> HIDE DEF N, S, step, base
      <4> QED BY <1>1, <1>2, <3>1 DEF Iterates
    <3>2. ASSUME n # 0
          PROVE  step[f[n - 1]] = UNION {Next1(table, h) : h \in f[n - 1]}
      <4>1. f[n - 1] \in S
        BY <3>1, <3>2
      <4> HIDE DEF S
      <4> QED BY <4>1
    <3>3. f[n] = IF n = 0 THEN {Genesis} ELSE step[f[n - 1]]
      <4> HIDE DEF N, S, step
      <4> QED BY <1>2 DEF Iterates
    <3> QED BY <3>2, <3>3
  <2> HIDE DEF N, S
  <2> QED BY <1>2, <2>1 DEF Iterates
<1>4. Along(table) = CHOOSE g : Follows(g)
  BY DEF Along
<1>5. Follows(Along(table))
  <2> HIDE DEF Follows
  <2> QED BY <1>3, <1>4
<1> HIDE DEF Follows
<1>6. ASSUME NEW g, Follows(g)
      PROVE  /\ g[0] = {Genesis}
             /\ \A n \in 1 .. N : g[n] = UNION {Next1(table, h) : h \in g[n - 1]}
  <2> HIDE DEF N
  <2> QED BY <1>1, <1>6 DEF Follows
<1> QED BY <1>5, <1>6

PlaceOf(table) ==
    [e \in DOMAIN table |->
        CHOOSE n \in 1 .. Cardinality(DOMAIN table) : e \in Along(table)[n]]

\* The migration's numbers are the places along the chain, one event at each.
LEMMA PlacesAreSteps ==
    ASSUME NEW table, IsFiniteSet(DOMAIN table), ~ChainFails(table)
    PROVE  LET N == Cardinality(DOMAIN table)
               place == PlaceOf(table)
           IN  /\ N \in Nat /\ place \in [DOMAIN table -> 1 .. N]
               /\ \A e \in DOMAIN table : e \in Along(table)[place[e]]
               /\ \A n \in 1 .. N : \A e, f \in Along(table)[n] : e = f
               /\ \A n \in 1 .. N : Along(table)[n] \subseteq DOMAIN table
               /\ \A n \in 1 .. N : \E e \in DOMAIN table : place[e] = n
<1> DEFINE D == DOMAIN table
           N == Cardinality(D)
           place == PlaceOf(table)
<1>1. N \in Nat
  BY FS_CardinalityType
<1>2. \A n \in 1 .. N : Along(table)[n] \subseteq D
  BY AlongSteps DEF Next1
<1>3. /\ \A n \in 1 .. N : ~(Cardinality(Along(table)[n]) > 1)
      /\ UNION {Along(table)[n] : n \in 1 .. N} = D
  BY DEF ChainFails
<1>4. place = [e \in D |-> CHOOSE n \in 1 .. N : e \in Along(table)[n]]
  BY DEF PlaceOf
<1> HIDE DEF N, D, place
<1>5. ASSUME NEW e \in D
      PROVE  place[e] \in 1 .. N /\ e \in Along(table)[place[e]]
  <2>1. \E n \in 1 .. N : e \in Along(table)[n]
    BY <1>3
  <2> QED BY <2>1, <1>4
<1>6. ASSUME NEW n \in 1 .. N, NEW e \in Along(table)[n], NEW f \in Along(table)[n], e # f
      PROVE  FALSE
  <2>1. IsFiniteSet(Along(table)[n]) /\ Cardinality(Along(table)[n]) \in Nat
    BY <1>2, FS_Subset, FS_CardinalityType DEF D
  <2>2. Cardinality({e, f}) = 2
    <3>1. IsFiniteSet({e}) /\ Cardinality({e}) = 1
      BY FS_Singleton
    <3>2. Cardinality({e} \cup {f}) = 1 + 1
      BY <3>1, <1>6, FS_AddElement
    <3>3. {e} \cup {f} = {e, f}
      OBVIOUS
    <3> QED BY <3>2, <3>3
  <2>3. Cardinality({e, f}) =< Cardinality(Along(table)[n])
    <3>1. {e, f} \in SUBSET Along(table)[n]
      OBVIOUS
    <3> QED BY <2>1, <3>1, FS_Subset
  <2> QED BY <1>3, <2>1, <2>2, <2>3
<1>7. place \in [D -> 1 .. N]
  BY <1>4, <1>5
<1>8. \A n \in 1 .. N : \A e, f \in Along(table)[n] : e = f
  BY <1>6
<1>9. \A n \in 1 .. N : \E e \in D : place[e] = n
  <2>1. place \in Injection(D, 1 .. N)
    <3>1. ASSUME NEW e \in D, NEW f \in D, place[e] = place[f] PROVE e = f
      BY <3>1, <1>5, <1>8
    <3> QED BY <3>1, <1>7 DEF Injection, IsInjective
  <2>2. IsFiniteSet(1 .. N) /\ Cardinality(1 .. N) = N
    BY <1>1, FS_Interval
  <2>3. N = Cardinality(D)
    BY DEF N
  <2>4. place \in Surjection(D, 1 .. N)
    BY <2>1, <2>2, <2>3, FS_Injection
  <2> QED BY <2>4 DEF Surjection
<1> QED BY <1>1, <1>2, <1>5, <1>7, <1>8, <1>9 DEF N, D, place

WriterStates ==
    [at : {"idle", "locked", "done"}]
        \cup [at : {"read"}, previous : AuditEvents \cup {Genesis}]

ChainTypeOK ==
    /\ IsFiniteSet(Table) /\ Table \subseteq AuditEvents
    /\ writer \in [Writers -> WriterStates]
    /\ nextval \in Nat \ {0}
    /\ migrated = "yes" => sequence_id \in [Table -> 1 .. nextval - 1]

\* One writer at a time holds the lock, and the hash it read is still the latest.
ChainInv ==
    /\ ChainTypeOK
    /\ \A w \in Writers : writer[w].at \in {"locked", "read"} =>
           lock = w /\ migrated = "yes"
    /\ \A w \in Writers : writer[w].at = "read" => writer[w].previous = Latest

\* A table that is not empty has a latest event.
LEMMA LatestFacts ==
    ASSUME ChainTypeOK, migrated = "yes"
    PROVE  /\ Latest \in AuditEvents \cup {Genesis}
           /\ Table # {} => /\ Latest \in Table
                            /\ \A f \in Table : sequence_id[f] =< sequence_id[Latest]
<1>1. CASE Table = {}
  BY <1>1 DEF Latest
<1>2. CASE Table # {}
  <2>1. nextval \in Nat /\ \A e \in Table : sequence_id[e] \in 0 .. nextval
    BY DEF ChainTypeOK
  <2>2. \E e \in Table : \A f \in Table : sequence_id[f] =< sequence_id[e]
    BY <1>2, <2>1, LargestValue
  <2>3. /\ Latest \in Table
        /\ \A f \in Table : sequence_id[f] =< sequence_id[Latest]
    BY <1>2, <2>2 DEF Latest
  <2> QED BY <2>3 DEF ChainTypeOK
<1> QED BY <1>1, <1>2

LEMMA MigrateKeepsChain == ChainInv /\ Migrate => ChainInv'
<1> SUFFICES ASSUME ChainInv, Migrate PROVE ChainInv'
  OBVIOUS
<1>1. /\ migrated = "no" /\ ChainTypeOK
      /\ previous_hash' = previous_hash /\ writer' = writer /\ lock' = lock
  BY DEF Migrate, ChainInv
<1>2. \A w \in Writers : writer[w].at \notin {"locked", "read"}
  BY <1>1 DEF ChainInv
<1>3. CASE ChainFails(previous_hash)
  BY <1>1, <1>2, <1>3 DEF Migrate, ChainInv, ChainTypeOK, Table
<1>4. CASE ~ChainFails(previous_hash)
  <2>1. /\ migrated' = "yes" /\ sequence_id' = PlaceOf(previous_hash)
        /\ nextval' = Cardinality(Table) + 1
    BY <1>4 DEF Migrate, PlaceOf, Table
  <2>2. IsFiniteSet(DOMAIN previous_hash) /\ Cardinality(Table) \in Nat
    BY <1>1, FS_CardinalityType DEF ChainTypeOK, Table
  <2>4. PlaceOf(previous_hash) \in [Table -> 1 .. Cardinality(Table)]
    BY <1>4, <2>2, PlacesAreSteps DEF Table
  <2>5. Cardinality(Table) + 1 - 1 = Cardinality(Table)
    BY <2>2
  <2>6. ChainTypeOK'
    BY <1>1, <2>1, <2>2, <2>4, <2>5 DEF ChainTypeOK, Table
  <2> QED BY <1>1, <1>2, <2>1, <2>6 DEF ChainInv
<1> QED BY <1>3, <1>4

\* Writers that are not under way, when the table and its latest event stay.
LEMMA WritersKeepChain ==
    ASSUME ChainInv, NEW w \in Writers,
           Lock(w) \/ ReadLatest(w) \/ Rollback(w) \/ Commit(w)
    PROVE  ChainInv'
<1>0. /\ ChainTypeOK
      /\ \A v \in Writers : writer[v].at \in {"locked", "read"} =>
             lock = v /\ migrated = "yes"
      /\ \A v \in Writers : writer[v].at = "read" => writer[v].previous = Latest
      /\ NoLock \notin Writers
  BY ChainAssumption DEF ChainInv
<1>1. CASE Lock(w)
  <2>1. /\ migrated = "yes" /\ lock = NoLock /\ lock' = w
        /\ writer' = [writer EXCEPT ![w] = [at |-> "locked"]]
        /\ UNCHANGED <<previous_hash, sequence_id, migrated, nextval>>
    BY <1>1 DEF Lock, Lockable
  <2>2. Latest' = Latest /\ Table' = Table
    BY <2>1 DEF Latest, Table
  <2>3. \A v \in Writers : writer[v].at \notin {"locked", "read"}
    BY <1>0, <2>1
  <2>4. ChainTypeOK'
    BY <1>0, <2>1, <2>2 DEF ChainTypeOK, WriterStates
  <2> QED BY <1>0, <2>1, <2>2, <2>3, <2>4 DEF ChainInv, ChainTypeOK
<1>2. CASE ReadLatest(w)
  <2>1. /\ writer[w].at = "locked"
        /\ writer' = [writer EXCEPT ![w] = [at |-> "read", previous |-> Latest]]
        /\ UNCHANGED <<previous_hash, sequence_id, migrated, nextval, lock>>
    BY <1>2 DEF ReadLatest
  <2>2. Latest' = Latest /\ Table' = Table
    BY <2>1 DEF Latest, Table
  <2>3. migrated = "yes" /\ lock = w /\ Latest \in AuditEvents \cup {Genesis}
    BY <1>0, <2>1, LatestFacts
  <2>4. ChainTypeOK'
    BY <1>0, <2>1, <2>2, <2>3 DEF ChainTypeOK, WriterStates
  <2> QED BY <1>0, <2>1, <2>2, <2>3, <2>4 DEF ChainInv, ChainTypeOK
<1>3. CASE Rollback(w)
  <2>1. /\ writer[w].at \in {"locked", "read"}
        /\ writer' = [writer EXCEPT ![w] = [at |-> "done"]] /\ lock' = NoLock
        /\ nextval' \in {nextval, nextval + 1}
        /\ UNCHANGED <<previous_hash, sequence_id, migrated>>
    BY <1>3 DEF Rollback, Done
  <2>2. Latest' = Latest /\ Table' = Table
    BY <2>1 DEF Latest, Table
  <2>3. \A v \in Writers \ {w} : writer[v].at \notin {"locked", "read"}
    BY <1>0, <2>1
  <2>4. ChainTypeOK'
    BY <1>0, <2>1, <2>2 DEF ChainTypeOK, WriterStates
  <2> QED BY <1>0, <2>1, <2>2, <2>3, <2>4 DEF ChainInv, ChainTypeOK
<1>4. CASE Commit(w)
  <2>1. PICK e \in AuditEvents \ Table :
          /\ previous_hash' = [f \in Table \cup {e} |->
                 IF f = e THEN writer[w].previous ELSE previous_hash[f]]
          /\ sequence_id' = [f \in Table \cup {e} |->
                 IF f = e THEN nextval ELSE sequence_id[f]]
    BY <1>4 DEF Commit
  <2>2. /\ writer[w].at = "read" /\ nextval' = nextval + 1 /\ migrated' = migrated
        /\ writer' = [writer EXCEPT ![w] = [at |-> "done"]] /\ lock' = NoLock
    BY <1>4 DEF Commit, Done
  <2>4. \A v \in Writers \ {w} : writer[v].at \notin {"locked", "read"}
    BY <1>0, <2>2
  <2>5. Table' = Table \cup {e} /\ IsFiniteSet(Table')
    BY <1>0, <2>1, FS_AddElement DEF Table, ChainTypeOK
  <2>6. migrated = "yes"
    BY <1>0, <2>2
  <2>7. ChainTypeOK'
    <3>1. sequence_id' \in [Table' -> 1 .. nextval' - 1]
      BY <1>0, <2>1, <2>2, <2>5, <2>6 DEF ChainTypeOK
    <3>2. writer' \in [Writers -> WriterStates]
      BY <1>0, <2>2 DEF ChainTypeOK, WriterStates
    <3> QED BY <1>0, <2>2, <2>5, <3>1, <3>2 DEF ChainTypeOK
  <2> QED BY <2>2, <2>4, <2>7, <1>0 DEF ChainInv, ChainTypeOK
<1> QED BY <1>1, <1>2, <1>3, <1>4

LEMMA ChainStarts == AuditInit => ChainInv
<1> SUFFICES ASSUME AuditInit PROVE ChainInv
  OBVIOUS
<1>1. /\ migrated = "no" /\ nextval = 1
      /\ writer = [w \in Writers |-> [at |-> "idle"]]
  BY DEF AuditInit
<1>2. Table \in SUBSET AuditEvents
  BY DEF AuditInit, LegacyTables, Table
<1>3. IsFiniteSet(Table)
  BY <1>2, ChainAssumption, FS_Subset
<1> QED BY <1>1, <1>2, <1>3 DEF ChainInv, ChainTypeOK, WriterStates

LEMMA ChainStep == ChainInv /\ [AuditNext]_auditVars => ChainInv'
<1>1. ASSUME ChainInv, UNCHANGED auditVars PROVE ChainInv'
  BY <1>1 DEF auditVars, ChainInv, ChainTypeOK, Table, Latest
<1> QED BY <1>1, MigrateKeepsChain, WritersKeepChain DEF AuditNext

\* A reading has every event once.
LEMMA ReadingFacts ==
    ASSUME NEW table, IsFiniteSet(DOMAIN table), NEW s, Chained(s, table)
    PROVE  LET N == Cardinality(DOMAIN table)
           IN  /\ N \in Nat /\ s \in [1 .. N -> DOMAIN table]
               /\ \A i, j \in 1 .. N : s[i] = s[j] => i = j
               /\ \A e \in DOMAIN table : \E i \in 1 .. N : s[i] = e
               /\ \A i \in 1 .. N : table[s[i]] = IF i = 1 THEN Genesis ELSE s[i - 1]
<1> DEFINE D == DOMAIN table
           N == Cardinality(D)
<1>1. N \in Nat /\ IsFiniteSet(1 .. N) /\ Cardinality(1 .. N) = N
  BY FS_CardinalityType, FS_Interval
<1>2. s \in [1 .. N -> D] /\ Range(s) = D
      /\ \A i \in 1 .. N : table[s[i]] = IF i = 1 THEN Genesis ELSE s[i - 1]
  BY DEF Chained
<1>3. N = Cardinality(D)
  OBVIOUS
<1> HIDE DEF N, D
<1>4. \A e \in D : \E i \in 1 .. N : s[i] = e
  BY <1>2 DEF Range
<1>5. s \in Surjection(1 .. N, D)
  BY <1>2, <1>4 DEF Surjection
<1>6. s \in Injection(1 .. N, D)
  BY <1>1, <1>3, <1>5, FS_Surjection
<1>7. \A i, j \in 1 .. N : s[i] = s[j] => i = j
  BY <1>2, <1>6 DEF Injection, IsInjective
<1> QED BY <1>1, <1>2, <1>4, <1>7 DEF N, D

\* There is one reading at most.
LEMMA OneReading ==
    ASSUME NEW table, IsFiniteSet(DOMAIN table), Genesis \notin DOMAIN table,
           NEW s, Chained(s, table), NEW t, Chained(t, table)
    PROVE  s = t
<1> DEFINE D == DOMAIN table
           N == Cardinality(D)
           Same(n) == \A i \in 1 .. n : s[i] = t[i]
           V == {n \in 0 .. N : Same(n)}
<1>1. /\ N \in Nat /\ s \in [1 .. N -> D] /\ t \in [1 .. N -> D]
      /\ \A i \in 1 .. N : table[s[i]] = IF i = 1 THEN Genesis ELSE s[i - 1]
      /\ \A i \in 1 .. N : table[t[i]] = IF i = 1 THEN Genesis ELSE t[i - 1]
      /\ \A i, j \in 1 .. N : t[i] = t[j] => i = j
      /\ \A e \in D : \E i \in 1 .. N : t[i] = e
  BY ReadingFacts
<1>2. Genesis \notin D
  OBVIOUS
<1> HIDE DEF N, D
<1>3. ASSUME NEW n \in 0 .. N, Same(n), n < N PROVE Same(n + 1)
  <2>1. n + 1 \in 1 .. N
    BY <1>1, <1>3
  <2>2. PICK j \in 1 .. N : t[j] = s[n + 1]
    BY <1>1, <2>1
  <2>3. table[t[j]] = IF n + 1 = 1 THEN Genesis ELSE s[n]
    <3>1. table[s[n + 1]] = IF n + 1 = 1 THEN Genesis ELSE s[(n + 1) - 1]
      BY <1>1, <2>1
    <3>2. (n + 1) - 1 = n
      BY <1>1
    <3> QED BY <2>2, <3>1, <3>2
  <2>4. CASE n = 0
    <3>1. table[t[j]] = Genesis
      BY <2>3, <2>4
    <3>2. j = 1
      <4>1. ASSUME j # 1 PROVE FALSE
        <5>1. j - 1 \in 1 .. N
          BY <1>1, <4>1
        <5>2. t[j - 1] \in D /\ table[t[j]] = t[j - 1]
          BY <1>1, <4>1, <5>1
        <5> QED BY <1>2, <3>1, <5>2
      <4> QED BY <4>1
    <3> QED BY <2>2, <2>4, <3>2
  <2>5. CASE n # 0
    <3>1. n \in 1 .. N /\ table[t[j]] = t[n] /\ t[n] \in D
      BY <1>1, <1>3, <2>3, <2>5
    <3>2. j # 1
      BY <1>1, <1>2, <3>1
    <3>3. j - 1 \in 1 .. N /\ table[t[j]] = t[j - 1]
      BY <1>1, <3>2
    <3>4. j - 1 = n
      BY <1>1, <3>1, <3>3
    <3>5. s[n + 1] = t[n + 1]
      BY <2>2, <3>1, <3>4
    <3> QED BY <1>3, <3>5
  <2> QED BY <2>4, <2>5
<1>4. 0 .. N \subseteq V
  <2> HIDE DEF Same
  <2>1. 0 \in V
    BY <1>1 DEF Same
  <2>2. \A n \in 0 .. N : n \in V /\ n < N => n + 1 \in V
    BY <1>1, <1>3
  <2> HIDE DEF V
  <2> QED BY <1>1, <2>1, <2>2, IntervalInduction
<1>5. Same(N)
  BY <1>1, <1>4
<1> QED BY <1>1, <1>5

\* So a table that has a reading is read that way.
LEMMA ReadingIs ==
    ASSUME NEW table, NEW place, IsFiniteSet(DOMAIN table), Genesis \notin DOMAIN table,
           NEW s, Reads(s, table, place)
    PROVE  /\ Readings(table, place) # {}
           /\ (CHOOSE t \in Readings(table, place) : TRUE) = s
<1>1. s \in Readings(table, place)
  BY DEF Readings, Reads, Chained
<1> DEFINE r == CHOOSE t \in Readings(table, place) : TRUE
<1>2. r \in Readings(table, place)
  BY <1>1
<1>3. Reads(r, table, place)
  BY <1>2 DEF Readings
<1> HIDE DEF r
<1>4. r = s
  BY <1>3, OneReading DEF Reads
<1> QED BY <1>1, <1>4 DEF r

\* What the migration accepts has a reading: the event at each step along the chain.
LEMMA MigratedReads ==
    ASSUME NEW table, IsFiniteSet(DOMAIN table), ~ChainFails(table)
    PROVE  \E s : Reads(s, table, PlaceOf(table))
<1> DEFINE D == DOMAIN table
           N == Cardinality(D)
           place == PlaceOf(table)
           s == [n \in 1 .. N |-> CHOOSE e \in D : place[e] = n]
<1>1. /\ N \in Nat /\ place \in [D -> 1 .. N]
      /\ \A e \in D : e \in Along(table)[place[e]]
      /\ \A n \in 1 .. N : \A e, f \in Along(table)[n] : e = f
      /\ \A n \in 1 .. N : Along(table)[n] \subseteq D
      /\ \A n \in 1 .. N : \E e \in D : place[e] = n
  BY PlacesAreSteps
<1>2. /\ Along(table)[0] = {Genesis}
      /\ \A n \in 1 .. N :
             Along(table)[n] = UNION {Next1(table, h) : h \in Along(table)[n - 1]}
  BY AlongSteps
<1> HIDE DEF N, D, place
<1>3. \A n \in 1 .. N : s[n] \in D /\ place[s[n]] = n /\ s[n] \in Along(table)[n]
  BY <1>1
<1>4. s \in [1 .. N -> D]
  BY <1>3
<1>5. \A e \in D : s[place[e]] = e
  BY <1>1, <1>3
<1> HIDE DEF s
<1>6. \A n \in 1 .. N : table[s[n]] = IF n = 1 THEN Genesis ELSE s[n - 1]
  <2> SUFFICES ASSUME NEW n \in 1 .. N
               PROVE  table[s[n]] = IF n = 1 THEN Genesis ELSE s[n - 1]
    OBVIOUS
  <2>1. table[s[n]] \in Along(table)[n - 1]
    BY <1>2, <1>3 DEF Next1
  <2>2. CASE n = 1
    BY <1>2, <2>1, <2>2
  <2>3. CASE n # 1
    <3>1. n - 1 \in 1 .. N
      BY <1>1, <2>3
    <3> QED BY <1>1, <1>3, <2>1, <2>3, <3>1
  <2> QED BY <2>2, <2>3
<1>7. Range(s) = D
  BY <1>1, <1>4, <1>5 DEF Range
<1>8. Reads(s, table, PlaceOf(table))
  <2>1. \A i, j \in DOMAIN s : i < j => place[s[i]] < place[s[j]]
    BY <1>3, <1>4
  <2> QED BY <1>4, <1>6, <1>7, <2>1 DEF Reads, Chained, N, D, place
<1> QED BY <1>8

\* The event that names the end of a reading is its new end.
LEMMA ReadingGrows ==
    ASSUME NEW table, IsFiniteSet(DOMAIN table), DOMAIN table \subseteq AuditEvents,
           NEW place, NEW s, Reads(s, table, place),
           NEW e \in AuditEvents \ DOMAIN table, NEW grown, NEW next,
           DOMAIN grown = DOMAIN table \cup {e},
           \A f \in DOMAIN table : /\ grown[f] = table[f] /\ next[f] = place[f]
                                  /\ place[f] < next[e],
           grown[e] = IF DOMAIN table = {} THEN Genesis
                      ELSE s[Cardinality(DOMAIN table)]
    PROVE  /\ s \in Seq(AuditEvents) /\ e \notin Range(s)
           /\ Reads(Append(s, e), grown, next)
<1> DEFINE D == DOMAIN table
           N == Cardinality(D)
           t == Append(s, e)
<1>1. /\ N \in Nat /\ s \in [1 .. N -> D]
      /\ \A i, j \in 1 .. N : s[i] = s[j] => i = j
      /\ \A f \in D : \E i \in 1 .. N : s[i] = f
      /\ \A i \in 1 .. N : table[s[i]] = IF i = 1 THEN Genesis ELSE s[i - 1]
  BY ReadingFacts DEF Reads
<1>2. /\ D \subseteq AuditEvents /\ e \notin D /\ Range(s) = D
      /\ Cardinality(DOMAIN grown) = N + 1 /\ (D = {} <=> N = 0)
      /\ DOMAIN grown = D \cup {e}
      /\ grown[e] = IF D = {} THEN Genesis ELSE s[N]
      /\ \A f \in D : /\ grown[f] = table[f] /\ next[f] = place[f]
                     /\ place[f] < next[e]
  BY FS_AddElement, FS_EmptySet DEF Reads, Chained
<1> HIDE DEF N, D
<1>3. s \in Seq(AuditEvents) /\ Len(s) = N
  BY <1>1, <1>2
<1>4. /\ t \in Seq(AuditEvents) /\ Len(t) = N + 1 /\ t[N + 1] = e
      /\ \A i \in 1 .. N : t[i] = s[i]
  BY <1>1, <1>2, <1>3, AppendProperties
<1> HIDE DEF t
<1>5. t \in [1 .. N + 1 -> D \cup {e}]
  <2>1. DOMAIN t = 1 .. N + 1 /\ t = [i \in 1 .. N + 1 |-> t[i]]
    BY <1>1, <1>4
  <2>2. \A i \in 1 .. N + 1 : i = N + 1 \/ i \in 1 .. N
    BY <1>1
  <2> QED BY <1>1, <1>4, <2>1, <2>2
<1>6. Range(t) = D \cup {e}
  <2>1. N + 1 \in 1 .. N + 1 /\ 1 .. N \subseteq 1 .. N + 1
    BY <1>1
  <2>2. \A f \in D \cup {e} : \E i \in 1 .. N + 1 : t[i] = f
    BY <1>1, <1>4, <2>1
  <2> QED BY <1>5, <2>2 DEF Range
<1>7. \A i \in 1 .. N + 1 : grown[t[i]] = IF i = 1 THEN Genesis ELSE t[i - 1]
  <2> SUFFICES ASSUME NEW i \in 1 .. N + 1
               PROVE  grown[t[i]] = IF i = 1 THEN Genesis ELSE t[i - 1]
    OBVIOUS
  <2>1. CASE i = N + 1
    <3>1. grown[t[i]] = IF N = 0 THEN Genesis ELSE s[N]
      BY <1>2, <1>4, <2>1
    <3>2. (i = 1 <=> N = 0) /\ i - 1 = N
      BY <1>1, <2>1
    <3>3. N # 0 => t[i - 1] = s[N]
      BY <1>1, <1>4, <3>2
    <3> QED BY <3>1, <3>2, <3>3
  <2>2. CASE i # N + 1
    <3>1. i \in 1 .. N
      BY <1>1, <2>2
    <3>2. grown[t[i]] = IF i = 1 THEN Genesis ELSE s[i - 1]
      BY <1>1, <1>2, <1>4, <3>1
    <3>3. i # 1 => i - 1 \in 1 .. N
      BY <1>1, <3>1
    <3> QED BY <1>4, <3>2, <3>3
  <2> QED BY <2>1, <2>2
<1>8. \A i, j \in 1 .. N : i < j => place[s[i]] < place[s[j]]
  BY <1>1 DEF Reads, Chained
<1>9. \A i, j \in 1 .. N + 1 : i < j => next[t[i]] < next[t[j]]
  <2> SUFFICES ASSUME NEW i \in 1 .. N + 1, NEW j \in 1 .. N + 1, i < j
               PROVE  next[t[i]] < next[t[j]]
    OBVIOUS
  <2>1. i \in 1 .. N /\ t[i] = s[i] /\ s[i] \in D /\ next[s[i]] = place[s[i]]
    BY <1>1, <1>2, <1>4
  <2>2. CASE j = N + 1
    BY <1>2, <1>4, <2>1, <2>2
  <2>3. CASE j # N + 1
    <3>0. N \in Nat
      BY <1>1
    <3>1. j \in 1 .. N
      BY <2>3, <3>0
    <3>2. t[j] = s[j] /\ next[s[j]] = place[s[j]]
      BY <1>1, <1>2, <1>4, <3>1
    <3> QED BY <1>1, <1>8, <2>1, <3>1, <3>2
  <2> QED BY <2>2, <2>3
<1>10. Reads(t, grown, next)
  <2>1. DOMAIN t = 1 .. N + 1
    BY <1>5
  <2> QED BY <1>2, <1>5, <1>6, <1>7, <1>9, <2>1 DEF Reads, Chained
<1> QED BY <1>2, <1>3, <1>10 DEF t, D

\* Numbers grow along a reading, so the latest event is where it ends.
LEMMA LatestEnds ==
    ASSUME ChainInv, migrated = "yes", NEW s, Reads(s, previous_hash, sequence_id)
    PROVE  Latest = IF Table = {} THEN Genesis ELSE s[Cardinality(Table)]
<1>1. CASE Table = {}
  BY <1>1 DEF Latest
<1>2. CASE Table # {}
  <2> DEFINE N == Cardinality(Table)
  <2>1. /\ ChainTypeOK /\ IsFiniteSet(Table)
        /\ \A f \in Table : sequence_id[f] \in Nat
    BY DEF ChainInv, ChainTypeOK
  <2>2. /\ N \in Nat /\ s \in [1 .. N -> Table]
        /\ \A f \in Table : \E i \in 1 .. N : s[i] = f
    BY <2>1, ReadingFacts DEF Table, Reads
  <2>3. Latest \in Table /\ \A f \in Table : sequence_id[f] =< sequence_id[Latest]
    BY <1>2, <2>1, LatestFacts
  <2> HIDE DEF N
  <2>4. PICK i \in 1 .. N : s[i] = Latest
    BY <2>2, <2>3
  <2>5. ASSUME i # N PROVE FALSE
    <3>1. N \in 1 .. N /\ i < N
      BY <2>2, <2>5
    <3>2. PICK x \in Table : x = s[N]
      BY <2>2, <3>1
    <3>3. sequence_id[Latest] < sequence_id[x]
      BY <2>2, <2>4, <3>1, <3>2 DEF Reads
    <3> QED BY <2>1, <2>3, <3>2, <3>3
  <2> QED BY <1>2, <2>4, <2>5 DEF N
<1> QED BY <1>1, <1>2

\* An open trail has a reading.
ReadInv ==
    ChainInv /\ (migrated = "yes" => Readings(previous_hash, sequence_id) # {})

\* What start-up takes over has every entry once.
LEMMA MigrateOpens ==
    ASSUME ReadInv, Migrate, migrated' = "yes"
    PROVE  Log!Open /\ Readings(previous_hash', sequence_id') # {}
<1>1. /\ IsFiniteSet(Table) /\ Table \subseteq AuditEvents /\ Genesis \notin Table
      /\ ~ChainFails(previous_hash) /\ migrated = "no" /\ previous_hash' = previous_hash
      /\ sequence_id' = PlaceOf(previous_hash)
  BY ChainAssumption DEF ReadInv, ChainInv, ChainTypeOK, Migrate, PlaceOf, Table
<1> DEFINE place == PlaceOf(previous_hash)
<1>2. PICK s : Reads(s, previous_hash, place)
  BY <1>1, MigratedReads DEF Table
<1> HIDE DEF place
<1>3. /\ Readings(previous_hash, place) # {}
      /\ (CHOOSE t \in Readings(previous_hash, place) : TRUE) = s
  BY <1>1, <1>2, ReadingIs DEF Table
<1>4. sequence_id' = place
  BY <1>1 DEF place
<1>5. Trail' = s
  BY <1>1, <1>3, <1>4 DEF Trail
<1>6. /\ Cardinality(Table) \in Nat /\ s \in [1 .. Cardinality(Table) -> Table]
      /\ \A i, j \in 1 .. Cardinality(Table) : s[i] = s[j] => i = j
  BY <1>1, <1>2, ReadingFacts DEF Table, Reads
<1>7. s \in Seq(AuditEvents) /\ Log!IsInjective(s)
  BY <1>1, <1>6 DEF Log!IsInjective
<1> QED BY <1>1, <1>3, <1>4, <1>5, <1>7 DEF Log!Open

\* A committed event goes to the end of the log.
LEMMA CommitExtends ==
    ASSUME ReadInv, NEW w \in Writers, Commit(w)
    PROVE  Log!Extend /\ Readings(previous_hash', sequence_id') # {}
<1>1. PICK e \in AuditEvents \ Table :
          /\ previous_hash' = [f \in Table \cup {e} |->
                 IF f = e THEN writer[w].previous ELSE previous_hash[f]]
          /\ sequence_id' = [f \in Table \cup {e} |->
                 IF f = e THEN nextval ELSE sequence_id[f]]
  BY DEF Commit
<1>2. /\ IsFiniteSet(Table) /\ Table \subseteq AuditEvents /\ Genesis \notin AuditEvents
      /\ migrated = "yes" /\ migrated' = migrated /\ writer[w].previous = Latest
      /\ \A f \in Table : sequence_id[f] \in Nat /\ sequence_id[f] < nextval
  BY ChainAssumption DEF ReadInv, ChainInv, ChainTypeOK, Commit
<1>3. PICK s : Reads(s, previous_hash, sequence_id)
  BY <1>2 DEF ReadInv, Readings
<1>4. Latest = IF Table = {} THEN Genesis ELSE s[Cardinality(Table)]
  BY <1>2, <1>3, LatestEnds DEF ReadInv
<1>5. /\ DOMAIN previous_hash' = Table \cup {e} /\ previous_hash'[e] = Latest
      /\ \A f \in Table : /\ previous_hash'[f] = previous_hash[f]
                          /\ sequence_id'[f] = sequence_id[f]
                          /\ sequence_id[f] < sequence_id'[e]
  BY <1>1, <1>2
<1> DEFINE t == Append(s, e)
<1>6. /\ s \in Seq(AuditEvents) /\ e \notin Range(s)
      /\ Reads(t, previous_hash', sequence_id')
  BY <1>2, <1>3, <1>4, <1>5, ReadingGrows DEF Table
<1>7. IsFiniteSet(Table \cup {e}) /\ Genesis \notin Table \cup {e}
  BY <1>2, FS_AddElement
<1>8. /\ Readings(previous_hash', sequence_id') # {}
      /\ (CHOOSE r \in Readings(previous_hash', sequence_id') : TRUE) = t
  <2> HIDE DEF t
  <2> QED BY <1>5, <1>6, <1>7, ReadingIs
<1>9. /\ Readings(previous_hash, sequence_id) # {}
      /\ (CHOOSE r \in Readings(previous_hash, sequence_id) : TRUE) = s
  BY <1>2, <1>3, ReadingIs DEF Table
<1>10. Trail = s /\ Trail' = Append(s, e)
  BY <1>2, <1>8, <1>9 DEF Trail
<1>11. e \notin Log!Range(s)
  BY <1>6 DEF Range, Log!Range
<1> QED BY <1>2, <1>8, <1>10, <1>11 DEF Log!Extend

\* The audit table, by its numbers and by its hashes alike, is a log that only grows at
\* its end: no event of it is ever lost, moved or joined by a second one at its place,
\* whatever was migrated, raced or rolled back (action_gate/storage.py).
THEOREM AuditIsAppendOnly == AuditSpec => AppendOnlySpec
<1>1. AuditInit => ReadInv /\ Log!Init
  <2> SUFFICES ASSUME AuditInit PROVE ReadInv /\ Log!Init
    OBVIOUS
  <2>1. migrated = "no"
    BY DEF AuditInit
  <2> QED BY <2>1, ChainStarts DEF ReadInv, Log!Init, Trail
<1>2. ReadInv /\ [AuditNext]_auditVars => ReadInv' /\ [Log!Next]_<<migrated = "yes", Trail>>
  <2> SUFFICES ASSUME ReadInv, [AuditNext]_auditVars
               PROVE  ReadInv' /\ [Log!Next]_<<migrated = "yes", Trail>>
    OBVIOUS
  <2>1. ChainInv'
    BY ChainStep DEF ReadInv
  <2>2. ASSUME UNCHANGED <<previous_hash, sequence_id, migrated>>
        PROVE  ReadInv' /\ [Log!Next]_<<migrated = "yes", Trail>>
    BY <2>1, <2>2 DEF ReadInv, Trail
  <2>3. ASSUME Migrate PROVE ReadInv' /\ [Log!Next]_<<migrated = "yes", Trail>>
    <3>1. CASE migrated' = "yes"
      BY <2>1, <2>3, <3>1, MigrateOpens DEF ReadInv, Log!Next
    <3>2. CASE migrated' # "yes"
      <4>1. (migrated' = "yes") = (migrated = "yes") /\ Trail' = Trail
        BY <2>3, <3>2 DEF Migrate, Trail
      <4> QED BY <2>1, <3>2, <4>1 DEF ReadInv
    <3> QED BY <3>1, <3>2
  <2>4. ASSUME NEW w \in Writers, Commit(w)
        PROVE  ReadInv' /\ [Log!Next]_<<migrated = "yes", Trail>>
    BY <2>1, <2>4, CommitExtends DEF ReadInv, Log!Next
  <2>5. ASSUME NEW w \in Writers, Lock(w) \/ ReadLatest(w) \/ Rollback(w)
        PROVE  ReadInv' /\ [Log!Next]_<<migrated = "yes", Trail>>
    BY <2>2, <2>5 DEF Lock, ReadLatest, Rollback
  <2>6. CASE UNCHANGED auditVars
    BY <2>2, <2>6 DEF auditVars
  <2> QED BY <2>3, <2>4, <2>5, <2>6 DEF AuditNext
<1> QED BY <1>1, <1>2, PTL DEF AuditSpec, AppendOnlySpec, Log!Spec
=============================================================================
