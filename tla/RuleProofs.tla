------------------------------ MODULE RuleProofs ------------------------------
(***************************************************************************)
(* Proofs about the components that decide on what they are handed: the    *)
(* policy verdict and its replay, the market gate, the self audit, the     *)
(* reaction network, the sale, the awareness layer and the enterprise      *)
(* boundary.                                                               *)
(***************************************************************************)
EXTENDS PolicyDecision, MarketGate, SelfAudit, ReactionNetwork, CommercialSale,
        Awareness, EnterpriseBoundary, GovernanceScores, ClaimEvidence,
        InductionFacts

-----------------------------------------------------------------------------
(* The policy verdict.                                                     *)

\* The verdict the record was made with, before a human answered.
FirstVerdict(d) ==
    IF d.forced THEN "ASK"
    ELSE Verdict(d.lists, Risk(d.lists, d.production), d.signal)

RecordFields ==
    {"lists", "production", "evidence", "signal", "forced", "approval", "decision",
     "key_id", "signature"}

\* A decision keeps the verdict it was made with until a human answers an ASK.
Answered(d) ==
    /\ DOMAIN d = RecordFields
    /\ d = [f \in RecordFields |-> d[f]]
    /\ d.forced \in BOOLEAN
    /\ ~d.forced => ~Contradictory(d.evidence)
    /\ d.approval = "none" => d.decision = FirstVerdict(d)
    /\ d.approval # "none" => FirstVerdict(d) = "ASK" /\ d.decision \in {"ALLOW", "DENY"}

\* The secret beside the keys is never changed, and keys are never taken away.
Signed(d) ==
    IF server.signing_secret # Unset THEN d.signature = server.signing_secret
    ELSE d.key_id \in server.keys /\ d.signature = d.key_id

ServerOK ==
    /\ server = [signing_secret |-> server.signing_secret, keys |-> server.keys,
                 key_id |-> server.key_id]
    /\ server.signing_secret = Unset => server.key_id \in server.keys

PolicyInv ==
    /\ ServerOK
    /\ decision # NoDecision => Answered(decision) /\ Signed(decision)

\* Normalization changes states only, and so contradictions are those of the request.
LEMMA NormalizedContradicts ==
    ASSUME NEW given \in SUBSET EvidenceItem
    PROVE  Contradictory(Normalized(given)) => Contradictory(given)
<1> SUFFICES ASSUME Contradictory(Normalized(given))
             PROVE  Contradictory(given)
  OBVIOUS
<1>1. PICK e \in Normalized(given), f \in Normalized(given) : e.value # f.value
  BY DEF Contradictory
<1>2. PICK e1 \in given : e = [e1 EXCEPT !.state = StateOf(e1)]
  BY DEF Normalized
<1>3. PICK f1 \in given : f = [f1 EXCEPT !.state = StateOf(f1)]
  BY DEF Normalized
<1>4. e.value = e1.value /\ f.value = f1.value
  BY <1>2, <1>3 DEF EvidenceItem
<1>5. QED BY <1>1, <1>4 DEF Contradictory

\* What evaluate stores, and what older versions stored, is in its first state.
LEMMA FreshRecord ==
    ASSUME ServerOK, NEW lists, NEW production, NEW given \in SUBSET EvidenceItem,
           NEW signal
    PROVE  LET d == Record(lists, production, given, signal)
           IN  Answered(d) /\ Signed(d)
<1> DEFINE d == Record(lists, production, given, signal)
<1>1. d = [lists |-> lists, production |-> production,
           evidence |-> Normalized(given), signal |-> signal,
           forced |-> Blocked(given), approval |-> "none",
           decision |-> IF Blocked(given) THEN "ASK"
                        ELSE Verdict(lists, Risk(lists, production), signal),
           key_id |-> server.key_id, signature |-> SignedWith(server)]
  BY DEF Record
<1>2. d.forced = Blocked(given) /\ d.forced \in BOOLEAN
  BY <1>1 DEF Blocked, Contradictory
<1>3. ~d.forced => ~Contradictory(d.evidence)
  BY <1>1, <1>2, NormalizedContradicts DEF Blocked
<1>4. d.approval = "none" /\ d.decision = FirstVerdict(d)
  BY <1>1 DEF FirstVerdict
<1>5. DOMAIN d = RecordFields /\ d = [f \in RecordFields |-> d[f]]
  BY <1>1 DEF RecordFields
<1>6. Answered(d)
  BY <1>2, <1>3, <1>4, <1>5 DEF Answered
<1>7. d.key_id = server.key_id /\ d.signature = SignedWith(server)
  BY <1>1
<1>8. Signed(d)
  <2>1. CASE server.signing_secret # Unset
    BY <1>7, <2>1 DEF Signed, SignedWith
  <2>2. CASE server.signing_secret = Unset
    <3>1. server.key_id \in server.keys
      BY <2>2 DEF ServerOK
    <3>2. Ring(server)[server.key_id] = server.key_id
      BY <3>1 DEF Ring
    <3>3. QED BY <1>7, <2>2, <3>1, <3>2 DEF Signed, SignedWith
  <2>3. QED BY <2>1, <2>2
<1>9. QED BY <1>6, <1>8

\* The invariant holds initially.
LEMMA PolicyBegins == PolicyInit => PolicyInv
<1> SUFFICES ASSUME PolicyInit PROVE PolicyInv
  OBVIOUS
<1>1. PICK s \in {Unset, "signing"}, k \in SUBSET KeyIds, i \in KeyIds :
          server = [signing_secret |-> s, keys |-> k, key_id |-> i]
  BY DEF PolicyInit
<1>2. ServerOK
  BY <1>1 DEF ServerOK, PolicyInit
<1>3. ASSUME decision # NoDecision
      PROVE  Answered(decision) /\ Signed(decision)
  <2>1. PICK l \in SUBSET Lists, p \in BOOLEAN, e \in EvidenceSets, g \in LegacySignals :
            decision = Record(l, p, e, g)
    BY <1>3 DEF PolicyInit, LegacyRecords
  <2>2. e \in SUBSET EvidenceItem
    BY PolicyAssumption
  <2>3. QED BY <1>2, <2>1, <2>2, FreshRecord
<1>4. QED BY <1>2, <1>3 DEF PolicyInv

\* No step takes a key away, and only a human changes a verdict.
LEMMA PolicyStep == PolicyInv /\ [PolicyNext]_policyVars => PolicyInv'
<1> SUFFICES ASSUME PolicyInv, [PolicyNext]_policyVars PROVE PolicyInv'
  OBVIOUS
<1>1. CASE Evaluate
  <2>1. PICK production \in BOOLEAN, given \in EvidenceSets :
            decision' = Record(policy, production, given,
                               Signal(policy, Risk(policy, production), given))
    BY <1>1 DEF Evaluate
  <2>2. given \in SUBSET EvidenceItem
    BY PolicyAssumption
  <2>3. Answered(decision') /\ Signed(decision')
    BY <2>1, <2>2, FreshRecord DEF PolicyInv
  <2>4. server' = server
    BY <1>1 DEF Evaluate
  <2>5. QED BY <2>3, <2>4 DEF PolicyInv, ServerOK, Answered, FirstVerdict, Signed, Contradictory
<1>2. CASE Approve
  <2>1. PICK a \in {"approved", "rejected"}, v \in {"ALLOW", "DENY"} :
            decision' = [decision EXCEPT !.approval = a, !.decision = v]
    BY <1>2 DEF Approve
  <2>2. decision # NoDecision /\ decision.decision = "ASK" /\ server' = server
    BY <1>2 DEF Approve, Loads
  <2>3. Answered(decision) /\ Signed(decision)
    BY <2>2 DEF PolicyInv
  <2>4. FirstVerdict(decision) = "ASK"
    BY <2>2, <2>3 DEF Answered
  <2>5. /\ DOMAIN decision' = RecordFields
        /\ decision' = [f \in RecordFields |-> decision'[f]]
    BY <2>1, <2>3 DEF Answered
  <2>6. /\ decision'.lists = decision.lists
        /\ decision'.production = decision.production
        /\ decision'.evidence = decision.evidence
        /\ decision'.signal = decision.signal
        /\ decision'.forced = decision.forced
        /\ decision'.key_id = decision.key_id
        /\ decision'.signature = decision.signature
        /\ decision'.approval = a
        /\ decision'.decision = v
    BY <2>1, <2>3 DEF Answered, RecordFields
  <2>7. FirstVerdict(decision') = "ASK"
    BY <2>4, <2>6 DEF FirstVerdict
  <2>8. Answered(decision')
    BY <2>3, <2>5, <2>6, <2>7 DEF Answered
  <2>9. Signed(decision')
    BY <2>3, <2>6 DEF Signed
  <2>10. QED BY <2>2, <2>8, <2>9
            DEF PolicyInv, ServerOK, Answered, FirstVerdict, Signed, Contradictory
<1>3. CASE DeployPolicy
  BY <1>3 DEF DeployPolicy, PolicyInv, ServerOK, Answered, FirstVerdict, Signed,
              Contradictory
<1>4. CASE RotateKey
  <2>1. PICK k \in KeyIds :
            server' = [server EXCEPT !.keys = server.keys \cup {k}, !.key_id = k]
    BY <1>4 DEF RotateKey
  <2>2. /\ server'.signing_secret = server.signing_secret
        /\ server'.keys = server.keys \cup {k} /\ server'.key_id = k
    BY <2>1 DEF PolicyInv, ServerOK
  <2>3. ServerOK'
    BY <2>1, <2>2 DEF PolicyInv, ServerOK
  <2>4. decision' = decision
    BY <1>4 DEF RotateKey
  <2>5. decision # NoDecision => Signed(decision)'
    BY <2>2, <2>4 DEF PolicyInv, Signed
  <2>6. decision # NoDecision => Answered(decision)'
    BY <2>4 DEF PolicyInv, Answered, FirstVerdict, Contradictory
  <2>7. QED BY <2>3, <2>4, <2>5, <2>6 DEF PolicyInv
<1>5. CASE DayPasses
  BY <1>5 DEF DayPasses, PolicyInv, ServerOK, Answered, FirstVerdict, Signed,
              Contradictory
<1>6. CASE UNCHANGED policyVars
  BY <1>6 DEF policyVars, PolicyInv, ServerOK, Answered, FirstVerdict, Signed,
              Contradictory
<1>7. QED BY <1>1, <1>2, <1>3, <1>4, <1>5, <1>6 DEF PolicyNext

\* The two properties follow from it.
LEMMA PolicyInvSuffices == PolicyInv => RotationKeepsDecision /\ ReplayReports
<1> SUFFICES ASSUME PolicyInv, decision # NoDecision
             PROVE  /\ Verifies(server, decision)
                    /\ ReplayReports
  BY DEF RotationKeepsDecision, ReplayReports
<1>1. Answered(decision) /\ Signed(decision)
  BY DEF PolicyInv
<1>2. Verifies(server, decision)
  BY <1>1 DEF Signed, Verifies, SignedWith, Ring
<1>3. Expected = FirstVerdict(decision)
  BY <1>1 DEF Expected, Answered
<1>4. ReplayReports
  BY <1>1, <1>3 DEF ReplayReports, Match, PolicyVerdict, ReplayedLists, FirstVerdict,
                    Answered
<1>5. QED BY <1>2, <1>4

\* Whatever keys there are and in whatever order they are added and selected, with
\* or without a secret beside them, a decision verifies (keyring.py).
THEOREM RotationIsSafe == PolicySpec => []RotationKeepsDecision
<1>1. PolicySpec => []PolicyInv
  BY PolicyBegins, PolicyStep, PTL DEF PolicySpec
<1>2. QED BY <1>1, PolicyInvSuffices, PTL

\* For any evidence, policies and keys, replay reports a mismatch exactly of the
\* decisions that evidence forced or that were contradictory (app.py, replay).
THEOREM ReplayIsExact == PolicySpec => []ReplayReports
<1>1. PolicySpec => []PolicyInv
  BY PolicyBegins, PolicyStep, PTL DEF PolicySpec
<1>2. QED BY <1>1, PolicyInvSuffices, PTL

-----------------------------------------------------------------------------
(* The market gate.                                                        *)

TickDigests == [timestamp : 0 .. LastTime, fault : Faults]

\* What the boundary admitted up to t was fresh, connected and valid then.
Admitted(b, t) ==
    /\ b \in [permitted : {TRUE}, hash : TickDigests, at : Nat]
    /\ b.at =< t
    /\ b.hash.timestamp =< b.at
    /\ b.at =< b.hash.timestamp + MaxAge
    /\ b.hash.fault \notin {"disconnected", "invalid"}

MarketInv ==
    /\ clock \in Nat
    /\ observed \in Observation
    /\ boundary.permitted \in BOOLEAN
    /\ boundary.permitted => Admitted(boundary, clock)

\* Every step keeps the invariant and permits only what both checks passed.
LEMMA MarketStep ==
    MarketInv /\ PermittedTwiceChecked /\ [MarketNext]_marketVars
        => (MarketInv /\ PermittedTwiceChecked)'
<1> SUFFICES ASSUME MarketInv, PermittedTwiceChecked, [MarketNext]_marketVars
             PROVE  (MarketInv /\ PermittedTwiceChecked)'
  OBVIOUS
<1> USE MarketAssumption
<1>1. CASE Validate
  <2>1. UNCHANGED <<clock, observed, result>>
    BY <1>1 DEF Validate
  <2>2. CASE SafeModeReasons(observed) \cup DenyReasons(observed) = {}
    <3>1. boundary' = [permitted |-> TRUE, hash |-> Digest(observed), at |-> clock]
      BY <1>1, <2>2 DEF Validate
    <3>2. /\ "stale" \notin SafeModeReasons(observed)
          /\ "future" \notin SafeModeReasons(observed)
          /\ "disconnected" \notin SafeModeReasons(observed)
          /\ "invalid" \notin DenyReasons(observed)
      BY <2>2
    <3>3. /\ ~(clock > observed.timestamp + MaxAge)
          /\ ~(clock < observed.timestamp)
          /\ observed.fault \notin {"disconnected", "invalid"}
      BY <3>2 DEF SafeModeReasons, DenyReasons
    <3>4. /\ observed.timestamp \in 0 .. LastTime /\ observed.fault \in Faults
          /\ clock \in Nat
      BY DEF MarketInv, Observation
    <3>5. Digest(observed) \in TickDigests
      BY <3>4 DEF Digest, TickDigests
    <3>6. Admitted(boundary', clock')
      BY <2>1, <3>1, <3>3, <3>4, <3>5 DEF Admitted, Digest
    <3>7. QED BY <2>1, <3>1, <3>6 DEF MarketInv, PermittedTwiceChecked, Admitted
  <2>3. CASE ~(SafeModeReasons(observed) \cup DenyReasons(observed) = {})
    <3>1. boundary'.permitted = FALSE
      BY <1>1, <2>3 DEF Validate, Rejected
    <3>2. QED BY <2>1, <3>1 DEF MarketInv, PermittedTwiceChecked
  <2>4. QED BY <2>2, <2>3
<1>2. CASE Gate
  <2>1. UNCHANGED <<clock, observed, boundary>>
    BY <1>2 DEF Gate
  <2>2. PICK action \in {"BUY_SMALL", "HOLD", "TRANSFER"}, described \in BOOLEAN,
             bound \in BOOLEAN :
            result' =
               CASE ~boundary.permitted -> boundary
                 [] boundary.permitted /\ action = "TRANSFER" -> Rejected("DENY")
                 [] OTHER ->
                      IF described /\ bound /\ Sound(observed)
                      THEN [permitted |-> TRUE, input |-> boundary,
                            given |-> Digest(observed), at |-> clock]
                      ELSE Rejected("SAFE_MODE")
    BY <1>2 DEF Gate
  <2>3. \/ ~result'.permitted
        \/ /\ boundary.permitted /\ Sound(observed)
           /\ result' = [permitted |-> TRUE, input |-> boundary,
                         given |-> Digest(observed), at |-> clock]
    <3>1. CASE ~boundary.permitted
      BY <2>2, <3>1
    <3>2. CASE boundary.permitted /\ action = "TRANSFER"
      <4>1. result' = Rejected("DENY")
        BY <2>2, <3>2
      <4>2. QED BY <4>1 DEF Rejected
    <3>3. CASE boundary.permitted /\ action # "TRANSFER"
      <4>1. result' = IF described /\ bound /\ Sound(observed)
                      THEN [permitted |-> TRUE, input |-> boundary,
                            given |-> Digest(observed), at |-> clock]
                      ELSE Rejected("SAFE_MODE")
        BY <2>2, <3>3
      <4>2. QED BY <3>3, <4>1 DEF Rejected
    <3>4. QED BY <3>1, <3>2, <3>3
  <2>4. PermittedTwiceChecked'
    <3>1. CASE ~result'.permitted
      BY <3>1 DEF PermittedTwiceChecked
    <3>2. CASE /\ boundary.permitted /\ Sound(observed)
               /\ result' = [permitted |-> TRUE, input |-> boundary,
                             given |-> Digest(observed), at |-> clock]
      <4>1. Admitted(boundary, clock)
        BY <3>2 DEF MarketInv
      <4>2. /\ result'.input = boundary /\ result'.at = clock
            /\ result'.given.timestamp = observed.timestamp
            /\ result'.given.fault = observed.fault
        BY <3>2 DEF Digest
      <4>3. QED BY <3>2, <4>1, <4>2
               DEF PermittedTwiceChecked, Admitted, Sound, StillFresh
    <3>3. QED BY <2>3, <3>1, <3>2
  <2>5. QED BY <2>1, <2>4 DEF MarketInv, Admitted
<1>3. CASE Arrives
  BY <1>3 DEF Arrives, MarketInv, Admitted, PermittedTwiceChecked
<1>4. CASE MarketTick
  <2>1. clock' = clock + 1 /\ clock' \in Nat /\ UNCHANGED <<observed, boundary, result>>
    BY <1>4 DEF MarketTick, MarketInv
  <2>2. ASSUME boundary.permitted PROVE Admitted(boundary, clock')
    <3>1. boundary \in [permitted : {TRUE}, hash : TickDigests, at : Nat]
      BY <2>2 DEF MarketInv, Admitted
    <3>2. boundary.at \in Nat /\ boundary.at =< clock /\ clock \in Nat
      BY <2>2, <3>1 DEF MarketInv, Admitted
    <3>3. boundary.at =< clock'
      BY <2>1, <3>2
    <3>4. QED BY <2>2, <3>1, <3>3 DEF MarketInv, Admitted
  <2>3. QED BY <2>1, <2>2 DEF MarketInv, PermittedTwiceChecked
<1>5. CASE UNCHANGED marketVars
  BY <1>5 DEF marketVars, MarketInv, Admitted, PermittedTwiceChecked
<1>6. QED BY <1>1, <1>2, <1>3, <1>4, <1>5 DEF MarketNext

\* Whatever ticks arrive between the two checks and however old a tick may be,
\* what the product gate permits passed both of them (observation_boundary.py,
\* product_gate.py).
THEOREM MarketPermitsTwiceChecked == MarketSpec => []PermittedTwiceChecked
<1>1. MarketInit => MarketInv /\ PermittedTwiceChecked
  BY DEF MarketInit, MarketInv, PermittedTwiceChecked, Rejected
<1>2. QED BY <1>1, MarketStep, PTL DEF MarketSpec

-----------------------------------------------------------------------------
(* The self audit.                                                         *)

SelfAuditInv ==
    /\ asked \in Asked
    /\ evidence \subseteq Items
    /\ verified \subseteq evidence

\* The gap is one exactly when nothing verified supports the claim.
LEMMA GapMeansNoSupport ==
    ASSUME SelfAuditInv
    PROVE  GapIsOne <=> verified \cap Supporting = {}
<1>1. IsFiniteSet(verified \cap Supporting)
  BY AuditAssumption, FS_Subset DEF SelfAuditInv
<1>2. QED BY <1>1, FS_EmptySet DEF GapIsOne

\* What an audit allows has something verified, and support where it is a claim.
LEMMA AllowMeans ==
    ASSUME SelfAuditInv
    PROVE  Audit = "ALLOW" <=>
              /\ asked.actor /\ asked.session /\ ~asked.internal
              /\ verified # {}
              /\ ~(asked.claim /\ GapIsOne)
              /\ ~asked.side_effect
<1>1. CASE ~asked.actor \/ ~asked.session \/ asked.internal
  <2>1. Audit = "DENY"
    BY <1>1 DEF Audit
  <2>2. QED BY <1>1, <2>1
<1>2. CASE asked.actor /\ asked.session /\ ~asked.internal
  <2>1. Audit = IF verified = {} THEN IF asked.side_effect THEN "ASK" ELSE "DEFER"
                ELSE IF asked.claim /\ GapIsOne THEN "DENY"
                ELSE IF asked.side_effect THEN "ASK" ELSE "ALLOW"
    BY <1>2 DEF Audit
  <2>2. QED BY <1>2, <2>1
<1>3. QED BY <1>1, <1>2

\* Items are only added, and only verified.
LEMMA SelfAuditStep ==
    ASSUME SelfAuditInv, [SelfAuditNext]_auditRequestVars
    PROVE  SelfAuditInv' /\ asked' = asked /\ verified \subseteq verified'
<1>1. ASSUME NEW i \in Items, Submit(i)
      PROVE  SelfAuditInv' /\ asked' = asked /\ verified \subseteq verified'
  BY <1>1 DEF Submit, SelfAuditInv
<1>2. ASSUME NEW i \in Items, VerifyItem(i)
      PROVE  SelfAuditInv' /\ asked' = asked /\ verified \subseteq verified'
  BY <1>2 DEF VerifyItem, SelfAuditInv
<1>3. CASE UNCHANGED auditRequestVars
  BY <1>3 DEF auditRequestVars, SelfAuditInv
<1>4. QED BY <1>1, <1>2, <1>3 DEF SelfAuditNext

\* For any evidence, in any order, an audit that allowed goes on to allow as more
\* is found and verified (self_audit.py, audit).
THEOREM EvidenceKeepsAllow == SelfAuditSpec => EvidenceNeverRevokes
<1>1. SelfAuditInit => SelfAuditInv
  BY DEF SelfAuditInit, SelfAuditInv
<1>2. SelfAuditInv /\ [SelfAuditNext]_auditRequestVars => SelfAuditInv'
  BY SelfAuditStep
<1>3. SelfAuditInv /\ [SelfAuditNext]_auditRequestVars
          => [Audit = "ALLOW" => Audit' = "ALLOW"]_auditRequestVars
  <2> SUFFICES ASSUME SelfAuditInv, [SelfAuditNext]_auditRequestVars, Audit = "ALLOW"
               PROVE  Audit' = "ALLOW"
    OBVIOUS
  <2>1. SelfAuditInv' /\ asked' = asked /\ verified \subseteq verified'
    BY SelfAuditStep
  <2>2. /\ GapIsOne <=> verified \cap Supporting = {}
        /\ (GapIsOne <=> verified \cap Supporting = {})'
    BY <2>1, GapMeansNoSupport, PTL
  <2>3. /\ Audit = "ALLOW" <=>
              /\ asked.actor /\ asked.session /\ ~asked.internal
              /\ verified # {}
              /\ ~(asked.claim /\ GapIsOne)
              /\ ~asked.side_effect
        /\ (Audit = "ALLOW" <=>
              /\ asked.actor /\ asked.session /\ ~asked.internal
              /\ verified # {}
              /\ ~(asked.claim /\ GapIsOne)
              /\ ~asked.side_effect)'
    BY <2>1, AllowMeans, PTL
  <2>4. QED BY <2>1, <2>2, <2>3
<1>4. QED BY <1>1, <1>2, <1>3, PTL DEF SelfAuditSpec, EvidenceNeverRevokes

-----------------------------------------------------------------------------
(* The reaction network.                                                   *)

ReactionInv ==
    /\ activation \in Nat /\ inhibition \in Nat /\ catalyst \in Nat
    /\ items \in [total : Nat, verified : Nat]
    /\ items.verified =< items.total
    /\ drifted \subseteq {"context", "state"}
    /\ trajectory \in Nat

\* Reactivities can be compared.
LEMMA ReactivityIsInt ==
    ASSUME ReactionInv, NEW n \in Nodes
    PROVE  Reactivity(n) \in Int
<1>1. items.total \in Int /\ items.verified \in Int /\ Total \in Int
  BY DEF ReactionInv, Total
<1>2. Effective \in Int
  BY <1>1 DEF Effective, ReactionInv
<1>3. 20 - Pressure(n) \in Int
  BY DEF Pressure, ReactionInv
<1>4. activation * Effective \in Int
  BY <1>2 DEF ReactionInv
<1>5. activation * Effective * (20 - Pressure(n)) \in Int
  BY <1>3, <1>4
<1>6. QED BY <1>5 DEF Reactivity

\* Some node is the weakest, and no node is less reactive than it.
LEMMA WeakestFacts ==
    ASSUME ReactionInv
    PROVE  /\ Weakest \in Nodes
           /\ \A n \in Nodes : Reactivity(Weakest) =< Reactivity(n)
<1> DEFINE S == {n \in Nodes : \A m \in Nodes : Reactivity(n) =< Reactivity(m)}
<1>1. 1 \in Nodes /\ 2 \in Nodes /\ 3 \in Nodes /\ \A n \in Nodes : n \in {1, 2, 3}
  BY DEF Nodes
<1>2. Reactivity(1) \in Int /\ Reactivity(2) \in Int /\ Reactivity(3) \in Int
  BY <1>1, ReactivityIsInt
<1>3. 1 \in S \/ 2 \in S \/ 3 \in S
  <2>1. CASE Reactivity(1) =< Reactivity(2) /\ Reactivity(1) =< Reactivity(3)
    BY <1>1, <1>2, <2>1
  <2>2. CASE Reactivity(2) =< Reactivity(1) /\ Reactivity(2) =< Reactivity(3)
    BY <1>1, <1>2, <2>2
  <2>3. CASE Reactivity(3) =< Reactivity(1) /\ Reactivity(3) =< Reactivity(2)
    BY <1>1, <1>2, <2>3
  <2>4. QED BY <1>2, <2>1, <2>2, <2>3
<1>4. \E x \in S : \A y \in S : x =< y
  BY <1>1, <1>3
<1>5. Weakest \in S
  BY <1>4 DEF Weakest, Min
<1>6. QED BY <1>5

\* The property follows from the arithmetic of one state.
LEMMA ProceedingIsProved ==
    ASSUME ReactionInv
    PROVE  NothingProceedsUnproved
<1> SUFFICES ASSUME Mode = "PROCEED"
             PROVE  /\ drifted = {} /\ trajectory > 0
                    /\ inhibition < 35
                    /\ 100 * items.verified > 45 * items.total
                    /\ \A n \in Nodes : Reactivity(n) >= ActivationThreshold
  BY DEF NothingProceedsUnproved
<1>1. inhibition \in Nat
  BY DEF ReactionInv
<1>2. inhibition < 35
  <2> SUFFICES ASSUME inhibition >= 35 PROVE FALSE
    BY <1>1
  <2>1. Mode = "INHIBIT"
    BY DEF Mode
  <2>2. QED BY <2>1
<1>3. ~BarrierHolds
  <2> SUFFICES ASSUME BarrierHolds PROVE FALSE
    OBVIOUS
  <2>1. ~(inhibition >= 35)
    BY <1>1, <1>2
  <2>2. Mode = "HOLD"
    BY <1>2, <2>1 DEF Mode
  <2>3. QED BY <2>2
<1>4. Reactivity(Weakest) >= ActivationThreshold
  <2>1. ~(inhibition >= 35)
    BY <1>1, <1>2
  <2>2. Mode = IF Reactivity(Weakest) >= ActivationThreshold THEN "PROCEED" ELSE "UNKNOWN"
    BY <1>3, <2>1 DEF Mode
  <2>3. QED BY <2>2
<1>5. Total \in Nat /\ Total > 0
  BY DEF Total, ReactionInv
<1>6. \A n \in Nodes : Reactivity(n) >= ActivationThreshold
  <2> TAKE n \in Nodes
  <2>1. Weakest \in Nodes /\ Reactivity(Weakest) =< Reactivity(n)
    BY WeakestFacts
  <2>2. Reactivity(n) \in Int /\ Reactivity(Weakest) \in Int
    BY <2>1, ReactivityIsInt
  <2>3. ActivationThreshold \in Int
    BY <1>5 DEF ActivationThreshold
  <2>4. QED BY <1>4, <2>1, <2>2, <2>3
<1>7. \A n \in Nodes : Stable(n)
  <2> SUFFICES ASSUME NEW n \in Nodes, ~Stable(n) PROVE FALSE
    OBVIOUS
  <2>1. Reactivity(n) = 0
    BY DEF Reactivity
  <2>2. 0 >= ActivationThreshold
    BY <1>6, <2>1
  <2>3. QED BY <1>5, <2>2 DEF ActivationThreshold
<1>8. Stable(1) /\ Stable(2) /\ Stable(3)
  BY <1>7 DEF Nodes
<1>9. drifted = {} /\ trajectory > 0
  <2>1. "context" \notin drifted /\ "state" \notin drifted /\ trajectory > 0
    BY <1>8 DEF Stable
  <2>2. QED BY <2>1 DEF ReactionInv
<1>10. 100 * items.verified > 45 * items.total
  <2>1. /\ items.total \in Nat /\ items.verified \in Nat
        /\ items.verified =< items.total
    BY DEF ReactionInv
  <2>2. ~(100 * (Total - items.verified) >= 55 * Total)
    BY <1>3 DEF BarrierHolds
  <2>3. CASE items.total = 0
    <3>1. Total = 1 /\ items.verified = 0
      BY <2>1, <2>3 DEF Total
    <3>2. QED BY <2>2, <3>1
  <2>4. CASE items.total # 0
    <3>1. Total = items.total
      BY <2>4 DEF Total
    <3>2. QED BY <2>1, <2>2, <3>1
  <2>5. QED BY <2>3, <2>4
<1>11. QED BY <1>2, <1>6, <1>9, <1>10

\* Evidence is counted up and never verified before it is there.
LEMMA ReactionStep == ReactionInv /\ [ReactionNext]_reactionVars => ReactionInv'
<1> SUFFICES ASSUME ReactionInv, [ReactionNext]_reactionVars PROVE ReactionInv'
  OBVIOUS
<1>1. CASE Gather
  <2>1. PICK v \in {items.verified, items.verified + 1} :
            items' = [total |-> items.total + 1, verified |-> v]
    BY <1>1 DEF Gather
  <2>2. /\ items.total \in Nat /\ items.verified \in Nat
        /\ items.verified =< items.total
    BY DEF ReactionInv
  <2>3. items'.total = items.total + 1 /\ items'.verified = v /\ v \in Nat
    BY <2>1, <2>2
  <2>4. items' \in [total : Nat, verified : Nat] /\ items'.verified =< items'.total
    BY <2>1, <2>2, <2>3
  <2>5. QED BY <1>1, <2>4 DEF Gather, ReactionInv
<1>2. CASE VerifyOne
  <2>1. /\ items.total \in Nat /\ items.verified \in Nat
        /\ items.verified < items.total
        /\ items' = [items EXCEPT !.verified = items.verified + 1]
    BY <1>2 DEF VerifyOne, ReactionInv
  <2>2. items' \in [total : Nat, verified : Nat] /\ items'.verified =< items'.total
    BY <2>1 DEF ReactionInv
  <2>3. QED BY <1>2, <2>2 DEF VerifyOne, ReactionInv
<1>3. CASE Drift
  BY <1>3 DEF Drift, ReactionInv
<1>4. CASE Extend
  BY <1>4 DEF Extend, ReactionInv
<1>5. CASE UNCHANGED reactionVars
  BY <1>5 DEF reactionVars, ReactionInv
<1>6. QED BY <1>1, <1>2, <1>3, <1>4, <1>5 DEF ReactionNext

\* Whatever the levels and however much evidence and trajectory there is, the
\* network proceeds only with its three nodes proved (chemical_reaction_network.py).
THEOREM ReactionProceedsProved == ReactionSpec => []NothingProceedsUnproved
<1>1. ReactionInit => ReactionInv
  BY ReactionAssumption DEF ReactionInit, ReactionInv
<1>2. ReactionInv => NothingProceedsUnproved
  BY ProceedingIsProved
<1>3. QED BY <1>1, <1>2, ReactionStep, PTL DEF ReactionSpec

-----------------------------------------------------------------------------
(* The sale.                                                               *)

SaleFields == {"invoice", "status", "payment", "entitlement", "delivery"}

\* By the status: nothing is entitled before a payment is confirmed, and the
\* payment kept from then on is the confirmed one.
SaleInv ==
    /\ DOMAIN sale = SaleFields
    /\ sale = [f \in SaleFields |-> sale[f]]
    /\ sale.invoice \in Invoices
    /\ sale.status = "AWAITING_PAYMENT" =>
           looked = {} /\ sale.entitlement = 0 /\ sale.delivery = Nothing
    /\ sale.status = "PAYMENT_REVIEW" =>
           /\ looked = {} /\ sale.entitlement = 0 /\ sale.delivery = Nothing
           /\ sale.payment \in Evidence
    /\ sale.status = "CONFIRMED" =>
           /\ looked = {sale.payment} /\ PaymentAgrees
           /\ sale.entitlement = 0 /\ sale.delivery = Nothing
    /\ sale.status \in {"ENTITLED", "DELIVERED", "ACCEPTED"} =>
           looked = {sale.payment} /\ PaymentAgrees /\ sale.entitlement = 1
    /\ sale.status = "EXCEPTION" => sale.entitlement = 0 /\ sale.delivery = Nothing
    /\ sale.status \in {"AWAITING_PAYMENT", "PAYMENT_REVIEW", "CONFIRMED", "ENTITLED",
                        "DELIVERED", "ACCEPTED", "EXCEPTION"}

\* Each method moves the sale on.
LEMMA SaleStep == SaleInv /\ [SaleNext]_saleVars => SaleInv'
<1> SUFFICES ASSUME SaleInv, [SaleNext]_saleVars PROVE SaleInv'
  OBVIOUS
<1>0. DOMAIN sale = SaleFields /\ sale = [f \in SaleFields |-> sale[f]]
  BY DEF SaleInv
<1>1. ASSUME NEW e \in Evidence, SubmitPayment(e) PROVE SaleInv'
  <2>1. sale' = [sale EXCEPT !.payment = e, !.status = "PAYMENT_REVIEW"]
    BY <1>1 DEF SubmitPayment
  <2>2. /\ sale'.invoice = sale.invoice /\ sale'.entitlement = sale.entitlement
        /\ sale'.delivery = sale.delivery
        /\ sale'.payment = e /\ sale'.status = "PAYMENT_REVIEW"
        /\ DOMAIN sale' = SaleFields /\ sale' = [f \in SaleFields |-> sale'[f]]
    BY <1>0, <2>1 DEF SaleFields
  <2>3. QED BY <1>1, <2>2 DEF SubmitPayment, SaleInv
<1>2. ASSUME NEW named \in BOOLEAN, VerifyPayment(named) PROVE SaleInv'
  <2>1. sale.status = "PAYMENT_REVIEW"
    BY <1>2 DEF VerifyPayment
  <2>2. CASE ~PaymentAgrees
    <3>1. sale' = [sale EXCEPT !.status = "EXCEPTION"]
      BY <1>2, <2>2 DEF VerifyPayment
    <3>2. /\ sale'.invoice = sale.invoice /\ sale'.entitlement = sale.entitlement
          /\ sale'.delivery = sale.delivery /\ sale'.status = "EXCEPTION"
          /\ DOMAIN sale' = SaleFields /\ sale' = [f \in SaleFields |-> sale'[f]]
      BY <1>0, <3>1 DEF SaleFields
    <3>3. QED BY <2>1, <3>2 DEF SaleInv
  <2>3. CASE PaymentAgrees /\ named
    <3>1. /\ sale' = [sale EXCEPT !.status = "CONFIRMED"]
          /\ looked' = looked \cup {sale.payment}
      BY <1>2, <2>3 DEF VerifyPayment
    <3>2. /\ sale'.invoice = sale.invoice /\ sale'.entitlement = sale.entitlement
          /\ sale'.delivery = sale.delivery /\ sale'.payment = sale.payment
          /\ sale'.status = "CONFIRMED"
          /\ DOMAIN sale' = SaleFields /\ sale' = [f \in SaleFields |-> sale'[f]]
      BY <1>0, <3>1 DEF SaleFields
    <3>3. PaymentAgrees'
      BY <2>3, <3>2 DEF PaymentAgrees
    <3>4. QED BY <2>1, <3>1, <3>2, <3>3 DEF SaleInv
  <2>4. CASE PaymentAgrees /\ ~named
    BY <1>2, <2>4 DEF VerifyPayment, saleVars, SaleInv, PaymentAgrees
  <2>5. QED BY <2>2, <2>3, <2>4
<1>3. CASE IssueEntitlement
  <2>1. sale.status = "CONFIRMED" /\ sale.entitlement = 0 /\ looked' = looked
    BY <1>3 DEF IssueEntitlement, SaleInv
  <2>2. sale' = [sale EXCEPT !.entitlement = 1, !.status = "ENTITLED"]
    <3>1. sale' = [sale EXCEPT !.entitlement = sale.entitlement + 1, !.status = "ENTITLED"]
      BY <1>3, <2>1 DEF IssueEntitlement
    <3>2. sale.entitlement + 1 = 1
      BY <2>1
    <3>3. QED BY <3>1, <3>2
  <2>3. /\ sale'.invoice = sale.invoice /\ sale'.entitlement = 1
        /\ sale'.delivery = sale.delivery /\ sale'.payment = sale.payment
        /\ sale'.status = "ENTITLED"
        /\ DOMAIN sale' = SaleFields /\ sale' = [f \in SaleFields |-> sale'[f]]
    BY <1>0, <2>1, <2>2 DEF SaleFields
  <2>4. PaymentAgrees'
    BY <2>1, <2>3 DEF SaleInv, PaymentAgrees
  <2>5. QED BY <2>1, <2>3, <2>4 DEF SaleInv
<1>4. ASSUME NEW digest \in Digests, Deliver(digest) PROVE SaleInv'
  <2>1. /\ sale' = [sale EXCEPT !.delivery = digest, !.status = "DELIVERED"]
        /\ sale.status = "ENTITLED" /\ looked' = looked
    BY <1>4 DEF Deliver
  <2>2. /\ sale'.invoice = sale.invoice /\ sale'.entitlement = sale.entitlement
        /\ sale'.payment = sale.payment /\ sale'.status = "DELIVERED"
        /\ DOMAIN sale' = SaleFields /\ sale' = [f \in SaleFields |-> sale'[f]]
    BY <1>0, <2>1 DEF SaleFields
  <2>3. PaymentAgrees'
    BY <2>1, <2>2 DEF SaleInv, PaymentAgrees
  <2>4. QED BY <2>1, <2>2, <2>3 DEF SaleInv
<1>5. CASE Accept
  <2>1. /\ sale' = [sale EXCEPT !.status = "ACCEPTED"]
        /\ sale.status = "DELIVERED" /\ looked' = looked
    BY <1>5 DEF Accept
  <2>2. /\ sale'.invoice = sale.invoice /\ sale'.entitlement = sale.entitlement
        /\ sale'.payment = sale.payment /\ sale'.status = "ACCEPTED"
        /\ DOMAIN sale' = SaleFields /\ sale' = [f \in SaleFields |-> sale'[f]]
    BY <1>0, <2>1 DEF SaleFields
  <2>3. PaymentAgrees'
    BY <2>1, <2>2 DEF SaleInv, PaymentAgrees
  <2>4. QED BY <2>1, <2>2, <2>3 DEF SaleInv
<1>6. CASE UNCHANGED saleVars
  BY <1>6 DEF saleVars, SaleInv, PaymentAgrees
<1>7. QED BY <1>1, <1>2, <1>3, <1>4, <1>5, <1>6 DEF SaleNext

\* The property follows: an invoice's currency is in capitals already.
LEMMA SaleInvSuffices == SaleInv => PaidBeforeEntitled
<1> SUFFICES ASSUME SaleInv PROVE PaidBeforeEntitled
  OBVIOUS
<1>1. PICK c \in Currencies : sale.invoice.currency = Upper[c]
  BY DEF SaleInv, Invoices
<1>2. Upper[sale.invoice.currency] = sale.invoice.currency
  BY <1>1, SaleAssumption
<1>3. sale.entitlement # 0 =>
          sale.status \in {"CONFIRMED", "ENTITLED", "DELIVERED", "ACCEPTED"}
  BY DEF SaleInv
<1>4. sale.entitlement # 0 => looked = {sale.payment} /\ PaymentAgrees
  BY <1>3 DEF SaleInv
<1>5. sale.delivery # Nothing => sale.entitlement = 1
  BY DEF SaleInv
<1>6. sale.status = "EXCEPTION" => sale.entitlement = 0
  BY DEF SaleInv
<1>7. QED BY <1>2, <1>4, <1>5, <1>6 DEF PaidBeforeEntitled, PaymentAgrees

\* For any amounts and currencies and any order of calls, an entitlement is for the
\* one payment that was confirmed and agrees with the invoice (commercial_sale.py).
THEOREM SaleIsPaid == SaleSpec => []PaidBeforeEntitled
<1>1. SaleInit => SaleInv
  <2> SUFFICES ASSUME SaleInit PROVE SaleInv
    OBVIOUS
  <2>1. PICK i \in Invoices :
            sale = [Draft(i) EXCEPT !.status = "AWAITING_PAYMENT"]
    BY DEF SaleInit
  <2>2. sale = [invoice |-> i, status |-> "AWAITING_PAYMENT", payment |-> Nothing,
                entitlement |-> 0, delivery |-> Nothing]
    BY <2>1 DEF Draft
  <2>3. DOMAIN sale = SaleFields /\ sale = [f \in SaleFields |-> sale[f]]
    BY <2>2 DEF SaleFields
  <2>4. /\ sale.invoice = i /\ sale.status = "AWAITING_PAYMENT"
        /\ sale.entitlement = 0 /\ sale.delivery = Nothing
    BY <2>2
  <2>5. QED BY <2>3, <2>4 DEF SaleInit, SaleInv
<1>2. QED BY <1>1, SaleStep, SaleInvSuffices, PTL DEF SaleSpec

-----------------------------------------------------------------------------
(* The awareness layer.                                                    *)

Statuses ==
    {"READY", "NEED_DETECTED", "VERIFIED", "ACTION_COMPLETED", "ESCALATED"}

States == [status : Statuses, pending : {0, 1}, refs : {0, 1}]

Served ==
    [by : Components, approval : BOOLEAN, evidence : {"absent", "real"},
     passed : SUBSET Components]

\* The parent of what a need passed is where it is, or was passed too.
Climbed ==
    \A x \in need.passed :
        need.at = Human \/ contract[x].parent \in need.passed \cup {need.at}

AwarenessInv ==
    /\ contract \in [Components -> Contracts]
    /\ HierarchyValid(contract)
    /\ state \in [Components -> States]
    /\ need \in [at : Components \cup {Human, "none"}, passed : SUBSET Components]
    /\ Climbed
    /\ served \in SUBSET Served

\* A need that was where it has been would have gone round a hierarchy that ends
\* at ROOT.
LEMMA NeverTwice ==
    ASSUME AwarenessInv
    PROVE  need.at \notin need.passed
<1> SUFFICES ASSUME need.at \in need.passed PROVE FALSE
  OBVIOUS
<1>1. need.passed \in SUBSET Components /\ need.at \in Components
  BY DEF AwarenessInv
<1>2. need.at # Human
  BY <1>1, AwarenessAssumption
<1>3. \A x \in need.passed : contract[x].parent \in need.passed
  BY <1>2 DEF AwarenessInv, Climbed
<1>4. DOMAIN contract = Components
  BY DEF AwarenessInv
<1>5. need.passed \in (SUBSET DOMAIN contract) \ {{}}
  BY <1>1, <1>4
<1>6. PICK x \in need.passed : contract[x].parent \notin need.passed
  BY <1>5 DEF AwarenessInv, HierarchyValid
<1>7. QED BY <1>3, <1>6

\* What is not said of the need's place is kept by every step.
Rightly ==
    /\ \A x \in need.passed : contract[x].terms.mode = "absent"
    /\ \A s \in served :
           /\ s.by \notin s.passed
           /\ contract[s.by].terms.mode = "EXECUTE"
           /\ contract[s.by].terms.needs_approval => s.approval
           /\ contract[s.by].terms.proven => s.evidence = "real"
           /\ s.evidence = "real" => state[s.by].refs > 0

\* A component that changes its status keeps the references it has.
LEMMA StatusKeeps ==
    ASSUME AwarenessInv, Rightly, NEW x \in Components, NEW v \in Statuses,
           state' = [state EXCEPT ![x].status = v], contract' = contract,
           served' = served,
           need' \in [at : {x}, passed : {{}}] \cup {NoNeed}
    PROVE  AwarenessInv' /\ Rightly'
<1>1. /\ state' \in [Components -> States]
      /\ \A y \in Components : state'[y].refs = state[y].refs
  BY DEF AwarenessInv, States
<1>2. need'.passed = {} /\ need' \in [at : Components \cup {Human, "none"},
                                      passed : SUBSET Components]
  BY DEF NoNeed
<1>3. Climbed'
  BY <1>2 DEF Climbed
<1>4. AwarenessInv'
  BY <1>1, <1>2, <1>3 DEF AwarenessInv, HierarchyValid
<1>5. Rightly'
  <2>1. \A s \in served : s.by \in Components
    BY DEF AwarenessInv, Served
  <2>2. QED BY <1>1, <1>2, <2>1 DEF Rightly
<1>6. QED BY <1>4, <1>5

\* A need climbs one step.
LEMMA RoutingKeeps ==
    ASSUME AwarenessInv, Rightly, NEW x \in Components, RouteUp(x)
    PROVE  AwarenessInv' /\ Rightly'
<1>1. UNCHANGED <<contract, state, served>> /\ need.at = x
  BY DEF RouteUp
<1>2. /\ need'.at = IF contract[x].parent = ROOT THEN Human ELSE contract[x].parent
      /\ need'.passed = need.passed \cup {x}
      /\ need' = [at |-> need'.at, passed |-> need'.passed]
  BY DEF RouteUp
<1>3. contract[x].parent \in Components \cup {ROOT}
  BY DEF AwarenessInv, Contracts
<1>4. need' \in [at : Components \cup {Human, "none"}, passed : SUBSET Components]
  BY <1>2, <1>3 DEF AwarenessInv
<1>5. need.at # Human
  BY <1>1, AwarenessAssumption
<1>6. Climbed'
  <2> SUFFICES ASSUME NEW y \in need'.passed, need'.at # Human
               PROVE  contract[y].parent \in need'.passed \cup {need'.at}
    BY <1>1 DEF Climbed
  <2>1. CASE y = x
    BY <1>2, <2>1
  <2>2. CASE y \in need.passed
    BY <1>1, <1>2, <1>5, <2>2 DEF AwarenessInv, Climbed
  <2>3. QED BY <1>2, <2>1, <2>2
<1>7. AwarenessInv'
  BY <1>1, <1>4, <1>6 DEF AwarenessInv, HierarchyValid
<1>8. contract[x].terms.mode = "absent"
  BY DEF RouteUp
<1>9. Rightly'
  BY <1>1, <1>2, <1>8 DEF Rightly
<1>10. QED BY <1>7, <1>9

\* What serves a need may serve it.
LEMMA ServingKeeps ==
    ASSUME AwarenessInv, Rightly, NEW x \in Components, NEW approval \in BOOLEAN,
           NEW evi \in {"absent", "blank", "real"}, Executes(x, approval, evi)
    PROVE  AwarenessInv' /\ Rightly'
<1>1. contract' = contract /\ need.at = x /\ state' = Completed(x, evi)
  BY DEF Executes
<1>2. \A s \in served : s.by \in Components
  BY DEF AwarenessInv, Served
<1>3. /\ state' \in [Components -> States]
      /\ \A y \in Components : state[y].refs > 0 => state'[y].refs > 0
      /\ evi = "real" => state'[x].refs > 0
  <2>1. CASE evi = "blank"
    <3>1. state' = [state EXCEPT ![x].pending = 1]
      BY <1>1, <2>1 DEF Completed
    <3>2. QED BY <2>1, <3>1 DEF AwarenessInv, States
  <2>2. CASE evi = "real"
    <3>1. state' = [state EXCEPT ![x].status = "VERIFIED", ![x].refs = 1]
      BY <1>1, <2>2 DEF Completed
    <3>2. state' = [state EXCEPT ![x] = [state[x] EXCEPT !.status = "VERIFIED", !.refs = 1]]
      BY <3>1 DEF AwarenessInv
    <3>3. /\ [state[x] EXCEPT !.status = "VERIFIED", !.refs = 1] \in States
          /\ [state[x] EXCEPT !.status = "VERIFIED", !.refs = 1].refs = 1
      BY DEF AwarenessInv, States, Statuses
    <3>4. /\ state' \in [Components -> States] /\ state'[x].refs = 1
          /\ \A y \in Components \ {x} : state'[y] = state[y]
      BY <3>2, <3>3 DEF AwarenessInv
    <3>5. QED BY <3>4
  <2>3. CASE evi = "absent"
    <3>1. state' = [state EXCEPT ![x].status = "ACTION_COMPLETED"]
      BY <1>1, <2>3 DEF Completed
    <3>2. QED BY <2>3, <3>1 DEF AwarenessInv, States, Statuses
  <2>4. QED BY <2>1, <2>2, <2>3
<1>4. CASE evi = "blank"
  <2>1. need' = need /\ served' = served
    BY <1>4 DEF Executes
  <2>2. AwarenessInv'
    BY <1>1, <1>3, <2>1 DEF AwarenessInv, HierarchyValid, Climbed
  <2>3. Rightly'
    BY <1>1, <1>2, <1>3, <2>1 DEF Rightly
  <2>4. QED BY <2>2, <2>3
<1>5. CASE evi # "blank"
  <2>1. /\ need' = NoNeed
        /\ served' = {[by |-> x, approval |-> approval, evidence |-> evi,
                       passed |-> need.passed]}
    BY <1>5 DEF Executes
  <2>2. need.passed \in SUBSET Components /\ x \notin need.passed
    BY <1>1, NeverTwice DEF AwarenessInv
  <2>3. served' \in SUBSET Served
    BY <1>5, <2>1, <2>2 DEF Served
  <2>4. /\ need' \in [at : Components \cup {Human, "none"}, passed : SUBSET Components]
        /\ need'.passed = {}
    BY <2>1 DEF NoNeed
  <2>5. AwarenessInv'
    BY <1>1, <1>3, <2>3, <2>4 DEF AwarenessInv, HierarchyValid, Climbed
  <2>6. /\ contract[x].terms.mode = "EXECUTE"
        /\ contract[x].terms.needs_approval => approval
        /\ contract[x].terms.proven => evi = "real"
    BY <1>5 DEF Executes, Allows
  <2>7. Rightly'
    BY <1>1, <1>3, <2>1, <2>2, <2>4, <2>6 DEF Rightly
  <2>8. QED BY <2>5, <2>7
<1>6. QED BY <1>4, <1>5

\* Every step of the layer keeps both.
LEMMA AwarenessStep ==
    AwarenessInv /\ Rightly /\ [AwarenessNext]_awarenessVars => AwarenessInv' /\ Rightly'
<1> SUFFICES ASSUME AwarenessInv, Rightly, [AwarenessNext]_awarenessVars
             PROVE  AwarenessInv' /\ Rightly'
  OBVIOUS
<1>1. ASSUME NEW x \in Components, NEW detected \in BOOLEAN, Process(x, detected)
      PROVE  AwarenessInv' /\ Rightly'
  <2>1. PICK v \in Statuses : state' = [state EXCEPT ![x].status = v]
    BY <1>1 DEF Process, Observed, Statuses
  <2>2. /\ need' \in [at : {x}, passed : {{}}] \cup {NoNeed}
        /\ contract' = contract /\ served' = served
    BY <1>1 DEF Process
  <2>3. QED BY <2>1, <2>2, StatusKeeps
<1>2. ASSUME NEW x \in Components, RouteUp(x)
      PROVE  AwarenessInv' /\ Rightly'
  BY <1>2, RoutingKeeps
<1>3. ASSUME NEW x \in Components, NEW approval \in BOOLEAN,
             NEW evi \in {"absent", "blank", "real"}, Executes(x, approval, evi)
      PROVE  AwarenessInv' /\ Rightly'
  BY <1>3, ServingKeeps
<1>4. ASSUME NEW x \in Components, Escalate(x)
      PROVE  AwarenessInv' /\ Rightly'
  <2>1. /\ state' = [state EXCEPT ![x].status = "ESCALATED"]
        /\ "ESCALATED" \in Statuses
        /\ contract' = contract /\ served' = served
        /\ need' \in [at : {x}, passed : {{}}] \cup {NoNeed}
    BY <1>4 DEF Escalate, Statuses
  <2>2. QED BY <2>1, StatusKeeps
<1>5. CASE AskHuman
  <2>1. UNCHANGED <<contract, state, served>> /\ need' = NoNeed
    BY <1>5 DEF AskHuman
  <2>2. QED BY <2>1 DEF AwarenessInv, HierarchyValid, Climbed, Rightly, NoNeed
<1>6. CASE UNCHANGED awarenessVars
  BY <1>6 DEF awarenessVars, AwarenessInv, HierarchyValid, Climbed, Rightly
<1>7. QED BY <1>1, <1>2, <1>3, <1>4, <1>5, <1>6 DEF AwarenessNext

\* In any hierarchy of any components under any contracts the registry accepts, a
\* need is never routed to a component twice and is served by one that may serve it
\* (awareness_supervisor.py, awareness_registry.py).
THEOREM NeedsServedByRight == AwarenessSpec => []ServedByRight
<1>1. AwarenessInit => AwarenessInv /\ Rightly
  BY DEF AwarenessInit, AwarenessInv, Rightly, Climbed, NoNeed, States, Statuses
<1>2. AwarenessInv /\ Rightly => ServedByRight
  BY NeverTwice DEF Rightly, ServedByRight
<1>3. QED BY <1>1, <1>2, AwarenessStep, PTL DEF AwarenessSpec

-----------------------------------------------------------------------------
(* The enterprise boundary.                                                *)

EnterpriseInv == permits \in [Bindings -> {0, 1}] /\ claimed \in SUBSET Bindings

\* A nonce is taken and its request permitted in one step.
LEMMA EnterpriseStep ==
    EnterpriseInv /\ SpentByPermitOnly /\ [EnterpriseNext]_enterpriseVars
        => (EnterpriseInv /\ SpentByPermitOnly)'
<1> SUFFICES ASSUME EnterpriseInv, SpentByPermitOnly, [EnterpriseNext]_enterpriseVars
             PROVE  (EnterpriseInv /\ SpentByPermitOnly)'
  OBVIOUS
<1>1. ASSUME NEW s \in Submissions, AuthorizeRequest(s)
      PROVE  (EnterpriseInv /\ SpentByPermitOnly)'
  <2>1. s.binding \in Bindings
    BY DEF Submissions
  <2>2. CASE Entitled(s) /\ s.binding \notin claimed
    <3>1. permits[s.binding] = 0
      BY <2>1, <2>2 DEF EnterpriseInv, SpentByPermitOnly
    <3>2. /\ claimed' = claimed \cup {s.binding}
          /\ permits' = [permits EXCEPT ![s.binding] = 1]
      BY <1>1, <2>2, <3>1 DEF AuthorizeRequest, ClaimsNonce
    <3>3. QED BY <2>1, <3>2 DEF EnterpriseInv, SpentByPermitOnly
  <2>3. CASE ~(Entitled(s) /\ s.binding \notin claimed)
    <3>1. claimed' = claimed /\ permits' = permits
      BY <1>1, <2>3 DEF AuthorizeRequest, ClaimsNonce
    <3>2. QED BY <3>1 DEF EnterpriseInv, SpentByPermitOnly
  <2>4. QED BY <2>2, <2>3
<1>2. CASE claimed' = claimed /\ permits' = permits
  BY <1>2 DEF EnterpriseInv, SpentByPermitOnly
<1>3. QED BY <1>1, <1>2
         DEF EnterpriseNext, RecordExecution, CallerMutates, ClockTicks, enterpriseVars

\* For any authorities, contexts and profiles, a nonce is spent exactly by the one
\* request that is permitted with it (enforcement_engine.py, authorize).
THEOREM EnterpriseSpendsByPermit == EnterpriseSpec => []SpentByPermitOnly
<1>1. EnterpriseInit => EnterpriseInv /\ SpentByPermitOnly
  BY DEF EnterpriseInit, EnterpriseInv, SpentByPermitOnly
<1>2. QED BY <1>1, EnterpriseStep, PTL DEF EnterpriseSpec

\* A permit is used up by the one event that records its execution.
TrailInv ==
    /\ \E E : trail \in Seq(E)
    /\ permitted \subseteq claimed
    /\ \A i \in DOMAIN trail : trail[i].payload.authority \in claimed \ permitted
    /\ \A i, j \in DOMAIN trail :
           trail[i].payload.authority = trail[j].payload.authority => i = j
    /\ ChainVerifies

\* Every step keeps the ledger sound: an event is appended under a permit that no
\* earlier event used, chained to the last, and copies are all that callers hold.
LEMMA TrailStep == TrailInv /\ [EnterpriseNext]_enterpriseVars => TrailInv'
<1> SUFFICES ASSUME TrailInv, [EnterpriseNext]_enterpriseVars PROVE TrailInv'
  OBVIOUS
<1>1. ASSUME NEW s \in Submissions, AuthorizeRequest(s) PROVE TrailInv'
  <2>1. trail' = trail
    BY <1>1 DEF AuthorizeRequest
  <2>2. CASE Entitled(s) /\ s.binding \notin claimed
    <3>1. /\ claimed' = claimed \cup {s.binding}
          /\ permitted' = permitted \cup {s.binding}
      BY <1>1, <2>2 DEF AuthorizeRequest, ClaimsNonce
    <3> QED BY <2>1, <2>2, <3>1 DEF TrailInv, ChainVerifies
  <2>3. CASE ~(Entitled(s) /\ s.binding \notin claimed)
    <3>1. claimed' = claimed /\ permitted' = permitted
      BY <1>1, <2>3 DEF AuthorizeRequest, ClaimsNonce
    <3> QED BY <2>1, <3>1 DEF TrailInv, ChainVerifies
  <2> QED BY <2>2, <2>3
<1>2. ASSUME NEW id, NEW t, NEW p, RecordExecution(id, t, p) PROVE TrailInv'
  <2> DEFINE h == [event_id |-> id, trace |-> t, payload |-> p,
                   previous_hash |-> LatestHash,
                   event_hash |-> EventHash(id, t, p, LatestHash)]
  <2>1. /\ trail' = Append(trail, h) /\ claimed' = claimed
        /\ p.authority \in permitted /\ permitted' = permitted \ {p.authority}
        /\ \A i \in DOMAIN trail : trail[i].event_id # id
    BY <1>2 DEF RecordExecution
  <2>2. /\ h.event_id = id /\ h.payload = p /\ h.previous_hash = LatestHash
        /\ h.event_hash = EventHash(h.event_id, h.trace, h.payload, h.previous_hash)
    OBVIOUS
  <2>3. PICK E : trail \in Seq(E)
    BY DEF TrailInv
  <2> HIDE DEF h
  <2>4. /\ trail' \in Seq(E \cup {h}) /\ Len(trail) \in Nat
        /\ DOMAIN trail = 1 .. Len(trail) /\ DOMAIN trail' = 1 .. Len(trail) + 1
        /\ \A i \in DOMAIN trail : trail'[i] = trail[i]
        /\ trail'[Len(trail) + 1] = h
    BY <2>1, <2>3
  <2>5. \A i \in DOMAIN trail' : i \in DOMAIN trail \/ i = Len(trail) + 1
    BY <2>4
  <2>6. ChainVerifies'
    <3> SUFFICES ASSUME NEW i \in DOMAIN trail'
                 PROVE  /\ trail'[i].previous_hash =
                              IF i = 1 THEN "GENESIS" ELSE trail'[i - 1].event_hash
                        /\ trail'[i].event_hash =
                              EventHash(trail'[i].event_id, trail'[i].trace,
                                        trail'[i].payload, trail'[i].previous_hash)
                        /\ \A j \in 1 .. i - 1 : trail'[j].event_id # trail'[i].event_id
      BY DEF ChainVerifies, EventHash
    <3>1. CASE i \in DOMAIN trail
      <4>1. i # 1 => i - 1 \in DOMAIN trail
        BY <2>4, <3>1
      <4>2. \A j \in 1 .. i - 1 : j \in DOMAIN trail
        BY <2>4, <3>1
      <4>3. /\ trail[i].previous_hash =
                   IF i = 1 THEN "GENESIS" ELSE trail[i - 1].event_hash
            /\ trail[i].event_hash =
                   EventHash(trail[i].event_id, trail[i].trace,
                             trail[i].payload, trail[i].previous_hash)
            /\ \A j \in 1 .. i - 1 : trail[j].event_id # trail[i].event_id
        BY <3>1 DEF TrailInv, ChainVerifies
      <4>4. trail'[i] = trail[i] /\ (i # 1 => trail'[i - 1] = trail[i - 1])
            /\ \A j \in 1 .. i - 1 : trail'[j] = trail[j]
        BY <2>4, <3>1, <4>1, <4>2
      <4> QED BY <4>3, <4>4
    <3>2. CASE i = Len(trail) + 1
      <4>1. LatestHash = IF i = 1 THEN "GENESIS" ELSE trail'[i - 1].event_hash
        <5>1. CASE trail = <<>>
          BY <5>1, <3>2 DEF LatestHash
        <5>2. CASE trail # <<>>
          <6>1. Len(trail) \in DOMAIN trail /\ i # 1 /\ i - 1 = Len(trail)
            BY <5>2, <2>3, <2>4, <3>2
          <6> QED BY <5>2, <6>1, <2>4 DEF LatestHash, Last
        <5> QED BY <5>1, <5>2
      <4>2. \A j \in 1 .. i - 1 : j \in DOMAIN trail
        BY <2>4, <3>2
      <4> QED BY <2>1, <2>2, <2>4, <3>2, <4>1, <4>2
    <3> QED BY <2>5, <3>1, <3>2
  <2>7. /\ permitted' \subseteq claimed'
        /\ \A i \in DOMAIN trail' : trail'[i].payload.authority \in claimed' \ permitted'
        /\ \A i, j \in DOMAIN trail' :
               trail'[i].payload.authority = trail'[j].payload.authority => i = j
    BY <2>1, <2>2, <2>4, <2>5 DEF TrailInv
  <2> QED BY <2>4, <2>6, <2>7 DEF TrailInv
<1>3. CASE UNCHANGED <<claimed, permitted, trail>>
  BY <1>3 DEF TrailInv, ChainVerifies
<1> QED BY <1>1, <1>2, <1>3
        DEF EnterpriseNext, CallerMutates, Shared, ClockTicks, enterpriseVars

\* An action repeated at the end of a trace was run under different authorities.
LEMMA RepeatsChurn ==
    ASSUME TrailInv, NEW t, RepeatedAction(t)
    PROVE  AuthorityChurn(t)
<1> DEFINE indices == {i \in DOMAIN trail : trail[i].trace = t}
           n == Len(OfTrace(t))
           authorities == {OfTrace(t)[k].payload.authority : k \in DOMAIN OfTrace(t)}
<1>1. PICK E : trail \in Seq(E)
  BY DEF TrailInv
<1>2. /\ OfTrace(t) \in Seq(E)
      /\ \E place : Enumerates(place, OfTrace(t), trail, indices, Len(trail))
  BY <1>1, PickedPlaces DEF OfTrace
<1>3. PICK place : Enumerates(place, OfTrace(t), trail, indices, Len(trail))
  BY <1>2
<1>4. /\ n \in Nat /\ n >= 3 /\ DOMAIN OfTrace(t) = 1 .. n
      /\ n \in 1 .. n /\ n - 1 \in 1 .. n
  BY <1>2 DEF RepeatedAction
<1>5. /\ place[n - 1] \in DOMAIN trail /\ place[n] \in DOMAIN trail
      /\ place[n - 1] < place[n]
      /\ OfTrace(t)[n - 1] = trail[place[n - 1]] /\ OfTrace(t)[n] = trail[place[n]]
  <2> HIDE DEF n, indices
  <2>1. DOMAIN trail = 1 .. Len(trail) /\ n - 1 < n /\ n = Len(OfTrace(t))
    BY <1>1, <1>4 DEF n
  <2> QED BY <2>1, <1>3, <1>4 DEF Enumerates
<1>6. OfTrace(t)[n - 1].payload.authority # OfTrace(t)[n].payload.authority
  BY <1>1, <1>5 DEF TrailInv
<1>7. IsFiniteSet(authorities) /\ Cardinality(authorities) > 1
  <2> DEFINE x == OfTrace(t)[n - 1].payload.authority
             y == OfTrace(t)[n].payload.authority
  <2>1. IsFiniteSet(authorities)
    <3> DEFINE f == [k \in 1 .. n |-> OfTrace(t)[k].payload.authority]
    <3>1. f \in Surjection(1 .. n, authorities)
      BY <1>4 DEF Surjection
    <3>2. IsFiniteSet(1 .. n)
      BY <1>4, FS_Interval
    <3> HIDE DEF f, authorities, n
    <3> QED BY <3>1, <3>2, FS_Surjection
  <2>2. x \in authorities /\ y \in authorities /\ x # y
    BY <1>4, <1>6
  <2> HIDE DEF authorities, x, y
  <2>3. Cardinality({x}) = 1 /\ IsFiniteSet({x})
    BY FS_Singleton
  <2>4. Cardinality({x} \cup {y}) = 2
    BY <2>2, <2>3, FS_AddElement
  <2>5. {x} \cup {y} \in SUBSET authorities
    BY <2>2
  <2>6. Cardinality({x} \cup {y}) =< Cardinality(authorities)
    BY <2>1, <2>5, FS_Subset
  <2>7. Cardinality(authorities) \in Nat
    BY <2>1, FS_CardinalityType
  <2> QED BY <2>1, <2>4, <2>6, <2>7
<1> QED BY <1>7 DEF AuthorityChurn

\* For any authorities, traces and length of the ledger: the ledger verifies, and a
\* trace that repeats an action changes the authority with it (evidence_ledger.py,
\* post_execution_forensics.py).
THEOREM EnterpriseTrailIsSound == EnterpriseSpec => []TrailIsSound
<1>1. EnterpriseInit => TrailInv
  BY DEF EnterpriseInit, TrailInv, ChainVerifies
<1>2. TrailInv => TrailIsSound
  BY RepeatsChurn DEF TrailIsSound, TrailInv
<1> QED BY <1>1, <1>2, TrailStep, PTL DEF EnterpriseSpec

-----------------------------------------------------------------------------
(* The governance scores.                                                  *)

ScoresInv ==
    /\ claim_type \in [Claims -> Types]
    /\ overconfident \in SUBSET Claims
    /\ evidence_refs \in [Claims -> SUBSET Facts]
    /\ measures \in [cps : {0, Unit}, cqm : {0, Unit}, impact : {0, Unit},
                     autonomy : {0, Unit}, reversibility : {0, Unit}, t : {0, Unit}]

LEMMA MeanMonotone ==
    ASSUME NEW a \in Nat, NEW b \in Nat, a =< b
    PROVE  Mean(a) \in Nat /\ Mean(b) \in Nat /\ Mean(a) =< Mean(b)
<1>1. Cardinality(Claims) \in Nat \ {0} /\ Unit \in Nat
  BY ScoresAssumption, FS_CardinalityType, FS_EmptySet
<1>2. a * Unit \in Nat /\ b * Unit \in Nat /\ a * Unit =< b * Unit
  BY <1>1
<1> QED BY <1>1, <1>2 DEF Mean

\* Evidence supports one more claim, or one already supported: the means of what is
\* supported rise, those of what is not fall, and so does the distance.
LEMMA AttachScores ==
    ASSUME ScoresInv, NEW c \in Claims, NEW f \in Facts, Attach(c, f)
    PROVE  /\ EAS \in Nat /\ EAS' \in Nat /\ EAS =< EAS'
           /\ NED \in Nat /\ NED' \in Nat /\ NED' =< NED
           /\ OCR \in Nat /\ OCR' \in Nat /\ OCR' =< OCR
<1>1. /\ evidence_refs' = [evidence_refs EXCEPT ![c] = @ \cup {f}]
      /\ claim_type' = claim_type /\ overconfident' = overconfident
  BY DEF Attach
<1>2. Supported \in SUBSET Supported' /\ Supported' \in SUBSET Claims
  BY <1>1 DEF Supported, ScoresInv
<1>3. /\ IsFiniteSet(Supported) /\ IsFiniteSet(Supported')
      /\ Cardinality(Supported) \in Nat /\ Cardinality(Supported') \in Nat
      /\ Cardinality(Supported) =< Cardinality(Supported')
  BY <1>2, ScoresAssumption, FS_Subset, FS_CardinalityType
<1>4. EAS \in Nat /\ EAS' \in Nat /\ EAS =< EAS'
  BY <1>3, MeanMonotone DEF EAS, Mean
<1>5. OCR \in Nat /\ OCR' \in Nat /\ OCR' =< OCR
  <2> DEFINE X == overconfident \ Supported
             Y == overconfident \ Supported'
  <2>1. X \in SUBSET Claims /\ Y \in SUBSET X
    BY <1>2 DEF ScoresInv
  <2> HIDE DEF X, Y
  <2>2. IsFiniteSet(X) /\ Cardinality(X) \in Nat /\ Cardinality(Y) \in Nat
        /\ Cardinality(Y) =< Cardinality(X)
    BY <2>1, ScoresAssumption, FS_Subset, FS_CardinalityType
  <2>3. Mean(Cardinality(X)) \in Nat /\ Mean(Cardinality(Y)) \in Nat
        /\ Mean(Cardinality(Y)) =< Mean(Cardinality(X))
    BY <2>2, MeanMonotone
  <2> QED BY <2>3, <1>1 DEF OCR, Mean, X, Y
<1>6. NED \in Nat /\ NED' \in Nat /\ NED' =< NED
  <2> DEFINE w == [d \in Claims |-> (claim_type[d] + 1) * Unit]
             X == Claims \ Supported
             Y == Claims \ Supported'
             n == 5 * Cardinality(Claims)
  <2>1. X \in SUBSET Claims /\ Y \in SUBSET X
    BY <1>2
  <2>2. \A d \in Claims : w[d] \in Nat
    <3> SUFFICES ASSUME NEW d \in Claims PROVE (claim_type[d] + 1) * Unit \in Nat
      OBVIOUS
    <3>1. claim_type[d] \in Nat
      BY DEF ScoresInv, Types
    <3>2. Unit \in Nat
      BY ScoresAssumption
    <3> QED BY <3>1, <3>2
  <2>3. n \in Nat \ {0}
    BY ScoresAssumption, FS_CardinalityType, FS_EmptySet
  <2>4. NED = SumOver(w, X) \div n /\ NED' = SumOver(w, Y) \div n
    BY <1>1 DEF NED
  <2> HIDE DEF w, X, Y, n
  <2>5. IsFiniteSet(X) /\ IsFiniteSet(Y)
        /\ (\A x \in X : w[x] \in Nat) /\ (\A x \in Y : w[x] \in Nat /\ w[x] =< w[x])
    BY <2>1, <2>2, ScoresAssumption, FS_Subset
  <2>6. SumOver(w, X) \in Nat /\ SumOver(w, Y) \in Nat
    BY <2>5, SumType
  <2>7. SumOver(w, Y) =< SumOver(w, X)
    BY <2>1, <2>5, SumMonotone
  <2> QED BY <2>3, <2>4, <2>6, <2>7
<1> QED BY <1>4, <1>5, <1>6

\* The scores of a risk do not change, and those of integrity do not fall.
LEMMA AttachHelps ==
    ASSUME ScoresInv, NEW c \in Claims, NEW f \in Facts, Attach(c, f)
    PROVE  /\ HAIS \in Int /\ HAIS' \in Int /\ HAIS =< HAIS'
           /\ DRS \in Int /\ DRS' = DRS
<1>1. measures' = measures
  BY DEF Attach
<1>2. /\ Unit \in Int /\ measures.cps \in Int /\ measures.cqm \in Int
      /\ measures.impact \in Int /\ measures.autonomy \in Int
      /\ measures.reversibility \in Int /\ measures.t \in Int
  BY ScoresAssumption DEF ScoresInv
<1>3. HAIS \in Int /\ HAIS' \in Int /\ HAIS =< HAIS'
  BY <1>1, <1>2, AttachScores DEF HAIS, WeightedIntegrity
<1>4. DRS \in Int /\ DRS' = DRS
  BY <1>1, <1>2 DEF DRS, WeightedRisk
<1> QED BY <1>3, <1>4

\* For any claims, evidence and resolution of the scores, evidence for a claim never
\* hurts (research/governance_reference.py, src/governance).
THEOREM GovernanceRewardsEvidence == ScoresSpec => EvidenceNeverHurts
<1>1. ScoresInit => ScoresInv
  BY DEF ScoresInit, ScoresInv
<1>2. ScoresInv /\ [ScoresNext]_scoreVars => ScoresInv'
  BY DEF ScoresInv, ScoresNext, AddFact, Attach, scoreVars
<1>3. ScoresInv /\ [ScoresNext]_scoreVars =>
        [evidence_refs' # evidence_refs =>
           /\ HAIS' >= HAIS
           /\ ReferenceVerdict = "ALLOW" => ReferenceVerdict' = "ALLOW"
           /\ Strictness[EngineVerdict'] =< Strictness[EngineVerdict]]_scoreVars
  <2> SUFFICES ASSUME ScoresInv, ScoresNext, evidence_refs' # evidence_refs
               PROVE  /\ HAIS' >= HAIS
                      /\ ReferenceVerdict = "ALLOW" => ReferenceVerdict' = "ALLOW"
                      /\ Strictness[EngineVerdict'] =< Strictness[EngineVerdict]
    BY DEF scoreVars
  <2>1. PICK f \in Facts, c \in Claims : Attach(c, f)
    BY DEF ScoresNext, AddFact
  <2>2. /\ HAIS \in Int /\ HAIS' \in Int /\ HAIS =< HAIS'
        /\ DRS \in Int /\ DRS' = DRS /\ Unit \in Int
    BY <2>1, AttachHelps, ScoresAssumption
  <2>3. ReferenceVerdict = "ALLOW" => ReferenceVerdict' = "ALLOW"
    BY <2>2 DEF ReferenceVerdict
  <2>4. Strictness[EngineVerdict'] =< Strictness[EngineVerdict]
    BY <2>2 DEF EngineVerdict, Strictness
  <2> QED BY <2>2, <2>3, <2>4
<1> QED BY <1>1, <1>2, <1>3, PTL DEF ScoresSpec, EvidenceNeverHurts

-----------------------------------------------------------------------------
(* Evidence for a claim.                                                   *)

ClaimInv == rows \in [EvidenceIds -> Bodies \cup {Missing}]

StrengthIn(table, ids) == SumOver([i \in ids |-> table[i].strength], ids)

LEMMA StrengthGrows ==
    ASSUME NEW A \in SUBSET EvidenceIds, NEW B \in SUBSET EvidenceIds, A \subseteq B,
           NEW old, NEW new, \A i \in B : new[i].strength \in Nat,
           \A j \in A : old[j] = new[j]
    PROVE  /\ StrengthIn(old, A) \in Nat /\ StrengthIn(new, B) \in Nat
           /\ StrengthIn(old, A) =< StrengthIn(new, B)
<1> DEFINE v == [i \in A |-> old[i].strength]
           w == [i \in B |-> new[i].strength]
<1>1. /\ \A i \in B : w[i] \in Nat
      /\ \A i \in A : v[i] \in Nat /\ v[i] =< w[i]
  OBVIOUS
<1>2. IsFiniteSet(A) /\ IsFiniteSet(B) /\ A \in SUBSET B
  BY ClaimAssumption, FS_Subset
<1> HIDE DEF v, w
<1>3. SumOver(v, A) \in Nat /\ SumOver(w, B) \in Nat
  BY <1>1, <1>2, SumType
<1>4. SumOver(v, A) =< SumOver(w, B)
  BY <1>1, <1>2, SumMonotone
<1> QED BY <1>3, <1>4 DEF StrengthIn, v, w

\* What fresh independent support under a new id changes.
SupportAdded(i) ==
    /\ rows[i] = Missing /\ rows'[i] # Missing
    /\ rows'[i].relation = "SUPPORT" /\ rows'[i].fresh /\ rows'[i].independent

LEMMA SupportRows ==
    ASSUME ClaimInv, NEW j \in EvidenceIds, NEW b \in Bodies, CreateEvidence(j, b),
           NEW i \in EvidenceIds, SupportAdded(i)
    PROVE  /\ claim' = claim
           /\ i = j /\ i \notin Present /\ Present' = Present \cup {i}
           /\ \A k \in Present : rows'[k] = rows[k]
           /\ \A k \in Present' : rows'[k] \in Bodies
<1>1. rows' = [rows EXCEPT ![j] = b] /\ claim' = claim
  BY DEF CreateEvidence
<1>2. i = j /\ rows'[i] = b
  BY <1>1 DEF ClaimInv, SupportAdded
<1>3. b # Missing
  BY ClaimAssumption
<1> QED BY <1>1, <1>2, <1>3 DEF ClaimInv, SupportAdded, Present

LEMMA SupportSums ==
    ASSUME ClaimInv, NEW j \in EvidenceIds, NEW b \in Bodies, CreateEvidence(j, b),
           NEW i \in EvidenceIds, SupportAdded(i)
    PROVE  /\ Support \in Nat /\ Support' \in Nat /\ Support =< Support'
           /\ Contradiction \in Nat /\ Contradiction' = Contradiction
           /\ Unresolved \in Nat /\ Unresolved' = Unresolved
<1>1. /\ i \notin Present /\ Present' = Present \cup {i}
      /\ \A k \in Present : rows'[k] = rows[k]
      /\ \A k \in Present' : rows'[k] \in Bodies
  BY SupportRows
<1>2. /\ Present \in SUBSET EvidenceIds /\ Present' \in SUBSET EvidenceIds
      /\ \A k \in Present' : rows'[k].strength \in Nat
  BY <1>1, ClaimAssumption DEF Present
<1>3. /\ FreshOnes("SUPPORT") \in SUBSET Present
      /\ FreshOnes("SUPPORT")' = FreshOnes("SUPPORT") \cup {i}
      /\ FreshOnes("CONTRADICT") \in SUBSET Present
      /\ FreshOnes("CONTRADICT")' = FreshOnes("CONTRADICT")
      /\ Related({"MISSING", "STALE", "CONFLICTED"}) \in SUBSET Present
      /\ Related({"MISSING", "STALE", "CONFLICTED"})'
             = Related({"MISSING", "STALE", "CONFLICTED"})
  BY <1>1 DEF FreshOnes, Related, SupportAdded
<1>4. /\ Support = StrengthIn(rows, FreshOnes("SUPPORT"))
      /\ Support' = StrengthIn(rows', FreshOnes("SUPPORT")')
      /\ Contradiction = StrengthIn(rows, FreshOnes("CONTRADICT"))
      /\ Contradiction' = StrengthIn(rows', FreshOnes("CONTRADICT")')
      /\ Unresolved = StrengthIn(rows, Related({"MISSING", "STALE", "CONFLICTED"}))
      /\ Unresolved' = StrengthIn(rows', Related({"MISSING", "STALE", "CONFLICTED"})')
  BY DEF Support, Contradiction, Unresolved, Strength, StrengthIn
<1>5. ASSUME NEW A \in SUBSET Present
      PROVE  /\ StrengthIn(rows, A) \in Nat
             /\ StrengthIn(rows', A) = StrengthIn(rows, A)
  <2>1. /\ A \in SUBSET EvidenceIds
        /\ \A k \in A : rows'[k].strength \in Nat /\ rows[k].strength \in Nat
        /\ \A k \in A : rows'[k] = rows[k]
    BY <1>1, <1>2
  <2>2. StrengthIn(rows, A) =< StrengthIn(rows', A)
    BY <2>1, StrengthGrows
  <2>3. /\ StrengthIn(rows', A) =< StrengthIn(rows, A)
        /\ StrengthIn(rows, A) \in Nat /\ StrengthIn(rows', A) \in Nat
    BY <2>1, StrengthGrows
  <2> QED BY <2>2, <2>3
<1>6. Support \in Nat /\ Support' \in Nat /\ Support =< Support'
  <2>1. /\ FreshOnes("SUPPORT") \in SUBSET EvidenceIds
        /\ FreshOnes("SUPPORT") \cup {i} \in SUBSET EvidenceIds
        /\ FreshOnes("SUPPORT") \subseteq FreshOnes("SUPPORT") \cup {i}
        /\ \A k \in FreshOnes("SUPPORT") \cup {i} : rows'[k].strength \in Nat
        /\ \A k \in FreshOnes("SUPPORT") : rows[k] = rows'[k]
    BY <1>1, <1>2, <1>3
  <2> DEFINE A == FreshOnes("SUPPORT")
             B == FreshOnes("SUPPORT") \cup {i}
  <2>2. /\ StrengthIn(rows, A) \in Nat /\ StrengthIn(rows', B) \in Nat
        /\ StrengthIn(rows, A) =< StrengthIn(rows', B)
    <3>1. /\ A \in SUBSET EvidenceIds /\ B \in SUBSET EvidenceIds /\ A \subseteq B
          /\ \A k \in B : rows'[k].strength \in Nat /\ \A l \in A : rows[l] = rows'[l]
      BY <2>1
    <3> HIDE DEF A, B
    <3> QED BY <3>1, StrengthGrows
  <2> QED BY <2>2, <1>3, <1>4
<1> QED BY <1>3, <1>4, <1>5, <1>6

SourcesOf(table, ids) == {table[k].source : k \in ids} \ {NoSource}

\* The sources of some rows are finitely many.
LEMMA SourcesFinite ==
    ASSUME NEW table, NEW ids \in SUBSET EvidenceIds
    PROVE  IsFiniteSet(SourcesOf(table, ids))
<1> DEFINE f == [k \in ids |-> table[k].source]
<1>1. SourcesOf(table, ids) \in SUBSET {f[k] : k \in ids}
  BY DEF SourcesOf
<1>2. IsFiniteSet(ids)
  BY ClaimAssumption, FS_Subset
<1> HIDE DEF f
<1>3. IsFiniteSet({f[k] : k \in ids})
  BY <1>2, ValuesFinite
<1> QED BY <1>1, <1>3, FS_Subset

\* More rows have no fewer sources.
LEMMA SourcesGrow ==
    ASSUME NEW old, NEW new, NEW A \in SUBSET EvidenceIds, NEW B \in SUBSET EvidenceIds,
           A \subseteq B, \A k \in A : old[k] = new[k]
    PROVE  /\ Cardinality(SourcesOf(old, A)) \in Nat
           /\ Cardinality(SourcesOf(new, B)) \in Nat
           /\ Cardinality(SourcesOf(old, A)) =< Cardinality(SourcesOf(new, B))
<1>1. SourcesOf(old, A) \in SUBSET SourcesOf(new, B)
  BY DEF SourcesOf
<1>2. IsFiniteSet(SourcesOf(new, B))
  BY SourcesFinite
<1> QED BY <1>1, <1>2, FS_Subset, FS_CardinalityType

\* What made the claim an overclaim may go, and nothing new does; the independent
\* sources stay enough, and the quality no lower.
LEMMA SupportFlags ==
    ASSUME ClaimInv, NEW j \in EvidenceIds, NEW b \in Bodies, CreateEvidence(j, b),
           NEW i \in EvidenceIds, SupportAdded(i)
    PROVE  /\ Flags' \subseteq Flags
           /\ EnoughSources => EnoughSources'
           /\ LowQuality' => LowQuality
<1>1. /\ claim' = claim /\ i \notin Present /\ Present' = Present \cup {i}
      /\ \A k \in Present : rows'[k] = rows[k]
  BY SupportRows
<1>2. Present \cup {i} \in SUBSET EvidenceIds
  BY DEF Present
<1>3. Contradiction' = Contradiction
  BY SupportSums
<1>4. /\ Related({"SUPPORT"}) \subseteq Present
      /\ Related({"SUPPORT"})' = Related({"SUPPORT"}) \cup {i}
  BY <1>1 DEF Related, SupportAdded
<1>5. Flags' \subseteq Flags
  BY <1>1, <1>3, <1>4 DEF Flags, SupportAdded
<1>6. EnoughSources => EnoughSources'
  <2> DEFINE A == {k \in FreshOnes("SUPPORT") : rows[k].independent}
  <2>1. /\ A \in SUBSET EvidenceIds /\ A \cup {i} \in SUBSET EvidenceIds
        /\ A \subseteq A \cup {i} /\ \A k \in A : rows[k] = rows'[k]
    BY <1>1, <1>2 DEF FreshOnes, Related
  <2>2. {k \in FreshOnes("SUPPORT")' : rows'[k].independent} = A \cup {i}
    BY <1>1 DEF FreshOnes, Related, SupportAdded
  <2>3. /\ IndependentSources = SourcesOf(rows, A)
        /\ IndependentSources' = SourcesOf(rows', A \cup {i})
    BY <2>2 DEF IndependentSources, SourcesOf
  <2> HIDE DEF A
  <2>4. /\ Cardinality(IndependentSources) \in Nat
        /\ Cardinality(IndependentSources') \in Nat
        /\ Cardinality(IndependentSources) =< Cardinality(IndependentSources')
    BY <2>1, <2>3, SourcesGrow
  <2> QED BY <2>4 DEF EnoughSources
<1>7. LowQuality' => LowQuality
  <2> DEFINE scored == Related({"SUPPORT", "CONTRADICT"})
             A == {k \in scored : rows[k].independent}
             S == SourcesOf(rows, A)
             T == SourcesOf(rows', A \cup {i})
  <2>1. /\ scored \subseteq Present /\ scored' = scored \cup {i}
        /\ \A k \in scored : rows'[k] = rows[k]
    BY <1>1 DEF Related, SupportAdded
  <2>2. /\ A \in SUBSET EvidenceIds /\ A \cup {i} \in SUBSET EvidenceIds
        /\ A \subseteq A \cup {i} /\ \A k \in A : rows[k] = rows'[k]
    BY <1>2, <2>1
  <2>3. {k \in scored' : rows'[k].independent} = A \cup {i}
    BY <2>1 DEF SupportAdded
  <2>4. /\ LowQuality <=> (\E k \in scored : ~rows[k].fresh) \/ Cardinality(S) < 2
        /\ LowQuality' <=> (\E k \in scored' : ~rows'[k].fresh) \/ Cardinality(T) < 2
    BY <2>3 DEF LowQuality, SourcesOf
  <2>5. (\E k \in scored' : ~rows'[k].fresh) => \E k \in scored : ~rows[k].fresh
    BY <2>1 DEF SupportAdded
  <2> HIDE DEF A, scored
  <2>6. /\ Cardinality(S) \in Nat /\ Cardinality(T) \in Nat
        /\ Cardinality(S) =< Cardinality(T)
    BY <2>2, SourcesGrow
  <2> QED BY <2>4, <2>5, <2>6
<1> QED BY <1>5, <1>6, <1>7

\* For any table of evidence, fresh independent support never makes a verdict worse
\* (claimlab/engine.py, assess).
THEOREM SupportHelps == ClaimSpec => SupportNeverHurts
<1>1. ClaimInit => ClaimInv
  BY DEF ClaimInit, ClaimInv
<1>2. ClaimInv /\ [ClaimNext]_claimVars => ClaimInv'
  BY DEF ClaimInv, ClaimNext, CreateEvidence, claimVars
<1>3. ClaimInv /\ [ClaimNext]_claimVars =>
        [\A i \in EvidenceIds :
           SupportAdded(i) =>
             /\ Rank[Assessed'] >= Rank[Assessed]
             /\ EpistemicState = "SUPPORTED" =>
                    EpistemicState' \in {"SUPPORTED", "ESTABLISHED"}]_claimVars
  <2> SUFFICES ASSUME ClaimInv, ClaimNext, NEW i \in EvidenceIds, SupportAdded(i)
               PROVE  /\ Rank[Assessed'] >= Rank[Assessed]
                      /\ EpistemicState = "SUPPORTED" =>
                             EpistemicState' \in {"SUPPORTED", "ESTABLISHED"}
    BY DEF claimVars
  <2>1. PICK j \in EvidenceIds, b \in Bodies : CreateEvidence(j, b)
    BY DEF ClaimNext
  <2>2. /\ Support \in Nat /\ Support' \in Nat /\ Support =< Support'
        /\ Contradiction \in Nat /\ Contradiction' = Contradiction
        /\ Unresolved \in Nat /\ Unresolved' = Unresolved
    BY <2>1, SupportSums
  <2>3. /\ Flags' \subseteq Flags
        /\ EnoughSources => EnoughSources'
        /\ LowQuality' => LowQuality
    BY <2>1, SupportFlags
  <2>4. /\ Assessed \in {"UNKNOWN", "OVERCLAIM", "INVALID"} \/ Assessed \in {"WEAK", "VALID"}
        /\ Assessed' \in {"UNKNOWN", "OVERCLAIM", "INVALID"} \/ Assessed' \in {"WEAK", "VALID"}
    BY DEF Assessed
  <2>5. /\ Assessed = "WEAK" => Assessed' \in {"WEAK", "VALID"}
        /\ Assessed = "VALID" => Assessed' = "VALID"
    BY <2>2, <2>3 DEF Assessed
  <2>6. Rank[Assessed'] >= Rank[Assessed]
    BY <2>4, <2>5 DEF Rank
  <2>7. ASSUME EpistemicState = "SUPPORTED"
        PROVE  EpistemicState' \in {"SUPPORTED", "ESTABLISHED"}
    <3>1. Assessed = "WEAK" /\ ~(Contradiction > 0) /\ ~(Unresolved > 0) /\ ~LowQuality
      BY <2>4, <2>7 DEF EpistemicState
    <3>2. Assessed' \in {"WEAK", "VALID"} /\ ~(Contradiction' > 0)
          /\ ~(Unresolved' > 0) /\ ~LowQuality'
      BY <2>2, <2>3, <2>5, <3>1
    <3> QED BY <3>2 DEF EpistemicState
  <2> QED BY <2>6, <2>7
<1> QED BY <1>1, <1>2, <1>3, PTL DEF ClaimSpec, SupportNeverHurts, SupportAdded
=============================================================================
