# HamidCognition Action Gate: TLA+ models and proofs

This directory models the part of the repository that decides, authorises and
settles actions, model-checks it with TLC on small instances and proves the
results that matter most with TLAPS, for any number of requests, decisions,
processes and worlds.

    tlc -workers 2 -config GateLifecycle.cfg MCExecutionGate     # a run
    tlapm ExecutionGateProofs.tla                                # the proofs

## 1. The system

The product is the **Action Gate** (`action_gate/`): a FastAPI service over
SQLite or PostgreSQL. An agent asks for a decision on an action; a human may
have to approve it; the execution is reserved and an *execution authority* (a
signed token with a nonce) is handed out; a *protected tool* verifies the token
and runs; the outcome is recorded, or reconciled when it is unknown.

| Component | State it keeps | Operations | What is hard | What makes it correct |
|---|---|---|---|---|
| Decision record (`app.py`, `storage.py`) | `records`, `record_versions`, `audit_events`, `execution_reconciliations` | evaluate, approve, reserve, execution, reconcile | handlers run in worker threads and replicas; each is load, check, write with other handlers in between; crash between mark and save; expiry | one authority, one settlement, blocked evidence never authorised, no way back |
| State Oracle (`state_oracle.py`) | `state_snapshots` | commit, current | concurrent commits ordered by a clock read before the insert | the newest commit is current |
| Authority primitive (`security_authority.py`) | none | issue, verify | expiry at the second | only valid envelopes pass |
| Protected tool (`tool_server.py`) | `used_authorities` in its own SQLite file | verify, revalidate the world, claim the nonce | threads; two HTTP requests between verification and claim; purge of expired rows | a valid authority runs the tool once, and only in a current world |
| CSG ingress (`csg_ingress.py`, `csg_routes.py`) | `idempotency_keys`, `validation_events` | decide, replay | processes that race on a key; crash between decision and event | one decision per key; every answer can be replayed |
| Authority nonces and brokers (`enforcement.py`, `storage.py`, `protected_tools/`, `broker_runtime/`) | `authority_nonces` | consume, purge, submit an order | consumed_at is read before the insert; retention against lifetime; a broker whose answer is lost | a nonce is consumed once; no answer denies an order that may exist |
| Enforcement proxies (`enforcement_proxy.py`, `chatgpt_mcp_server.py`) | none; they drive the gate and the tool | HTTP and MCP calls | failure of any of four calls | nothing runs unreserved; what ran is recorded |
| Rate limiting (`rate_limit.py`, `storage.py`) | `rate_limit_events`, an in-memory queue | allow | time read before the lock | the limit is kept, and refused only when it was used |
| Audit chain (`storage.py`) | `audit_events` | append, migrate to PostgreSQL | processes migrate an old table while others append | one chain in one order |
| Policy (`app.py`, `policy_store.py`, `keyring.py`) | policy snapshot, keys, record | evaluate, approve, replay, deploy, rotate | replay under another policy, stale evidence, old schemas, new keys | replay of what was decided |
| Financial runtime (`financial_runtime/`) | idempotency vault | authorize, dispatch, verify | duplicates; a destination that raises after it acted | an operation is dispatched once |
| Observation boundary and product gate | ticks and sequence seen | validate, gate | time passes and ticks arrive between the two checks | what is permitted passed both |
| Security plane | `security_events`, kill switch | observe | count and insert are two statements | a burst is noticed |
| Enterprise modules (`enforcement_engine.py`, `policy_graph.py`, `evidence_ledger.py`, forensics) | nonces, hash chain | authorize, append, verify | nonce claimed among other checks; payloads callers keep | a nonce is spent by a permit only; the ledger verifies |
| Self audit, governance scores, claim lab, reaction network | the request, evidence, claims | audit, assess, evaluate | thresholds that touch, ratios that move both ways | evidence for a claim never makes a verdict stricter |
| State-bound library (`state_bound/`) | world, authorities | append, refresh, issue, execute | threads; a time read before the lock | what runs, runs in the world it was decided for |
| Awareness layer (`src/awareness_*.py`) | contracts, states | process, route, execute, escalate | any hierarchy the registry takes | a need is served by one that may serve it |
| Sale and innovation workflow (`src/commercial_sale.py`, `scripts/besaz_innovate.py`) | a sale; a history file on a branch | payment, entitlement, delivery; run, push | any order of calls; rejected and lost pushes, reruns | no entitlement without its payment; no published run lost |
| Live feed (`integrated/realtime/`) | cache, engine, live dictionary | one loop, readers | sources fail; key-by-key writes | what is shown belongs together |
| VOID key, research experiments, mock trading engines, demos, runtime capsule, release tools | none that outlives a call | scripts | little | outside the execution path |

The components of the execution path meet in four places: the handlers of the
gate share the record store; every handler reads the State Oracle; the tool asks
the gate for the record and the world over HTTP; and the nonce of a decision is
the nonce of each authority given out for it. The others share no state with
each other; they meet only through a caller that hands one's answer to the next.

## 2. What is modelled

### ExecutionGate (refines DecisionLifecycle)

One decision record per decision: verdict, evidence block, bound world,
approval, `execution_started_at`, `execution_authority`, `execution.status`,
`consumed_at`. A request's handler is a *task* that carries the copy of the
record it loaded; each storage call is an action:

| Actions | Code |
|---|---|
| `EvaluateRead`, `EvaluateSave` | `evaluate` (`app.py`), around the oracle read and `save_record` |
| `ApproveLoad`, `ApproveSave` | `approve`: load and checks; blind save of the copy |
| `ReserveLoad`, `ReserveAdmit`, `ReserveMark`, `ReserveSave` | `execution_reserve`: load and checks; world and approval expiry; `storage.reserve_execution`; save of the copy with the authority |
| `ExecuteLoad`, `ExecuteAdmit`, `Finalize` | `execution` and `storage.finalize_execution` |
| `ReconcileLoad`, `Reconcile` | `execution_reconcile` and `storage.reconcile_execution` |
| `Abandon` | an error answer, a missing secret or a crash at any step |
| `ExpireDecision`, `LapseApproval`, `CommitWorld` | time, and the State Oracle |

`Backend` selects what `reserve_execution` does: `json_set` on SQLite creates
`execution_started_at`; `jsonb_set(..., false)` on PostgreSQL does not, because
the stored record has no such key. `SerialApprovals` says whether clients keep
one approval of a decision in flight at a time. `SafeDeployment` (SQLite and
serial approvals) is the assumption of the strong results.

Left out: authentication, signatures, tenant, actor, session, action and nonce
bindings, which reject a request before it writes anything and do not depend on
the state; the policy, whose verdict is any of the four; the hash chain of the
audit events (the sequence of event types is kept).

`DecisionLifecycle` is the promise: absent, asked, permitted or refused,
reserved, executed or reconciled, never back.

### ToolAuthority

The calls of the threaded tool server, the clock, the world, the authorities
given out (several with one nonce, with different lifetimes: `gate_postgres`
shows they exist) and the table `used_authorities`. `Verify` is the envelope
check; `CheckWorld` the second request to the gate; `ReadClock` and `Claim` are
`_claim_nonce`, whose clock reading precedes the write lock. `Issue` lets an
authority's decision have been evaluated in any world up to the current one.

### CsgIngress (refines IdempotentDecision)

Server processes on one database. The endpoint is a coroutine without an
`await` after the body is read, so a process runs one request at a time.
`Build`/`Recall` are the lookup, `Save` is `save_idempotency`, `Reload` the
branch of a lost race, `Record` the PASS event, `Answer` the response, `Crash`
the end of a process between any two. `Replays(id)` is what
`GET /v1/csg/replay/{request_id}` needs to answer at all. `KeyIsRequestId` is
the convention of `agentrq_simulator.py`, `csg_acceptance.py` and the vertical
slice tests: the Idempotency-Key is the request id.

### EnforcementPath (composes DecisionLifecycle)

The programs that take an agent's action through the gate to the tool: the HTTP
proxy (presented with a decision id, or evaluating only), the MCP proxy
(evaluates and goes on if allowed) and the ChatGPT server (the same, and it
records a `tool_error` when anything fails after the reservation). Each call is
a message on the wire:

| Actions | Code |
|---|---|
| `Ask`, `Present`, `Reserve`, `Call`, `Record`, `Excuse` | the requests: `evaluate`, `permitted` and `reserve_execution`, `call_protected_tool` or the `post_json` to the tool, `record_execution` with a result or with a `tool_error` |
| `Tell`, `Succeed`, `Fail` | the answers of `HTTPHandler`, `MCPHandler` and `protected_read_public_file` |
| `GateEvaluates`, `GateReserves`, `GateIsInterrupted`, `GateRecords`, `Approve`, `Reconcile` | the endpoints of the gate, each one move of `DecisionLifecycle` |
| `ToolRuns`, `Refuse` | the tool admits a call; the gate or the tool answers an error, or a request is lost |
| `Crash` | the process of the proxy or of the server ends |

A request may be served after its client gave up or died, and a reply may be
lost. The gate is its contract, the one-way lifecycle `ExecutionGate` is proved
to implement in a safe deployment; the properties hold where that does. Every
reason to refuse (expiry, world, bindings, no connection) is a free choice, and
the tool refuses at will and keeps no registry: what is shown here does not
rest on `ToolAuthority`.

### MCStores: what processes, threads and jobs share

Ten modules without shared variables, checked side by side by `MCStores`: a
behaviour picks one of them (`focus`) and the others stay in one initial state,
so the state space is the sum and not the product of theirs. Each module has an
`Init`, a `Next` and a `Spec` of its own, and the proofs are about that `Spec`.
`StoreClock` is the clock most of them extend: storage code reads the time
first and takes its lock or transaction up to `Delay` later.

| Module | Code | State and steps |
|---|---|---|
| `RateLimiter` | `enforce_rate_limit`, `allow_rate_limit`, `SlidingWindowRateLimiter` | `ReadClock`, then under the lock drop, count and `Allow` or `Refuse`; `StoreFails` |
| `AuthorityNonces` | `enforce_execution_authority`, `consume_authority_nonce`, `purge_authority_nonces`, `reference_tool.py`, `oanda.py` | `Verify`, `Consume` or `NonceReused`, the tool or the broker's answers, a failing store, crashes, the purge job |
| `OracleCommits` | `state_oracle.py`, `/v1/state/commit` | `StampCommit` reads the time, `Insert` writes; equal times are ordered by a random id; duplicates and failures |
| `FinancialRuntime` | `runtime.py`, `idempotency.py`, `decision.py`, `matching.py` | authorize, execute, a destination that raises before or after it acts, verify |
| `AuditChain` (refines `AppendOnlyLog`) | `_append_audit`, `_ensure_postgres_audit_sequence` | lock, read the latest, append, commit or roll back; the migration of a table without places, in several processes |
| `SecurityPlane` | `security_plane.py` | `Count` and `Store` of one observation; the kill switch |
| `StateBound` | `oracle.py`, `verifier.py`, `models.py` | append, refresh, issue, read the time, execute under the lock |
| `InnovationHistory` | `besaz_innovate.py`, `besaz_innovation_engine.py`, `besaz-innovation.yml` | checkout, script, push, rejected push, lost answer, rerun, commits of others |
| `LiveFeed` | `integrated/realtime/` | the loop step by step: train, price with its three sources, status, download, generate, publish, sleep |
| `CsgAdmission` | `csg_contract.py`, `csg_ingress.py`, `csg_routes.py` | contract, credentials, time window, signature, PASS and REJECT events, keys, decide (one step here, justified by `CsgIngress`), crash, replay |

### MCRules: the components that decide

`MCRules` does the same for the components that decide on what a caller hands
them. What varies is the sequence of requests, and evidence, policy, keys and
clocks between them.

| Module | Code | State and steps |
|---|---|---|
| `PolicyDecision` | `normalize_evidence`, `evidence_gate`, `evaluate_risk`, `compute_signal`, `decide`, `decide_legacy`, `replay`, `keyring.py` | evaluate, approve, deploy a policy, rotate keys, a day passes; a policy is the set of its lists that name the action |
| `MarketGate` | `observation_boundary.py`, `product_gate.py` | validate, gate, a tick arrives, time passes |
| `SelfAudit` | `self_audit.py`, `/v1/self-audit` | submit and verify evidence, audit after each |
| `GovernanceScores` | `governance_reference.py`, `src/governance/` | facts and their attachment to claims; both scores, both verdicts |
| `ReactionNetwork` | `chemical_reaction_network.py`, `chemical_execution.py` | gather, verify, drift, extend; the mode |
| `CommercialSale` | `commercial_sale.py` | the methods of one sale in any order |
| `Awareness` | `awareness_*.py` | process, route up, execute, escalate, ask a human, in every valid hierarchy |
| `ClaimEvidence` | `claimlab/engine.py`, `claimlab/http_app.py` | upsert of evidence rows; the assessment |
| `EnterpriseBoundary` | `enforcement_engine.py`, `policy_graph.py`, `execution_profile.py`, `evidence_ledger.py`, `post_execution_forensics.py` | authorize, record an execution, a caller changes a payload it holds |

Scores and reactivities are held as whole numbers: each module names the factor
by which it multiplies the code's fractions.

`AppendOnlyLog` is what the audit table promises to who reads it: a sequence of
events without repetition that only grows at its end. The mapping (`Trail`) is
the one sequence of all events in which each names the one before it, from
GENESIS, and which is in the order of `sequence_id`; a table without such a
sequence (a fork, two events with one place, an order that is not the chain's)
maps to no log and fails the check.
`Collections` holds what comprehensions with a condition and `sum()` return, as
recursive functions, so that the modules that use them can be proved about.

## 3. What the runs show

| Run | Instance | Result |
|---|---|---|
| `gate_lifecycle` | SQLite, serial approvals, 1 decision, 5 requests, 2 worlds | pass: `SingleReservation`, `SettledOnce`, `StaleWorldNotAdmitted`, `InterruptedStaysDead`, `LifecycleSpec` |
| `gate_racing` | PostgreSQL, concurrent approvals | pass: `ReconciledOnce`, `BlockedNeverAuthorised` hold even so |
| `gate_postgres` | PostgreSQL, serial approvals | **violated**: two authorities for one decision |
| `gate_approval_race` | SQLite, concurrent approvals | **violated**: two authorities for one decision |
| `tool_boundary` | 2 decisions, 2 authorities each, 3 calls, clock 0..2, 2 worlds | pass: `NoReplayWhileValid`, `StaleAuthorityRejected` |
| `tool_replay` | 1 decision, 2 calls | **violated**: a delayed call runs the tool again after expiry |
| `csg_replicas` | PostgreSQL, 3 processes, 2 names, 2 bodies, 4 decisions built | pass: `OneDecisionPerKey`, `AnsweredReplays`, `IdempotentSpec` |
| `csg_sqlite` | SQLite, 2 processes, 1 key | **violated**: two decisions answered under one key |
| `enforcement_clients` | 1 decision; one HTTP proxy request, one MCP proxy request, one ChatGPT call | pass: `OneRunPerDecision`, `RunsAreOnRecord`, `ExecutedIsTrue`, `EvidenceIsTrue`, liveness `ChatGptAnswers` |
| `shared_stores` | `MCStores`, 3.1 million states | pass: `WindowBounded`, `RefusalsHaveCause`, `ClaimedOnce`, `BrokerAnswersTrue`, `LaterCommitWins`, `DispatchedOnce`, `AppendOnlySpec`, `BurstNoticed`, `RunsInDecidedWorld`, `RunsStayOnRecord`, `LiveIsOneRound`, `AnswersStayReplayable` |
| `decision_rules` | `MCRules`, 0.6 million states | pass: `RotationKeepsDecision`, `ReplayReports`, `PermittedTwiceChecked`, `NothingProceedsUnproved`, `PaidBeforeEntitled`, `ServedByRight`, `SpentByPermitOnly`, `TrailIsSound`, `EvidenceNeverRevokes`, `EvidenceNeverHurts`, `SupportNeverHurts` |
| `replay_forced` | `PolicyDecision` alone | **violated**: a recorded decision that evidence forced to ASK is replayed as a mismatch |

The five violations are the findings of `PROJECT.json`, each with the sentence
of the repository it contradicts. The invariants that only support others
(`TypeOK`, `GateInv`, `RegistryInv`, `IngressInv`, `PathInv`, `CopiesAgree`, and
the ones in section 4) are proved and no run repeats them.

**Bounds.** Requests are served once, so five requests let one decision be
created, approved, raced by two reservations and settled, or created, reserved
and raced by three settling requests. Decisions do not interact except through
the world and the clock, so one decision is enough for the gate; the proofs
cover any number. `MaxWorld` = 2 gives a current and a stale world besides
"none". `MaxTime` = 2 covers issue, last valid second and expiry. Two
authorities per nonce and three calls let a purge by a third call fall between
two claims. `MaxDecisions` = 4 lets three processes race on one key and a
fourth request follow on the other. Requests, calls, processes, bodies and
names are symmetric: no specification names one.

One decision and three clients of the three kinds let an approved or allowed
decision be presented twice, and the client that loses, times out or crashes
leave its requests behind; the proofs cover more.

In `shared_stores`, `MaxTime` = 6 is twice the limiter's window, so a full window
empties and fills again; four requests against a limit of 2 allow a refusal and
an admission after it. Two calls race on one nonce with a retention (3) that
just covers lifetime and delay (`RetentionCovers`, sufficient and not tight:
`ClaimedOnce` also holds in this instance with 2). Three commits
are two that race and one after them. Four events in a chain and two writers let
a migration meet an append. Two jobs with a rerun each and two foreign commits
exhaust the two attempts of a push. Two prices and two rounds of the live loop
let a cached price outlive a newer one. Two CSG calls on two ids cover a retry
and a foreign message between decision and replay. In `decision_rules`, three
items of evidence are one supporting and two that are not; levels of the reaction
network lie on both sides of its thresholds (30, 34, 35, 60, 90, 100) and the
trajectory passes 10, where its pressure stops growing; two components make
every hierarchy of two; three nonces let an action be repeated three times.

**Deadlock** is not checked: requests are finite in number and a gate whose
requests are all served stops, and so do the components of the two composed runs
when their requests are served or their clock is at its bound. **Fairness**: none
where all properties are safety properties, which is everywhere but in one
module. In `EnforcementPath`, weak fairness of
the steps of the ChatGPT server alone (`Proceed`): `action_gate_sdk.py:18` and
`chatgpt_mcp_server.py:107` give every call a timeout of ten seconds, so a
server that waits goes on with an exception at the latest then. The proxies
call `urlopen` without a timeout (`enforcement_proxy.py:46`); nothing is
assumed of them, nor of the gate and the tool.

## 4. What is proved

All theorems hold for every value of the constants; none has an unproved leaf.

* `ExecutionGateProofs`. `TypeCorrect`; `EvidenceAgreement` and
  `BlockedEvidenceIsFinal` on every backend, with concurrent approvals. Under
  `SafeDeployment`: `GateInvariant`, and from it `OneAuthority` and
  `OneSettlement`.
  *Argument*: `SingleReservation` is not inductive, since a
  handler may be about to save an authority. `GateInv` adds that a row tells
  one story (`RowsConsistent`: an execution status is there exactly if an
  authority was given out), that copies agree with rows on evidence
  (`CopiesAgree`) and what each handler in flight may rely on (`CopiesUsable`:
  at most one handler is past the mark, and the row it will overwrite is
  started and unreserved).
  Under `SafeDeployment` also `GateRefinement`, that the records implement
  `DecisionLifecycle` (each transaction is one move of one decision or none), and
  `DeadReservation`, the action property of interrupted reservations. On every
  backend, with concurrent approvals: `NoStaleWorld` and `OneReconciliation`.
  *Argument*: the world a handler compared is at least the one it saw on loading,
  and worlds only grow; a reconciliation in the history has its row in
  `execution_reconciliations`.
* `ToolAuthorityProofs`. `RegistryInvariant`, `NoReplay`, `NoStaleAuthority`
  under no assumption but that the bounds are numbers. *Argument*: the row of a
  claim carries the latest claimed expiry and is dropped only by a clock
  reading that is not ahead of the clock.
* `CsgIngressProofs`. Under `Backend = "postgresql"`: `IngressInvariant`,
  `OneDecision`, the refinement `IngressRefinement`, and with `KeyIsRequestId`
  also `Replayable`. *Argument*: rows are never overwritten and events never
  dropped (`Kept`), so what a process holds past `Save` stays what is stored.

* `EnforcementPathProofs`. `PathInvariant`, and from it `OneRun`,
  `NoRunIsLost`, `AnswersAreTrue` and `RecordsAreTrue`, for any number of
  decisions and clients. *Argument*: the properties speak of decisions, but what
  may still happen is on the wire; `PathInv` says that a client past the grant,
  and each request it sent, alive or abandoned, holds the one authority of its
  decision, and that only such a client has run. Authorities, settled outcomes
  and runs are never taken back (`Kept`), which carries it over the other steps.
* `StoreProofs`. `RateWindowBounded` and `RateRefusalsHaveCause` for any limit,
  window, delay and number of requests; `BrokerAnswersHold` without an
  assumption on the retention, and `NonceClaimedOnce` under `RetentionCovers`;
  `OracleLaterCommitWins`; `FinanceDispatchedOnce`. *Argument*: the limiter's
  table holds every admitted event that has not left the window by the clock,
  never more than the limit, and a time read is at most `Delay` old (`RateInv`);
  a call that passed verification is young enough for the row of a claim to
  survive until it claims; a committed row stays, with a time not older than the
  delay before its insertion; a payload dispatched once has a row in the vault
  that no call takes back.
  `BurstIsNoticed`, for any threshold, window and number of observers.
  *Argument*: as long as a window has no anomaly, the named events stored in it
  and the observers that counted it too low and have not stored yet are together
  at most the threshold plus all observers but one, less one (`BurstBound`).
  The refinement `AuditIsAppendOnly`. *Argument*: the migration's numbers are
  the places along the chain (`PlacesAreSteps`), so what it accepts reads as a
  log (`MigratedReads`); the lock has one holder, so the hash a writer read is
  still the latest when it commits (`ChainInv`). A table reads in one way at most
  (`OneReading`), the latest by number is where it ends (`LatestEnds`), and so a
  commit appends to it (`ReadingGrows`, `ReadInv`).
* `WorldProofs`. `BoundRunsInDecidedWorld`, `FeedLiveIsOneRound`,
  `AdmissionStaysReplayable`, `InnovationStaysOnRecord`. *Argument*: versions
  only grow, and the comparison is made under the lock; at each place of the live
  loop it is known which keys of the dictionary are of this round (`FeedInv`);
  the row of an answered id is never overwritten, its PASS event never outlived
  by one that disagrees, and
  keys are added but not taken away (`RecordInv`). A job's history is the one on
  main with its run moved to the end, as long as nobody has pushed since its
  checkout, and only then is its push accepted (`InnovationInv`).
* `RuleProofs`. `RotationIsSafe`, `ReplayIsExact`, `MarketPermitsTwiceChecked`,
  `EvidenceKeepsAllow`, `ReactionProceedsProved`, `SaleIsPaid`,
  `NeedsServedByRight`, `EnterpriseSpendsByPermit`, `EnterpriseTrailIsSound`,
  `GovernanceRewardsEvidence`, `SupportHelps`. *Argument*: a decision is
  answered once and keeps the verdict it was made with (`PolicyInv`); the
  boundary's result carries the time it was given at (`MarketInv`); a need's path
  is closed under parents, so a repetition would be a set of components without a
  way to ROOT, which `HierarchyValid` excludes (`NeverTwice`); a nonce is spent
  once, so two executions on record have two authorities (`TrailInv`); a sum of
  weights grows with each weight and with its set (`SumMonotone`), and a
  mean keeps the order of the sums it divides.
* `InductionFacts`, what the others need of sums, chains and picked elements. The
  library's induction theorems take a predicate as a parameter, which the
  provers cannot instantiate; here induction is stated of a *set* of numbers or
  of subsets (`SetInduction`, `IntervalInduction`, `SubsetInduction`), from the
  least element of a set of naturals, and `IterationExists` builds a recursive
  function from its graph.

The assumptions are the named `ASSUME`s of the modules (sets are finite, bounds
are numbers, a marker such as `NoRow` is no value of the type it marks), which
TLC evaluates in the runs, and where stated `SafeDeployment`, `Backend =
"postgresql"`, `KeyIsRequestId` and `RetentionCovers`.

Only model-checked: the violations, and `ChatGptAnswers`, because liveness under
fairness is out of the prover's reach. Every invariant and action property of a
passing run is stated by a theorem.

## 5. Not modelled, and the plan

With reasons under `components` in `PROJECT.json`:

* No state a sequence of calls could put wrong: the VOID key, `idea_to_sale.py`,
  `z_freeze_lock.py`, `besaz_self_observer.py`, `self_healing_engine.py`,
  `sellable_gate.py`, `replay_verifier.py`, `semantics.py`, `ssrf_guard.py`,
  `document_sync.py`. Each is one function of one call; a unit test shows as much.
* Scripts that run once and print: the experiments under `RESEARCH/`, the
  benchmarks, the runtime capsule, the demos and smoke tests,
  `enforcement_integration.py`, `mcp_integration.py`.
* Mock trading engines over random data, static sites, third-party workflows.
* Abstracted, not left out: digests and signatures (a digest is what it
  digests, a signature is its key), canonical JSON, wording, HTTP bindings.
* Nothing is said of the clock going back, of PostgreSQL isolation below what the
  statements' own locks give, or of disks that lose committed data.

What is left: `ExecutionGate` with the two steps of an oracle commit in place of
one; abstract specifications of the tool's registry and of the rate limiter, with
their refinements; and the retention of `ACTION_GATE_NONCE_RETENTION_DAYS` below
`RetentionCovers` as a run of its own.
