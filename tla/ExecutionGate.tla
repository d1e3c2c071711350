--------------------------- MODULE ExecutionGate ---------------------------
(***************************************************************************)
(* The decision record of the Action Gate, from its creation to its        *)
(* settlement: the handlers of action_gate/app.py and the transactions of  *)
(* action_gate/storage.py they call.                                       *)
(*                                                                         *)
(* A handler runs in a worker thread (the endpoints are plain functions)   *)
(* of one of possibly several replicas, so every storage call is a step of *)
(* its own and other handlers run in between.  A handler that answers an   *)
(* error, or whose process dies, stops at the step it reached (Abandon).   *)
(*                                                                         *)
(* Left out: the checks of a request's own bindings (tenant, actor,        *)
(* session, action hash, nonce, signatures), which reject before any       *)
(* state is written and do not depend on it.                               *)
(***************************************************************************)
EXTENDS Naturals, Sequences

CONSTANTS
    Decisions,        \* decision ids (fresh uuids)
    Requests,         \* HTTP requests, each served once
    Nil,              \* neither a decision nor a request
    Backend,          \* storage.backend()
    Production,       \* ACTION_GATE_ENV = "production"
    SerialApprovals,  \* the callers have one approval of a decision in flight at a time
    MaxWorld          \* bound: world versions committed to the State Oracle

ASSUME GateAssumption ==
    /\ Nil \notin Decisions \cup Requests
    /\ Backend \in {"sqlite", "postgresql"}
    /\ Production \in BOOLEAN
    /\ SerialApprovals \in BOOLEAN
    /\ MaxWorld \in Nat

VARIABLES
    row,      \* records: the stored record of each decision
    audit,    \* audit_events / record_versions: the event types of each decision
    settled,  \* execution_reconciliations: decisions that have a row
    world,    \* the current world version, 0 before the first commit
    expired,  \* decisions whose expires_at has passed
    lapsed,   \* approvals (named by their request) whose expires_at has passed
    task,     \* what each request's handler is doing
    issued    \* ghost: the reserve requests whose authority was saved

store == <<row, audit, settled>>
clock == <<world, expired, lapsed>>

vars == <<store, clock, task, issued>>

-----------------------------------------------------------------------------
(* Records.  "ABSENT" stands for no row; world 0 for "world_version": None. *)

Verdicts   == {"ALLOW", "ASK", "DENY", "SANDBOX"}
Statuses   == {"NONE", "RESERVED", "EXECUTED", "RECONCILED"}
Events     == {"DECISION_CREATED", "APPROVAL_RECORDED", "EXECUTION_RESERVED",
               "EXECUTION_RECORDED", "EXECUTION_RECONCILED"}
FinalEvents == {"EXECUTION_RECORDED", "EXECUTION_RECONCILED"}

Records ==
    [decision  : Verdicts \cup {"ABSENT"},
     blocked   : BOOLEAN,                  \* evidence_state: BLOCK or contradictions
     world     : Nat,                      \* world_version
     approval  : Requests \cup {Nil},      \* approval, by the request that gave it
     started   : BOOLEAN,                  \* execution_started_at
     authority : BOOLEAN,                  \* execution_authority
     execution : Statuses,                 \* execution.status
     consumed  : BOOLEAN]                  \* consumed_at

NewRecord(verdict, blocked, w) ==
    [decision |-> verdict, blocked |-> blocked, world |-> w, approval |-> Nil,
     started |-> FALSE, authority |-> FALSE, execution |-> "NONE", consumed |-> FALSE]

Absent == NewRecord("ABSENT", FALSE, 0)

Approved(rec, r, verdict) ==
    [rec EXCEPT !.decision = verdict, !.approval = r]

\* json_set creates the key.  jsonb_set is called with create_if_missing =
\* false on a record that has no such key: the UPDATE matches the row and
\* leaves it as it was.
Marked(rec) ==
    IF Backend = "sqlite" THEN [rec EXCEPT !.started = TRUE] ELSE rec

\* The handler adds to the copy it loaded before the reservation.
Reserved(rec) ==
    [rec EXCEPT !.started = TRUE, !.authority = TRUE, !.execution = "RESERVED"]

Finalized(rec) ==
    [rec EXCEPT !.execution = "EXECUTED", !.consumed = TRUE]

\* A faulty Reconciled: the resolution is stored as the status.
ReconciledAsResolution(rec) ==
    [rec EXCEPT !.execution = "CONFIRMED_FILLED", !.consumed = TRUE]

Reconciled(rec) ==
    [rec EXCEPT !.execution = "RECONCILED", !.consumed = TRUE]

-----------------------------------------------------------------------------
(* The conditions the handlers and the transactions test.                  *)

Exists(rec) == rec.decision # "ABSENT"

\* ensure_live, on the record just loaded.
Live(d) ==
    /\ Exists(row[d])
    /\ ~row[d].consumed
    /\ d \notin expired

\* A faulty Approvable: a decision that was already answered is answered again.
ApprovableAgain(rec) == rec.decision \in {"ASK", "DENY"}

Approvable(rec) == rec.decision = "ASK"

\* A faulty EvidencePermits: the evidence state is not consulted.
EvidenceIgnored(rec) == TRUE

EvidencePermits(rec) == ~rec.blocked

\* A faulty WorldCurrent: a record bound to an old world is accepted.
WorldIgnored(rec) == TRUE

\* A record bound to no world (development) is not checked against one.
WorldCurrent(rec) == rec.world # 0 => world = rec.world

\* A faulty Reservable: only consumption is tested.
ReservableIfUnconsumed(rec) == Exists(rec) /\ ~rec.consumed

\* The WHERE clause of reserve_execution.
Reservable(rec) == Exists(rec) /\ ~rec.consumed /\ ~rec.started

\* A faulty Finalizable: consumption is not tested.
FinalizableAgain(rec) == Exists(rec) /\ rec.started

\* What finalize_execution and reconcile_execution test inside the transaction.
Finalizable(rec) == Exists(rec) /\ ~rec.consumed /\ rec.started

\* A faulty Reconcilable: a record with "execution": None is accepted.
ReconcilableUnreserved(rec) == rec.execution # "RECONCILED"

\* current.get("execution", {}).get("status") raises when execution is None
\* and the transaction rolls back.
Reconcilable(rec) == rec.execution \notin {"NONE", "RECONCILED"}

\* A faulty Unsettled: execution_reconciliations without its UNIQUE(decision_id).
UnsettledAlways(d) == TRUE

Unsettled(d) == d \notin settled

-----------------------------------------------------------------------------
(* Handlers.                                                               *)

InFlight == {"create", "approve", "reserve", "mark", "save",
             "execute", "finalize", "reconcile"}

Idle == [at |-> "idle", on |-> Nil, copy |-> Absent, seen |-> 0]
Done == [at |-> "done", on |-> Nil, copy |-> Absent, seen |-> 0]

\* A task in flight carries the copy of the record its handler works on, and
\* the world version that was current when the handler loaded it.
Tasks ==
    [at : InFlight, on : Decisions, copy : Records, seen : Nat] \cup {Idle, Done}

Task(stage, d, rec) == [at |-> stage, on |-> d, copy |-> rec, seen |-> world]

Init ==
    /\ row     = [d \in Decisions |-> Absent]
    /\ audit   = [d \in Decisions |-> <<>>]
    /\ settled = {}
    /\ world   = 0
    /\ expired = {}
    /\ lapsed  = {}
    /\ task    = [r \in Requests |-> Idle]
    /\ issued  = [d \in Decisions |-> {}]

At(r, stage) == task[r].at = stage

Begin(r, stage, d, rec) ==
    /\ At(r, "idle")
    /\ task' = [task EXCEPT ![r] = Task(stage, d, rec)]

Advance(r, stage) == task' = [task EXCEPT ![r].at = stage]

Finish(r) == task' = [task EXCEPT ![r] = Done]

\* One transaction writes the row, its next version and its audit event.
Write(d, rec, event) ==
    /\ row'   = [row EXCEPT ![d] = rec]
    /\ audit' = [audit EXCEPT ![d] = Append(@, event)]

\* The decision is bound to the current world; before the first commit, to
\* whatever version the caller names, or to none.
BoundWorlds == IF world = 0 THEN 0..MaxWorld ELSE {world}

\* evaluate, up to the State Oracle read.  Evidence that is blocked or
\* contradictory forces ASK; otherwise the policy decides.
EvaluateRead(r, d, verdict, blocked) ==
    /\ row[d] = Absent
    /\ \A q \in Requests : task[q].on # d
    /\ Production => world # 0
    /\ blocked => verdict = "ASK"
    /\ \E w \in BoundWorlds : Begin(r, "create", d, NewRecord(verdict, blocked, w))
    /\ UNCHANGED <<store, clock, issued>>

EvaluateSave(r) ==
    /\ At(r, "create")
    /\ Write(task[r].on, task[r].copy, "DECISION_CREATED")
    /\ Finish(r)
    /\ UNCHANGED <<settled, clock, issued>>

\* approve, up to the load and its checks.
ApproveLoad(r, d) ==
    /\ Live(d)
    /\ Approvable(row[d])
    /\ SerialApprovals => \A q \in Requests : ~(At(q, "approve") /\ task[q].on = d)
    /\ Begin(r, "approve", d, row[d])
    /\ UNCHANGED <<store, clock, issued>>

\* save_record writes the whole copy over whatever the row holds by now.
ApproveSave(r, verdict) ==
    /\ At(r, "approve")
    /\ Write(task[r].on, Approved(task[r].copy, r, verdict), "APPROVAL_RECORDED")
    /\ Finish(r)
    /\ UNCHANGED <<settled, clock, issued>>

\* execution_reserve: the load and the checks on the loaded copy ...
ReserveLoad(r, d) ==
    /\ Live(d)
    /\ row[d].decision = "ALLOW"
    /\ EvidencePermits(row[d])
    /\ Begin(r, "reserve", d, row[d])
    /\ UNCHANGED <<store, clock, issued>>

\* ... the read of the current world and of the clock for the approval ...
ReserveAdmit(r) ==
    /\ At(r, "reserve")
    /\ WorldCurrent(task[r].copy)
    /\ task[r].copy.approval \notin lapsed
    /\ Advance(r, "mark")
    /\ UNCHANGED <<store, clock, issued>>

\* ... the transaction storage.reserve_execution ...
ReserveMark(r) ==
    /\ At(r, "mark")
    /\ Reservable(row[task[r].on])
    /\ row' = [row EXCEPT ![task[r].on] = Marked(@)]
    /\ Advance(r, "save")
    /\ UNCHANGED <<audit, settled, clock, issued>>

\* ... and, in a second transaction, the save of the copy with the authority.
ReserveSave(r) ==
    /\ At(r, "save")
    /\ Write(task[r].on, Reserved(task[r].copy), "EXECUTION_RESERVED")
    /\ issued' = [issued EXCEPT ![task[r].on] = @ \cup {r}]
    /\ Finish(r)
    /\ UNCHANGED <<settled, clock>>

\* execution: the load and the checks on the loaded copy ...
ExecuteLoad(r, d) ==
    /\ Live(d)
    /\ row[d].decision = "ALLOW"
    /\ EvidencePermits(row[d])
    /\ row[d].started
    /\ row[d].authority
    /\ row[d].execution # "RECONCILED"
    /\ Begin(r, "execute", d, row[d])
    /\ UNCHANGED <<store, clock, issued>>

ExecuteAdmit(r) ==
    /\ At(r, "execute")
    /\ WorldCurrent(task[r].copy)
    /\ task[r].copy.approval \notin lapsed
    /\ Advance(r, "finalize")
    /\ UNCHANGED <<store, clock, issued>>

\* ... and storage.finalize_execution, which starts from the current row.
Finalize(r) ==
    LET d == task[r].on IN
    /\ At(r, "finalize")
    /\ Finalizable(row[d])
    /\ Write(d, Finalized(row[d]), "EXECUTION_RECORDED")
    /\ Finish(r)
    /\ UNCHANGED <<settled, clock, issued>>

\* execution_reconcile asks neither for the world nor for an authority.
ReconcileLoad(r, d) ==
    /\ Live(d)
    /\ row[d].decision = "ALLOW"
    /\ row[d].started
    /\ row[d].execution # "RECONCILED"
    /\ Begin(r, "reconcile", d, row[d])
    /\ UNCHANGED <<store, clock, issued>>

\* storage.reconcile_execution tests the current row and writes the copy.
Reconcile(r) ==
    LET d == task[r].on IN
    /\ At(r, "reconcile")
    /\ Finalizable(row[d])
    /\ Reconcilable(row[d])
    /\ Unsettled(d)
    /\ Write(d, Reconciled(task[r].copy), "EXECUTION_RECONCILED")
    /\ settled' = settled \cup {d}
    /\ Finish(r)
    /\ UNCHANGED <<clock, issued>>

\* The handler answers an error (a check fails, a transaction refuses, the
\* store or a secret is missing) or its process dies.
Abandon(r) ==
    /\ task[r].at \in InFlight
    /\ Finish(r)
    /\ UNCHANGED <<store, clock, issued>>

\* Time passes expires_at of a decision, or of an approval.
ExpireDecision(d) ==
    /\ Exists(row[d])
    /\ d \notin expired
    /\ expired' = expired \cup {d}
    /\ UNCHANGED <<store, world, lapsed, task, issued>>

LapseApproval(q) ==
    /\ q \in Requests \ lapsed
    /\ \/ \E d \in Decisions : row[d].approval = q
       \/ \E r \in Requests : task[r].copy.approval = q
    /\ lapsed' = lapsed \cup {q}
    /\ UNCHANGED <<store, world, expired, task, issued>>

\* A commit to the State Oracle that becomes the current world version.
CommitWorld ==
    /\ world < MaxWorld
    /\ world' = world + 1
    /\ UNCHANGED <<store, expired, lapsed, task, issued>>

Evaluate(r) ==
    \/ \E d \in Decisions, verdict \in Verdicts, blocked \in BOOLEAN :
            EvaluateRead(r, d, verdict, blocked)
    \/ EvaluateSave(r)

Approve(r) ==
    \/ \E d \in Decisions : ApproveLoad(r, d)
    \/ \E verdict \in {"ALLOW", "DENY"} : ApproveSave(r, verdict)

Reserve(r) ==
    \/ \E d \in Decisions : ReserveLoad(r, d)
    \/ ReserveAdmit(r)
    \/ ReserveMark(r)
    \/ ReserveSave(r)

Execute(r) ==
    \/ \E d \in Decisions : ExecuteLoad(r, d)
    \/ ExecuteAdmit(r)
    \/ Finalize(r)

ReconcileExecution(r) ==
    \/ \E d \in Decisions : ReconcileLoad(r, d)
    \/ Reconcile(r)

Environment ==
    \/ \E d \in Decisions : ExpireDecision(d)
    \/ \E q \in Requests : LapseApproval(q)
    \/ CommitWorld

Next ==
    \/ \E r \in Requests :
          \/ Evaluate(r)
          \/ Approve(r)
          \/ Reserve(r)
          \/ Execute(r)
          \/ ReconcileExecution(r)
          \/ Abandon(r)
    \/ Environment

Spec == Init /\ [][Next]_vars

-----------------------------------------------------------------------------
(* Correctness.                                                            *)

\* Every variable keeps its type (the shape of the stored record included).
TypeOK ==
    /\ row \in [Decisions -> Records]
    /\ audit \in [Decisions -> Seq(Events)]
    /\ settled \subseteq Decisions
    /\ world \in Nat
    /\ expired \subseteq Decisions
    /\ lapsed \subseteq Requests
    /\ task \in [Requests -> Tasks]
    /\ issued \in [Decisions -> SUBSET Requests]

Occurs(d, events) == {i \in 1..Len(audit[d]) : audit[d][i] \in events}

AtMostOne(S) == \A x, y \in S : x = y

\* "Atomically reserve a one-time execution before any external side effect"
\* (storage.py:254): however many reserve requests race on a decision, crash
\* or are sent again, at most one is answered with an execution authority.
SingleReservation == \A d \in Decisions : AtMostOne(issued[d])

\* A decision is settled once: the version history holds at most one
\* EXECUTION_RECORDED or EXECUTION_RECONCILED event, although finalising and
\* reconciling are different endpoints with different checks.
SettledOnce == \A d \in Decisions : AtMostOne(Occurs(d, FinalEvents))

\* The UNIQUE(decision_id) of execution_reconciliations alone keeps a
\* decision from being reconciled twice, whatever stale copies other
\* handlers write over the row in between.
ReconciledOnce == \A d \in Decisions : AtMostOne(Occurs(d, {"EXECUTION_RECONCILED"}))

\* Blocked or contradictory evidence never ends in an execution authority,
\* not even after an approval turned the decision into ALLOW.
BlockedNeverAuthorised ==
    \A d \in Decisions : issued[d] # {} => ~row[d].blocked

\* A reservation or an execution that passes its checks is bound to a world
\* no older than the one current when the request loaded the record.
StaleWorldNotAdmitted ==
    \A r \in Requests :
        task[r].at \in {"mark", "save", "finalize"} /\ task[r].copy.world # 0
            => task[r].seen <= task[r].copy.world

\* The reservation was marked and its handler is gone before the authority
\* was saved (a crash, or no authority secret).
Interrupted(d) ==
    /\ row[d].started
    /\ row[d].execution = "NONE"
    /\ \A r \in Requests : ~(At(r, "save") /\ task[r].on = d)

\* An interrupted reservation is dead for good: no later request reserves,
\* executes or reconciles it.
InterruptedStaysDead ==
    [][\A d \in Decisions : Interrupted(d) => Interrupted(d)']_vars

\* The phase of DecisionLifecycle a record stands for.
Phase(rec) ==
    CASE rec.consumed -> IF rec.execution = "RECONCILED" THEN "reconciled" ELSE "executed"
      [] ~rec.consumed /\ rec.started -> "reserved"
      [] ~rec.consumed /\ ~rec.started ->
            CASE rec.decision = "ABSENT" -> "absent"
              [] rec.decision = "ASK"    -> "asked"
              [] rec.decision = "ALLOW"  -> "permitted"
              [] OTHER                   -> "refused"

Lifecycle == INSTANCE DecisionLifecycle WITH phase <- [d \in Decisions |-> Phase(row[d])]

\* The stored records implement the one-way lifecycle of a decision.
LifecycleSpec == Lifecycle!Spec
-----------------------------------------------------------------------------
(* Why it holds.  CopiesAgree holds of every deployment; the other parts    *)
(* need SafeDeployment, and the runs with another backend or with approvals *)
(* in parallel show that they do.                                           *)

\* reserve_execution really marks the row, and approvals do not overlap.
SafeDeployment == Backend = "sqlite" /\ SerialApprovals

\* A copy is never wrong about the evidence: no handler changes it.
CopiesAgree ==
    /\ \A d \in Decisions :
          /\ ~Exists(row[d]) => row[d] = Absent /\ issued[d] = {}
          /\ issued[d] # {} => ~row[d].blocked
    /\ \A r \in Requests :
          /\ At(r, "create") =>
                /\ ~Exists(row[task[r].on])
                /\ \A q \in Requests : task[q].on = task[r].on => q = r
                /\ Exists(task[r].copy)
                /\ LET copy == task[r].copy IN
                      copy = NewRecord(copy.decision, copy.blocked, copy.world)
          /\ task[r].at \in InFlight \ {"create"} =>
                /\ Exists(row[task[r].on])
                /\ Exists(task[r].copy)
                /\ task[r].copy.blocked = row[task[r].on].blocked
          /\ task[r].at \in {"reserve", "mark", "save"} => ~task[r].copy.blocked

\* The fields of a stored record, the authorities given out for it and its
\* history tell the same story.
RowConsistent(d) ==
    /\ row[d].started => row[d].decision = "ALLOW"
    /\ row[d].execution # "NONE" => row[d].started
    /\ row[d].authority => row[d].execution # "NONE"
    /\ row[d].consumed <=> row[d].execution \in {"EXECUTED", "RECONCILED"}
    /\ row[d].execution # "NONE" <=> issued[d] # {}
    /\ AtMostOne(issued[d])
    /\ Occurs(d, FinalEvents) # {} => row[d].consumed
    /\ AtMostOne(Occurs(d, FinalEvents))

RowsConsistent == \A d \in Decisions : RowConsistent(d)

\* What a handler in flight may rely on, about the row it will write over.
Usable(t, rec) ==
    /\ t.at = "approve" => rec.decision = "ASK" /\ t.copy = rec
    /\ t.at \in {"reserve", "mark", "save", "execute", "finalize", "reconcile"} =>
          /\ rec.decision = "ALLOW"
          /\ t.copy.decision = "ALLOW"
          /\ ~t.copy.consumed
          /\ t.copy.execution # "NONE" => t.copy.started
          /\ t.copy.authority => t.copy.execution # "NONE"
          /\ t.copy.started => rec.started
    /\ t.at = "save" => rec.started /\ rec.execution = "NONE"
    /\ t.at \in {"execute", "finalize"} => rec.execution # "NONE"
    /\ t.at = "reconcile" => t.copy.started

CopiesUsable ==
    \A r \in Requests :
        /\ Usable(task[r], row[task[r].on])
        /\ task[r].at \in {"approve", "save"} =>
              \A q \in Requests :
                  task[q].at = task[r].at /\ task[q].on = task[r].on => q = r

\* The inductive invariant of a safe deployment.
GateInv == CopiesAgree /\ RowsConsistent /\ CopiesUsable
=============================================================================
