------------------------ MODULE ExecutionGateProofs ------------------------
(***************************************************************************)
(* Proofs about ExecutionGate for every set of decisions and of requests.  *)
(***************************************************************************)
EXTENDS ExecutionGate, TLAPS

\* The record transformers of the model return records.
LEMMA RecordTypes ==
    ASSUME NEW rec \in Records
    PROVE  /\ Marked(rec) \in Records
           /\ Reserved(rec) \in Records
           /\ Finalized(rec) \in Records
           /\ Reconciled(rec) \in Records
           /\ \A r \in Requests, v \in Verdicts : Approved(rec, r, v) \in Records
BY DEF Records, Marked, Reserved, Finalized, Reconciled, Approved, Statuses

LEMMA NewRecordType ==
    ASSUME NEW v \in Verdicts, NEW b \in BOOLEAN, NEW w \in Nat
    PROVE  NewRecord(v, b, w) \in Records
BY DEF Records, NewRecord, Statuses

LEMMA AbsentType == Absent \in Records
BY DEF Absent, NewRecord, Records, Statuses

\* A handler's bookkeeping keeps its type.
LEMMA BeginType ==
    ASSUME TypeOK, NEW r \in Requests, NEW stage \in InFlight,
           NEW d \in Decisions, NEW rec \in Records, Begin(r, stage, d, rec)
    PROVE  task' \in [Requests -> Tasks]
BY DEF TypeOK, Begin, Task, Tasks

LEMMA AdvanceType ==
    ASSUME TypeOK, NEW r \in Requests, NEW stage \in InFlight,
           task[r].at \in InFlight, Advance(r, stage)
    PROVE  task' \in [Requests -> Tasks]
<1>1. task[r] \in [at : InFlight, on : Decisions, copy : Records, seen : Nat]
  BY DEF TypeOK, Tasks, Idle, Done, InFlight
<1>2. [task[r] EXCEPT !.at = stage] \in Tasks
  BY <1>1 DEF Tasks
<1>3. QED BY <1>2 DEF TypeOK, Advance

LEMMA FinishType ==
    ASSUME TypeOK, NEW r \in Requests, Finish(r)
    PROVE  task' \in [Requests -> Tasks]
BY DEF TypeOK, Finish, Tasks

\* A handler in flight works on a decision.
LEMMA InFlightTask ==
    ASSUME TypeOK, NEW r \in Requests, task[r].at \in InFlight
    PROVE  task[r].on \in Decisions /\ task[r].copy \in Records
BY DEF TypeOK, Tasks, Idle, Done, InFlight

LEMMA StageInFlight ==
    ASSUME NEW r \in Requests, NEW stage \in InFlight, At(r, stage)
    PROVE  task[r].at \in InFlight
BY DEF At

\* A transaction keeps the types of the store.
LEMMA WriteType ==
    ASSUME TypeOK, NEW d \in Decisions, NEW rec \in Records, NEW event \in Events,
           Write(d, rec, event)
    PROVE  /\ row' \in [Decisions -> Records]
           /\ audit' \in [Decisions -> Seq(Events)]
BY DEF TypeOK, Write

\* The type invariant of the gate's state.
THEOREM TypeCorrect == Spec => []TypeOK
<1>1. Init => TypeOK
  BY AbsentType DEF Init, TypeOK, Tasks
<1>2. TypeOK /\ [Next]_vars => TypeOK'
  <2> SUFFICES ASSUME TypeOK, [Next]_vars PROVE TypeOK'
    OBVIOUS
  <2>1. ASSUME NEW r \in Requests, NEW d \in Decisions, NEW verdict \in Verdicts,
               NEW blocked \in BOOLEAN, EvaluateRead(r, d, verdict, blocked)
        PROVE  TypeOK'
    <3>1. PICK w \in BoundWorlds : Begin(r, "create", d, NewRecord(verdict, blocked, w))
      BY <2>1 DEF EvaluateRead
    <3>2. w \in Nat
      BY GateAssumption DEF BoundWorlds, TypeOK
    <3>3. task' \in [Requests -> Tasks]
      BY <3>1, <3>2, BeginType, NewRecordType DEF InFlight
    <3>4. QED BY <3>3, <2>1 DEF EvaluateRead, TypeOK, store, clock
  <2>2. ASSUME NEW r \in Requests, EvaluateSave(r) PROVE TypeOK'
    <3>1. task[r].on \in Decisions /\ task[r].copy \in Records
      BY <2>2, InFlightTask, StageInFlight DEF EvaluateSave, InFlight
    <3>2. QED
      BY <2>2, <3>1, WriteType, FinishType DEF EvaluateSave, TypeOK, clock, Events
  <2>3. ASSUME NEW r \in Requests, NEW d \in Decisions, ApproveLoad(r, d) PROVE TypeOK'
    <3>1. row[d] \in Records /\ "approve" \in InFlight
      BY DEF TypeOK, InFlight
    <3>2. QED BY <2>3, <3>1, BeginType DEF ApproveLoad, TypeOK, store, clock
  <2>4. ASSUME NEW r \in Requests, NEW verdict \in {"ALLOW", "DENY"}, ApproveSave(r, verdict)
        PROVE  TypeOK'
    <3>1. task[r].on \in Decisions /\ task[r].copy \in Records
      BY <2>4, InFlightTask, StageInFlight DEF ApproveSave, InFlight
    <3>2. Approved(task[r].copy, r, verdict) \in Records
      BY <3>1, RecordTypes DEF Verdicts
    <3>3. QED
      BY <2>4, <3>1, <3>2, WriteType, FinishType DEF ApproveSave, TypeOK, clock, Events
  <2>5. ASSUME NEW r \in Requests, NEW d \in Decisions, ReserveLoad(r, d) PROVE TypeOK'
    <3>1. row[d] \in Records /\ "reserve" \in InFlight
      BY DEF TypeOK, InFlight
    <3>2. QED BY <2>5, <3>1, BeginType DEF ReserveLoad, TypeOK, store, clock
  <2>6. ASSUME NEW r \in Requests, ReserveAdmit(r) PROVE TypeOK'
    <3>1. task' \in [Requests -> Tasks]
      BY <2>6, StageInFlight, AdvanceType DEF ReserveAdmit, InFlight
    <3>2. QED BY <2>6, <3>1 DEF ReserveAdmit, TypeOK, store, clock
  <2>7. ASSUME NEW r \in Requests, ReserveMark(r) PROVE TypeOK'
    <3>1. row' \in [Decisions -> Records]
      BY <2>7, RecordTypes DEF ReserveMark, TypeOK
    <3>2. task' \in [Requests -> Tasks]
      BY <2>7, StageInFlight, AdvanceType DEF ReserveMark, InFlight
    <3>3. QED BY <2>7, <3>1, <3>2 DEF ReserveMark, TypeOK, clock
  <2>8. ASSUME NEW r \in Requests, ReserveSave(r) PROVE TypeOK'
    <3>1. task[r].on \in Decisions /\ task[r].copy \in Records
      BY <2>8, InFlightTask, StageInFlight DEF ReserveSave, InFlight
    <3>2. issued' \in [Decisions -> SUBSET Requests]
      BY <2>8 DEF ReserveSave, TypeOK
    <3>3. Reserved(task[r].copy) \in Records
      BY <3>1, RecordTypes
    <3>4. QED
      BY <2>8, <3>1, <3>2, <3>3, WriteType, FinishType DEF ReserveSave, TypeOK, clock, Events
  <2>9. ASSUME NEW r \in Requests, NEW d \in Decisions, ExecuteLoad(r, d) PROVE TypeOK'
    <3>1. row[d] \in Records /\ "execute" \in InFlight
      BY DEF TypeOK, InFlight
    <3>2. QED BY <2>9, <3>1, BeginType DEF ExecuteLoad, TypeOK, store, clock
  <2>10. ASSUME NEW r \in Requests, ExecuteAdmit(r) PROVE TypeOK'
    <3>1. task' \in [Requests -> Tasks]
      BY <2>10, StageInFlight, AdvanceType DEF ExecuteAdmit, InFlight
    <3>2. QED BY <2>10, <3>1 DEF ExecuteAdmit, TypeOK, store, clock
  <2>11. ASSUME NEW r \in Requests, Finalize(r) PROVE TypeOK'
    <3> DEFINE d == task[r].on
    <3>1. d \in Decisions
      BY <2>11, InFlightTask, StageInFlight DEF Finalize, InFlight
    <3> Finalized(row[d]) \in Records
      BY <3>1, RecordTypes DEF TypeOK
    <3>2. row' \in [Decisions -> Records] /\ audit' \in [Decisions -> Seq(Events)]
      BY <2>11, <3>1, WriteType DEF Finalize, Events
    <3>3. QED
      BY <2>11, <3>2, FinishType DEF Finalize, TypeOK, clock
  <2>12. ASSUME NEW r \in Requests, NEW d \in Decisions, ReconcileLoad(r, d) PROVE TypeOK'
    <3>1. row[d] \in Records /\ "reconcile" \in InFlight
      BY DEF TypeOK, InFlight
    <3>2. QED BY <2>12, <3>1, BeginType DEF ReconcileLoad, TypeOK, store, clock
  <2>13. ASSUME NEW r \in Requests, Reconcile(r) PROVE TypeOK'
    <3> DEFINE d == task[r].on
    <3>1. d \in Decisions /\ task[r].copy \in Records
      BY <2>13, InFlightTask, StageInFlight DEF Reconcile, InFlight
    <3> Reconciled(task[r].copy) \in Records
      BY <3>1, RecordTypes
    <3>2. row' \in [Decisions -> Records] /\ audit' \in [Decisions -> Seq(Events)]
      BY <2>13, <3>1, WriteType DEF Reconcile, Events
    <3>3. QED
      BY <2>13, <3>1, <3>2, FinishType DEF Reconcile, TypeOK, clock
  <2>14. ASSUME NEW r \in Requests, Abandon(r) PROVE TypeOK'
    BY <2>14, FinishType DEF Abandon, TypeOK, store, clock
  <2>15. ASSUME Environment PROVE TypeOK'
    BY <2>15 DEF Environment, ExpireDecision, LapseApproval, CommitWorld, TypeOK, store
  <2>16. CASE UNCHANGED vars
    BY <2>16 DEF TypeOK, vars, store, clock
  <2>17. QED
    BY <2>1, <2>2, <2>3, <2>4, <2>5, <2>6, <2>7, <2>8, <2>9, <2>10, <2>11, <2>12,
       <2>13, <2>14, <2>15, <2>16
       DEF Next, Evaluate, Approve, Reserve, Execute, ReconcileExecution
<1>3. QED BY <1>1, <1>2, PTL DEF Spec

-----------------------------------------------------------------------------
\* What the record transformers leave as it was.
LEMMA RecordFields ==
    ASSUME NEW rec \in Records
    PROVE  /\ Marked(rec).decision = rec.decision
           /\ Marked(rec).blocked = rec.blocked
           /\ Reserved(rec).decision = rec.decision
           /\ Reserved(rec).blocked = rec.blocked
           /\ Finalized(rec).decision = rec.decision
           /\ Finalized(rec).blocked = rec.blocked
           /\ Reconciled(rec).decision = rec.decision
           /\ Reconciled(rec).blocked = rec.blocked
           /\ \A r, v : /\ Approved(rec, r, v).decision = v
                       /\ Approved(rec, r, v).blocked = rec.blocked
BY DEF Records, Marked, Reserved, Finalized, Reconciled, Approved

\* A handler that writes a record with the evidence state of its own copy,
\* and goes on to a stage where that is harmless, leaves the copies agreeing.
LEMMA WriteAgrees ==
    ASSUME TypeOK, CopiesAgree, NEW r \in Requests, task[r].at \in InFlight,
           NEW rec \in Records, Exists(rec), rec.blocked = task[r].copy.blocked,
           row' = [row EXCEPT ![task[r].on] = rec],
           \/ Finish(r)
           \/ At(r, "mark") /\ Advance(r, "save"),
           \A d \in Decisions : issued'[d] # {} =>
               issued[d] # {} \/ (d = task[r].on /\ ~rec.blocked)
    PROVE  CopiesAgree'
<1> DEFINE d == task[r].on
<1>1. d \in Decisions /\ task[r] \in [at : InFlight, on : Decisions, copy : Records, seen : Nat]
  BY DEF TypeOK, Tasks, Idle, Done, InFlight
<1>2. \A e \in Decisions : row'[e] = IF e = d THEN rec ELSE row[e]
  BY <1>1 DEF TypeOK
<1>3. ASSUME NEW e \in Decisions
      PROVE  /\ ~Exists(row'[e]) => row'[e] = Absent /\ issued'[e] = {}
             /\ issued'[e] # {} => ~row'[e].blocked
  <2>1. CASE e = d
    <3>1. issued[e] # {} => ~rec.blocked
      BY <2>1 DEF CopiesAgree, At, Exists
    <3>2. QED BY <2>1, <1>2, <3>1
  <2>2. CASE e # d
    BY <2>2, <1>2 DEF CopiesAgree
  <2>3. QED BY <2>1, <2>2
<1>4. ASSUME NEW q \in Requests, q # r
      PROVE  /\ task'[q] = task[q]
             /\ task[q].on = d => task[q].at # "create"
             /\ task[q].on = d /\ task[q].at \in InFlight => task[q].copy.blocked = rec.blocked
  <2>1. task'[q] = task[q]
    BY <1>4 DEF Finish, Advance, TypeOK
  <2>2. task[q].on = d => task[q].at # "create"
    BY <1>4 DEF CopiesAgree, At
  <2>3. ASSUME task[q].on = d, task[q].at \in InFlight
        PROVE  task[q].copy.blocked = rec.blocked
    <3>1. task[q].copy.blocked = row[d].blocked /\ Exists(row[d])
      BY <2>2, <2>3 DEF CopiesAgree
    <3>2. task[r].at # "create"
      BY <1>4, <2>3 DEF CopiesAgree, At
    <3>3. QED BY <3>1, <3>2 DEF CopiesAgree
  <2>4. QED BY <2>1, <2>2, <2>3
<1>5. \/ task'[r] = Done
      \/ At(r, "mark") /\ task'[r] = [task[r] EXCEPT !.at = "save"]
  BY DEF Finish, Advance, TypeOK
<1>6. ASSUME NEW q \in Requests
      PROVE  /\ task'[q].at = "create" =>
                   /\ ~Exists(row'[task'[q].on])
                   /\ \A p \in Requests : task'[p].on = task'[q].on => p = q
                   /\ Exists(task'[q].copy)
                   /\ LET copy == task'[q].copy IN
                         copy = NewRecord(copy.decision, copy.blocked, copy.world)
             /\ task'[q].at \in InFlight \ {"create"} =>
                   /\ Exists(row'[task'[q].on])
                   /\ Exists(task'[q].copy)
                   /\ task'[q].copy.blocked = row'[task'[q].on].blocked
             /\ task'[q].at \in {"reserve", "mark", "save"} => ~task'[q].copy.blocked
  <2>1. CASE q = r
    BY <2>1, <1>1, <1>2, <1>5 DEF Done, At, CopiesAgree, InFlight
  <2>2. CASE q # r /\ task[q].on = d
    BY <2>2, <1>1, <1>2, <1>4 DEF CopiesAgree, InFlight
  <2>3. CASE q # r /\ task[q].on # d
    <3>1. task'[q] = task[q]
      BY <2>3, <1>4
    <3>2. task[q].at \in InFlight => task[q].on \in Decisions /\ row'[task[q].on] = row[task[q].on]
      BY <2>3, <1>2, InFlightTask
    <3>3. task[q].at = "create" => \A p \in Requests : task'[p].on = task[q].on => p = q
      BY <2>3, <1>1, <1>4, <1>5, <3>2, GateAssumption DEF CopiesAgree, At, Done, InFlight
    <3>4. QED BY <3>1, <3>2, <3>3 DEF CopiesAgree, At, InFlight
  <2>4. QED BY <2>1, <2>2, <2>3
<1>7. QED BY <1>3, <1>6 DEF CopiesAgree, At

\* A handler that begins with the row as its copy leaves the copies agreeing.
LEMMA LoadAgrees ==
    ASSUME TypeOK, CopiesAgree, NEW r \in Requests, NEW d \in Decisions,
           NEW stage \in InFlight, stage # "create", Live(d),
           stage = "reserve" => EvidencePermits(row[d]), stage \notin {"mark", "save"},
           Begin(r, stage, d, row[d]), UNCHANGED <<row, issued>>
    PROVE  CopiesAgree'
BY DEF CopiesAgree, Live, Begin, Task, At, TypeOK, Exists, InFlight, EvidencePermits

\* Every step of every deployment keeps CopiesAgree.
LEMMA CopiesAgreeStep ==
    ASSUME TypeOK, CopiesAgree, [Next]_vars
    PROVE  CopiesAgree'
<1>1. ASSUME NEW r \in Requests, NEW d \in Decisions, NEW verdict \in Verdicts,
             NEW blocked \in BOOLEAN, EvaluateRead(r, d, verdict, blocked)
      PROVE  CopiesAgree'
  BY <1>1 DEF EvaluateRead, CopiesAgree, Begin, Task, At, TypeOK, store, NewRecord,
              Exists, Verdicts, InFlight, Absent
<1>2. ASSUME NEW r \in Requests, EvaluateSave(r) PROVE CopiesAgree'
  BY <1>2, InFlightTask, StageInFlight, WriteAgrees
     DEF EvaluateSave, CopiesAgree, Write, At, InFlight
<1>3. ASSUME NEW r \in Requests, NEW d \in Decisions, ApproveLoad(r, d) PROVE CopiesAgree'
  BY <1>3, LoadAgrees DEF ApproveLoad, InFlight, store
<1>4. ASSUME NEW r \in Requests, NEW verdict \in {"ALLOW", "DENY"}, ApproveSave(r, verdict)
      PROVE  CopiesAgree'
  <2>1. task[r].at \in InFlight /\ task[r].copy \in Records
    BY <1>4, InFlightTask, StageInFlight DEF ApproveSave, InFlight
  <2> DEFINE rec == Approved(task[r].copy, r, verdict)
  <2>2. rec \in Records
    BY <2>1, RecordTypes DEF Verdicts
  <2>3. rec.decision = verdict /\ rec.blocked = task[r].copy.blocked
    BY <2>1, RecordFields
  <2>4. Exists(rec)
    BY <2>3 DEF Exists
  <2>5. QED BY <1>4, <2>1, <2>2, <2>3, <2>4, WriteAgrees DEF ApproveSave, Write
<1>5. ASSUME NEW r \in Requests, NEW d \in Decisions, ReserveLoad(r, d) PROVE CopiesAgree'
  BY <1>5, LoadAgrees DEF ReserveLoad, InFlight, store
<1>6. ASSUME NEW r \in Requests, ReserveAdmit(r) PROVE CopiesAgree'
  BY <1>6, InFlightTask, StageInFlight
     DEF ReserveAdmit, CopiesAgree, Advance, At, TypeOK, store, InFlight
<1>7. ASSUME NEW r \in Requests, ReserveMark(r) PROVE CopiesAgree'
  <2>1. At(r, "mark") /\ task[r].at \in InFlight /\ task[r].on \in Decisions
    BY <1>7, InFlightTask, StageInFlight DEF ReserveMark, InFlight
  <2> DEFINE rec == Marked(row[task[r].on])
  <2>2. rec \in Records /\ Exists(rec) /\ rec.blocked = row[task[r].on].blocked
    BY <1>7, <2>1, RecordTypes, RecordFields DEF TypeOK, Exists, ReserveMark, Reservable
  <2>3. rec.blocked = task[r].copy.blocked
    BY <2>1, <2>2 DEF CopiesAgree, At
  <2>4. QED BY <1>7, <2>1, <2>2, <2>3, WriteAgrees DEF ReserveMark
<1>8. ASSUME NEW r \in Requests, ReserveSave(r) PROVE CopiesAgree'
  <2>1. At(r, "save") /\ task[r].at \in InFlight /\ task[r].copy \in Records
    BY <1>8, InFlightTask, StageInFlight DEF ReserveSave, InFlight
  <2> DEFINE rec == Reserved(task[r].copy)
  <2>2. rec \in Records /\ Exists(rec) /\ rec.blocked = task[r].copy.blocked
    BY <2>1, RecordTypes, RecordFields DEF Exists, CopiesAgree, At
  <2>3. ~rec.blocked
    BY <2>1, <2>2 DEF CopiesAgree, At
  <2>4. \A d \in Decisions : issued'[d] # {} => issued[d] # {} \/ (d = task[r].on /\ ~rec.blocked)
    BY <1>8, <2>3 DEF ReserveSave, TypeOK
  <2>5. QED BY <1>8, <2>1, <2>2, <2>4, WriteAgrees DEF ReserveSave, Write
<1>9. ASSUME NEW r \in Requests, NEW d \in Decisions, ExecuteLoad(r, d) PROVE CopiesAgree'
  BY <1>9, LoadAgrees DEF ExecuteLoad, InFlight, store
<1>10. ASSUME NEW r \in Requests, ExecuteAdmit(r) PROVE CopiesAgree'
  BY <1>10, InFlightTask, StageInFlight
     DEF ExecuteAdmit, CopiesAgree, Advance, At, TypeOK, store, InFlight
<1>11. ASSUME NEW r \in Requests, Finalize(r) PROVE CopiesAgree'
  <2>1. At(r, "finalize") /\ task[r].at \in InFlight /\ task[r].on \in Decisions
    BY <1>11, InFlightTask, StageInFlight DEF Finalize, InFlight
  <2> DEFINE rec == Finalized(row[task[r].on])
  <2>2. rec \in Records /\ Exists(rec) /\ rec.blocked = row[task[r].on].blocked
    BY <1>11, <2>1, RecordTypes, RecordFields DEF TypeOK, Exists, Finalize, Finalizable
  <2>3. rec.blocked = task[r].copy.blocked
    BY <2>1, <2>2 DEF CopiesAgree, At
  <2>4. QED BY <1>11, <2>1, <2>2, <2>3, WriteAgrees DEF Finalize, Write
<1>12. ASSUME NEW r \in Requests, NEW d \in Decisions, ReconcileLoad(r, d) PROVE CopiesAgree'
  BY <1>12, LoadAgrees DEF ReconcileLoad, InFlight, store
<1>13. ASSUME NEW r \in Requests, Reconcile(r) PROVE CopiesAgree'
  <2>1. At(r, "reconcile") /\ task[r].at \in InFlight /\ task[r].copy \in Records
    BY <1>13, InFlightTask, StageInFlight DEF Reconcile, InFlight
  <2> DEFINE rec == Reconciled(task[r].copy)
  <2>2. rec \in Records /\ Exists(rec) /\ rec.blocked = task[r].copy.blocked
    BY <2>1, RecordTypes, RecordFields DEF Exists, CopiesAgree, At
  <2>3. QED BY <1>13, <2>1, <2>2, WriteAgrees DEF Reconcile, Write
<1>14. ASSUME NEW r \in Requests, Abandon(r) PROVE CopiesAgree'
  BY <1>14, GateAssumption DEF Abandon, CopiesAgree, Finish, Done, At, TypeOK, store, InFlight, Tasks, Idle
<1>15. ASSUME Environment PROVE CopiesAgree'
  BY <1>15 DEF Environment, ExpireDecision, LapseApproval, CommitWorld, CopiesAgree, At, store
<1>16. CASE UNCHANGED vars
  BY <1>16 DEF CopiesAgree, At, vars, store
<1>17. QED
  BY <1>1, <1>2, <1>3, <1>4, <1>5, <1>6, <1>7, <1>8, <1>9, <1>10, <1>11, <1>12,
     <1>13, <1>14, <1>15, <1>16
     DEF Next, Evaluate, Approve, Reserve, Execute, ReconcileExecution

\* In every deployment, whatever races and crashes: the copies agree with the
\* row about the evidence, so no authority is ever given out on blocked or
\* contradictory evidence.
THEOREM EvidenceAgreement == Spec => []CopiesAgree
<1>1. Init => CopiesAgree
  <2> SUFFICES ASSUME Init PROVE CopiesAgree
    OBVIOUS
  <2>1. \A d \in Decisions : row[d] = Absent /\ issued[d] = {}
    BY DEF Init
  <2>2. \A r \in Requests : task[r].at = "idle"
    BY DEF Init, Idle
  <2>3. QED BY <2>1, <2>2 DEF CopiesAgree, At, InFlight
<1>2. TypeOK /\ CopiesAgree /\ [Next]_vars => CopiesAgree'
  BY CopiesAgreeStep
<1>3. QED BY <1>1, <1>2, TypeCorrect, PTL DEF Spec

\* No deployment ever issues an authority for a decision whose evidence was
\* blocked or contradictory when it was evaluated.
THEOREM BlockedEvidenceIsFinal == Spec => []BlockedNeverAuthorised
<1>1. CopiesAgree => BlockedNeverAuthorised
  BY DEF CopiesAgree, BlockedNeverAuthorised
<1>2. QED BY <1>1, EvidenceAgreement, PTL

-----------------------------------------------------------------------------
(* Safe deployments: the reservation marks the row, approvals do not       *)
(* overlap.                                                                *)

\* A transaction adds one event to the history of one decision.
LEMMA OccursWrite ==
    ASSUME TypeOK, NEW d \in Decisions, NEW rec, NEW event \in Events,
           Write(d, rec, event), NEW events
    PROVE  /\ Occurs(d, events)' = Occurs(d, events) \cup
                 (IF event \in events THEN {Len(audit[d]) + 1} ELSE {})
           /\ \A e \in Decisions : e # d => Occurs(e, events)' = Occurs(e, events)
<1>1. audit[d] \in Seq(Events)
  BY DEF TypeOK
<1>2. /\ audit'[d] = Append(audit[d], event)
      /\ \A e \in Decisions : e # d => audit'[e] = audit[e]
  BY DEF Write, TypeOK
<1>3. /\ Len(audit'[d]) = Len(audit[d]) + 1
      /\ audit'[d][Len(audit[d]) + 1] = event
      /\ \A i \in 1..Len(audit[d]) : audit'[d][i] = audit[d][i]
  BY <1>1, <1>2
<1>4. Len(audit[d]) \in Nat
  BY <1>1
<1>5. 1..Len(audit'[d]) = (1..Len(audit[d])) \cup {Len(audit[d]) + 1}
  BY <1>3, <1>4
<1>6. Occurs(d, events)' = Occurs(d, events) \cup
          (IF event \in events THEN {Len(audit[d]) + 1} ELSE {})
  BY <1>3, <1>5, <1>4 DEF Occurs
<1>7. QED BY <1>2, <1>6 DEF Occurs

\* A transaction that writes a consistent record keeps every row consistent.
LEMMA WriteConsistent ==
    ASSUME TypeOK, RowsConsistent, NEW d \in Decisions, NEW rec \in Records,
           NEW event \in Events, Write(d, rec, event),
           rec.started => rec.decision = "ALLOW",
           rec.execution # "NONE" => rec.started,
           rec.authority => rec.execution # "NONE",
           rec.consumed <=> rec.execution \in {"EXECUTED", "RECONCILED"},
           rec.execution # "NONE" <=> issued'[d] # {},
           AtMostOne(issued'[d]),
           \A e \in Decisions : e # d => issued'[e] = issued[e],
           Occurs(d, FinalEvents) = {},
           event \in FinalEvents => rec.consumed
    PROVE  RowsConsistent'
<1>1. row'[d] = rec /\ \A e \in Decisions : e # d => row'[e] = row[e]
  BY DEF Write, TypeOK
<1>2. RowConsistent(d)'
  <2>1. Occurs(d, FinalEvents)' = IF event \in FinalEvents THEN {Len(audit[d]) + 1} ELSE {}
    BY OccursWrite
  <2>2. AtMostOne(Occurs(d, FinalEvents)')
    BY <2>1 DEF AtMostOne
  <2>3. Occurs(d, FinalEvents)' # {} => rec.consumed
    BY <2>1
  <2>4. QED BY <1>1, <2>2, <2>3 DEF RowConsistent, AtMostOne
<1>3. ASSUME NEW e \in Decisions, e # d PROVE RowConsistent(e)'
  <2>1. Occurs(e, FinalEvents)' = Occurs(e, FinalEvents)
    BY <1>3, OccursWrite
  <2>2. row'[e] = row[e] /\ issued'[e] = issued[e]
    BY <1>1, <1>3
  <2>3. RowConsistent(e)
    BY DEF RowsConsistent
  <2>4. QED BY <2>1, <2>2, <2>3 DEF RowConsistent, AtMostOne
<1>4. QED BY <1>2, <1>3 DEF RowsConsistent

\* A handler that writes a record the others can still use, and is done.
LEMMA WriteUsable ==
    ASSUME TypeOK, CopiesUsable, NEW r \in Requests, task[r].at \in InFlight,
           NEW rec \in Records, row' = [row EXCEPT ![task[r].on] = rec], Finish(r),
           \A q \in Requests \ {r} :
               task[q].at \in InFlight /\ task[q].on = task[r].on => Usable(task[q], rec)
    PROVE  CopiesUsable'
<1>1. task[r].on \in Decisions
  BY InFlightTask
<1>2. task'[r] = Done /\ \A q \in Requests \ {r} : task'[q] = task[q]
  BY DEF Finish, TypeOK
<1>3. ASSUME NEW q \in Requests PROVE Usable(task'[q], row'[task'[q].on])
  <2>1. CASE q = r
    BY <1>2, <2>1 DEF Usable, Done
  <2>2. CASE q # r /\ task[q].at \notin InFlight
    BY <1>2, <2>2 DEF Usable, InFlight
  <2>3. CASE q # r /\ task[q].at \in InFlight /\ task[q].on = task[r].on
    BY <1>1, <1>2, <2>3 DEF TypeOK
  <2>4. CASE q # r /\ task[q].at \in InFlight /\ task[q].on # task[r].on
    <3>1. task[q].on \in Decisions /\ row'[task[q].on] = row[task[q].on]
      BY <1>1, <2>4, InFlightTask DEF TypeOK
    <3>2. QED BY <1>2, <2>4, <3>1 DEF CopiesUsable
  <2>5. QED BY <2>1, <2>2, <2>3, <2>4
<1>4. ASSUME NEW q \in Requests, task'[q].at \in {"approve", "save"}, NEW p \in Requests,
             task'[p].at = task'[q].at, task'[p].on = task'[q].on
      PROVE  p = q
  BY <1>2, <1>4 DEF CopiesUsable, Done
<1>5. QED BY <1>3, <1>4 DEF CopiesUsable

\* A handler that has just loaded the row may rely on its copy.
LEMMA LoadUsable ==
    ASSUME TypeOK, CopiesUsable, NEW r \in Requests, NEW d \in Decisions,
           NEW stage \in InFlight \ {"save"}, Begin(r, stage, d, row[d]), UNCHANGED row,
           Usable(Task(stage, d, row[d]), row[d]),
           stage = "approve" => \A q \in Requests : ~(At(q, "approve") /\ task[q].on = d)
    PROVE  CopiesUsable'
<1>1. /\ task'[r] = Task(stage, d, row[d])
      /\ \A q \in Requests \ {r} : task'[q] = task[q]
  BY DEF Begin, TypeOK
<1>2. task'[r].at = stage /\ task'[r].on = d
  BY <1>1 DEF Task
<1>3. ASSUME NEW q \in Requests PROVE Usable(task'[q], row'[task'[q].on])
  BY <1>1, <1>2 DEF CopiesUsable
<1>4. ASSUME NEW q \in Requests, task'[q].at \in {"approve", "save"}, NEW p \in Requests,
             task'[p].at = task'[q].at, task'[p].on = task'[q].on
      PROVE  p = q
  BY <1>1, <1>2, <1>4 DEF CopiesUsable, At
<1>5. QED BY <1>3, <1>4 DEF CopiesUsable

\* A handler that passed its checks goes on with the copy it had.
LEMMA AdmitUsable ==
    ASSUME TypeOK, CopiesUsable, NEW r \in Requests,
           \/ At(r, "reserve") /\ Advance(r, "mark")
           \/ At(r, "execute") /\ Advance(r, "finalize"),
           UNCHANGED row
    PROVE  CopiesUsable'
<1>1. /\ task[r] \in [at : InFlight, on : Decisions, copy : Records, seen : Nat]
      /\ \A q \in Requests \ {r} : task'[q] = task[q]
  BY DEF TypeOK, Advance, At, Tasks, Idle, Done
<1>2. \/ task[r].at = "reserve" /\ task'[r] = [task[r] EXCEPT !.at = "mark"]
      \/ task[r].at = "execute" /\ task'[r] = [task[r] EXCEPT !.at = "finalize"]
  BY DEF TypeOK, Advance, At
<1>3. /\ \/ task[r].at = "reserve" /\ task'[r].at = "mark"
         \/ task[r].at = "execute" /\ task'[r].at = "finalize"
      /\ task'[r].on = task[r].on
      /\ task'[r].copy = task[r].copy
  BY <1>1, <1>2
<1>4. Usable(task[r], row[task[r].on])
  BY DEF CopiesUsable
<1>5. Usable(task'[r], row'[task'[r].on])
  BY <1>3, <1>4 DEF Usable
<1>6. ASSUME NEW q \in Requests PROVE Usable(task'[q], row'[task'[q].on])
  BY <1>1, <1>5 DEF CopiesUsable
<1>7. ASSUME NEW q \in Requests, task'[q].at \in {"approve", "save"}, NEW p \in Requests,
             task'[p].at = task'[q].at, task'[p].on = task'[q].on
      PROVE  p = q
  BY <1>1, <1>3, <1>7 DEF CopiesUsable
<1>8. QED BY <1>6, <1>7 DEF CopiesUsable

\* Every step of a safe deployment keeps the invariant.
LEMMA GateInvStep ==
    ASSUME TypeOK, GateInv, SafeDeployment, [Next]_vars
    PROVE  GateInv'
<1> USE DEF GateInv
<1> SUFFICES RowsConsistent' /\ CopiesUsable'
  BY CopiesAgreeStep
<1> DEFINE Same == UNCHANGED <<row, audit, issued>>
<1>0. ASSUME Same PROVE RowsConsistent'
  BY <1>0 DEF RowsConsistent, RowConsistent, Occurs, AtMostOne
<1>a. ASSUME NEW r \in Requests, task[r].at \in InFlight
      PROVE  /\ task[r].on \in Decisions /\ task[r].copy \in Records
             /\ row[task[r].on] \in Records
             /\ RowConsistent(task[r].on)
             /\ Usable(task[r], row[task[r].on])
  BY <1>a, InFlightTask DEF RowsConsistent, CopiesUsable, TypeOK
<1>b. ASSUME NEW d \in Decisions PROVE row[d] \in Records /\ RowConsistent(d)
  BY DEF RowsConsistent, TypeOK
<1>1. ASSUME NEW r \in Requests, NEW d \in Decisions, NEW verdict \in Verdicts,
             NEW blocked \in BOOLEAN, EvaluateRead(r, d, verdict, blocked)
      PROVE  RowsConsistent' /\ CopiesUsable'
  <2>1. PICK w \in BoundWorlds : Begin(r, "create", d, NewRecord(verdict, blocked, w))
    BY <1>1 DEF EvaluateRead
  <2>2. /\ task'[r].at = "create"
        /\ \A q \in Requests \ {r} : task'[q] = task[q]
    BY <2>1 DEF Begin, Task, TypeOK
  <2>3. UNCHANGED row
    BY <1>1 DEF EvaluateRead, store
  <2>4. CopiesUsable'
    BY <2>2, <2>3 DEF CopiesUsable, Usable
  <2>5. QED BY <1>1, <1>0, <2>4 DEF EvaluateRead, store
<1>2. ASSUME NEW r \in Requests, EvaluateSave(r)
      PROVE  RowsConsistent' /\ CopiesUsable'
  <2> DEFINE d == task[r].on
             rec == task[r].copy
  <2>1. task[r].at \in InFlight /\ At(r, "create") /\ d \in Decisions /\ rec \in Records
    BY <1>2, <1>a DEF EvaluateSave, At, InFlight
  <2>2. ~Exists(row[d]) /\ \A q \in Requests : task[q].on = d => q = r
    BY <2>1 DEF CopiesAgree
  <2>3. row[d] = Absent /\ issued[d] = {}
    BY <2>1, <2>2 DEF CopiesAgree
  <2>4. Occurs(d, FinalEvents) = {}
    BY <2>1, <2>3, <1>b DEF RowConsistent, Absent, NewRecord
  <2>5. /\ ~rec.started /\ ~rec.consumed /\ ~rec.authority
        /\ rec.execution = "NONE"
    <3>1. rec = NewRecord(rec.decision, rec.blocked, rec.world)
      BY <2>1 DEF CopiesAgree
    <3>2. PICK v, b, w : rec = NewRecord(v, b, w)
      BY <3>1
    <3>3. QED BY <3>2 DEF NewRecord
  <2>6. RowsConsistent'
    BY <1>2, <2>1, <2>3, <2>4, <2>5, WriteConsistent
       DEF EvaluateSave, Events, FinalEvents, AtMostOne
  <2>7. CopiesUsable'
    BY <1>2, <2>1, <2>2, WriteUsable DEF EvaluateSave, Write
  <2>8. QED BY <2>6, <2>7
<1>3. ASSUME NEW r \in Requests, NEW d \in Decisions, ApproveLoad(r, d)
      PROVE  RowsConsistent' /\ CopiesUsable'
  <2>1. Usable(Task("approve", d, row[d]), row[d])
    BY <1>3 DEF ApproveLoad, Approvable, Usable, Task
  <2>2. CopiesUsable'
    BY <1>3, <2>1, LoadUsable DEF ApproveLoad, SafeDeployment, store, InFlight
  <2>3. QED BY <1>3, <1>0, <2>2 DEF ApproveLoad, store
<1>4. ASSUME NEW r \in Requests, NEW verdict \in {"ALLOW", "DENY"}, ApproveSave(r, verdict)
      PROVE  RowsConsistent' /\ CopiesUsable'
  <2> DEFINE d == task[r].on
             rec == Approved(task[r].copy, r, verdict)
  <2>1. task[r].at \in InFlight /\ task[r].at = "approve"
    BY <1>4 DEF ApproveSave, At, InFlight
  <2>2. /\ d \in Decisions /\ task[r].copy \in Records /\ row[d] \in Records
        /\ row[d].decision = "ASK" /\ task[r].copy = row[d]
    BY <2>1, <1>a DEF Usable
  <2>3. /\ ~row[d].started /\ row[d].execution = "NONE" /\ ~row[d].authority
        /\ ~row[d].consumed /\ issued[d] = {} /\ Occurs(d, FinalEvents) = {}
    BY <2>2, <1>b DEF RowConsistent
  <2>4. rec \in Records
    BY <2>2, RecordTypes DEF Verdicts
  <2>5. /\ rec.started = row[d].started /\ rec.execution = row[d].execution
        /\ rec.authority = row[d].authority /\ rec.consumed = row[d].consumed
    BY <2>2 DEF Approved, Records
  <2>6. RowsConsistent'
    BY <1>4, <2>2, <2>3, <2>4, <2>5, WriteConsistent
       DEF ApproveSave, Events, FinalEvents, AtMostOne
  <2>7. ASSUME NEW q \in Requests \ {r}, task[q].at \in InFlight, task[q].on = d
        PROVE  Usable(task[q], rec)
    <3>1. Usable(task[q], row[d])
      BY <2>7, <1>a
    <3>2. task[q].at # "approve"
      BY <2>1, <2>7 DEF CopiesUsable
    <3>3. task[q].at = "create"
      BY <3>1, <3>2, <2>2, <2>7 DEF Usable, InFlight
    <3>4. QED BY <3>3 DEF Usable
  <2>8. CopiesUsable'
    BY <1>4, <2>1, <2>4, <2>7, WriteUsable DEF ApproveSave, Write
  <2>9. QED BY <2>6, <2>8
<1>5. ASSUME NEW r \in Requests, NEW d \in Decisions, ReserveLoad(r, d)
      PROVE  RowsConsistent' /\ CopiesUsable'
  <2>1. Usable(Task("reserve", d, row[d]), row[d])
    BY <1>5, <1>b DEF ReserveLoad, Live, RowConsistent, Usable, Task
  <2>2. CopiesUsable'
    BY <1>5, <2>1, LoadUsable DEF ReserveLoad, store, InFlight
  <2>3. QED BY <1>5, <1>0, <2>2 DEF ReserveLoad, store
<1>6. ASSUME NEW r \in Requests, ReserveAdmit(r)
      PROVE  RowsConsistent' /\ CopiesUsable'
  BY <1>6, <1>0, AdmitUsable DEF ReserveAdmit, store
<1>7. ASSUME NEW r \in Requests, ReserveMark(r)
      PROVE  RowsConsistent' /\ CopiesUsable'
  <2> DEFINE d == task[r].on
             rec == Marked(row[d])
  <2>1. task[r].at \in InFlight /\ task[r].at = "mark"
    BY <1>7 DEF ReserveMark, At, InFlight
  <2>2. /\ d \in Decisions /\ task[r].copy \in Records /\ row[d] \in Records
        /\ Usable(task[r], row[d]) /\ RowConsistent(d)
    BY <2>1, <1>a
  <2>3. ~row[d].started /\ ~row[d].consumed /\ row[d].execution = "NONE"
    BY <1>7, <2>2 DEF ReserveMark, Reservable, RowConsistent
  <2>4. rec = [row[d] EXCEPT !.started = TRUE]
    BY DEF Marked, SafeDeployment
  <2>5. /\ rec.started
        /\ rec.decision = row[d].decision /\ rec.execution = row[d].execution
        /\ rec.authority = row[d].authority /\ rec.consumed = row[d].consumed
    BY <2>2, <2>4 DEF Records
  <2>6. row'[d] = rec /\ \A e \in Decisions : e # d => row'[e] = row[e]
    BY <1>7, <2>2 DEF ReserveMark, TypeOK
  <2>7. row[d].decision = "ALLOW"
    BY <2>1, <2>2 DEF Usable
  <2>8. RowsConsistent'
    <3>1. UNCHANGED <<audit, issued>>
      BY <1>7 DEF ReserveMark
    <3>2. \A e \in Decisions : Occurs(e, FinalEvents)' = Occurs(e, FinalEvents)
      BY <3>1 DEF Occurs
    <3>3. ASSUME NEW e \in Decisions, e = d PROVE RowConsistent(e)'
      <4>1. row'[e].started /\ row'[e].decision = "ALLOW" /\ issued'[e] = issued[e]
        BY <3>1, <3>3, <2>5, <2>6, <2>7
      <4>2. /\ row'[e].execution = row[e].execution /\ row'[e].authority = row[e].authority
            /\ row'[e].consumed = row[e].consumed
        BY <3>3, <2>5, <2>6
      <4>3. Occurs(e, FinalEvents)' = Occurs(e, FinalEvents)
        BY <3>2
      <4>4. RowConsistent(e)
        BY <1>b
      <4>5. QED BY <4>1, <4>2, <4>3, <4>4 DEF RowConsistent, AtMostOne
    <3>4. ASSUME NEW e \in Decisions, e # d PROVE RowConsistent(e)'
      <4>1. row'[e] = row[e] /\ issued'[e] = issued[e]
        BY <3>1, <3>4, <2>6
      <4>2. Occurs(e, FinalEvents)' = Occurs(e, FinalEvents)
        BY <3>2
      <4>3. RowConsistent(e)
        BY <1>b
      <4>4. QED BY <4>1, <4>2, <4>3 DEF RowConsistent, AtMostOne
    <3>5. QED BY <3>3, <3>4 DEF RowsConsistent
  <2>9. /\ task'[r] = [task[r] EXCEPT !.at = "save"]
        /\ \A q \in Requests \ {r} : task'[q] = task[q]
    BY <1>7 DEF ReserveMark, Advance, TypeOK
  <2>10. /\ task'[r].at = "save" /\ task'[r].on = d /\ task'[r].copy = task[r].copy
    BY <2>1, <2>9 DEF TypeOK, Tasks, Idle, Done, InFlight
  <2>11. Usable(task'[r], rec)
    BY <2>1, <2>2, <2>3, <2>5, <2>10 DEF Usable
  <2>12. ASSUME NEW q \in Requests \ {r}, task[q].on = d
         PROVE  Usable(task[q], rec) /\ task[q].at # "save"
    <3>1. Usable(task[q], row[d])
      BY <2>12 DEF CopiesUsable
    <3>2. task[q].at \notin {"approve", "save", "execute", "finalize"}
      BY <3>1, <2>3, <2>7 DEF Usable
    <3>3. QED BY <3>1, <3>2, <2>5 DEF Usable
  <2>13. ASSUME NEW q \in Requests \ {r}, task[q].on # d
         PROVE  Usable(task[q], row'[task[q].on])
    <3>1. CASE task[q].at \in InFlight
      BY <3>1, <2>6, <2>13, <1>a
    <3>2. CASE task[q].at \notin InFlight
      BY <3>2 DEF Usable, InFlight
    <3>3. QED BY <3>1, <3>2
  <2>14. ASSUME NEW q \in Requests PROVE Usable(task'[q], row'[task'[q].on])
    <3>1. CASE q = r
      BY <3>1, <2>2, <2>6, <2>10, <2>11
    <3>2. CASE q # r /\ task[q].on = d
      BY <3>2, <2>2, <2>6, <2>9, <2>12
    <3>3. CASE q # r /\ task[q].on # d
      BY <3>3, <2>9, <2>13
    <3>4. QED BY <3>1, <3>2, <3>3
  <2>15. ASSUME NEW q \in Requests, task'[q].at \in {"approve", "save"}, NEW p \in Requests,
                task'[p].at = task'[q].at, task'[p].on = task'[q].on
         PROVE  p = q
    <3>1. CASE q = r \/ p = r
      BY <3>1, <2>9, <2>10, <2>12, <2>15
    <3>2. CASE q # r /\ p # r
      BY <3>2, <2>9, <2>15 DEF CopiesUsable
    <3>3. QED BY <3>1, <3>2
  <2>16. QED BY <2>8, <2>14, <2>15 DEF CopiesUsable
<1>8. ASSUME NEW r \in Requests, ReserveSave(r)
      PROVE  RowsConsistent' /\ CopiesUsable'
  <2> DEFINE d == task[r].on
             rec == Reserved(task[r].copy)
  <2>1. task[r].at \in InFlight /\ task[r].at = "save"
    BY <1>8 DEF ReserveSave, At, InFlight
  <2>2. /\ d \in Decisions /\ task[r].copy \in Records /\ row[d] \in Records
        /\ Usable(task[r], row[d]) /\ RowConsistent(d)
    BY <2>1, <1>a
  <2>3. /\ row[d].execution = "NONE" /\ row[d].decision = "ALLOW"
        /\ task[r].copy.decision = "ALLOW" /\ ~task[r].copy.consumed
    BY <2>1, <2>2 DEF Usable
  <2>4. issued[d] = {} /\ Occurs(d, FinalEvents) = {}
    BY <2>2, <2>3 DEF RowConsistent
  <2>5. /\ rec \in Records /\ rec.started /\ rec.decision = "ALLOW"
        /\ rec.execution = "RESERVED" /\ ~rec.consumed
    BY <2>2, <2>3, RecordTypes DEF Reserved, Records
  <2>6. issued'[d] = {r} /\ \A e \in Decisions : e # d => issued'[e] = issued[e]
    BY <1>8, <2>2, <2>4 DEF ReserveSave, TypeOK
  <2>7. RowsConsistent'
    BY <1>8, <2>2, <2>4, <2>5, <2>6, WriteConsistent
       DEF ReserveSave, Events, FinalEvents, AtMostOne
  <2>8. ASSUME NEW q \in Requests \ {r}, task[q].at \in InFlight, task[q].on = d
        PROVE  Usable(task[q], rec)
    <3>1. Usable(task[q], row[d])
      BY <2>8, <1>a
    <3>2. task[q].at # "save"
      BY <2>1, <2>8 DEF CopiesUsable
    <3>3. task[q].at # "approve"
      BY <3>1, <2>3 DEF Usable
    <3>4. QED BY <3>1, <3>2, <3>3, <2>5 DEF Usable
  <2>9. CopiesUsable'
    BY <1>8, <2>1, <2>5, <2>8, WriteUsable DEF ReserveSave, Write
  <2>10. QED BY <2>7, <2>9
<1>9. ASSUME NEW r \in Requests, NEW d \in Decisions, ExecuteLoad(r, d)
      PROVE  RowsConsistent' /\ CopiesUsable'
  <2>1. Usable(Task("execute", d, row[d]), row[d])
    BY <1>9, <1>b DEF ExecuteLoad, Live, RowConsistent, Usable, Task
  <2>2. CopiesUsable'
    BY <1>9, <2>1, LoadUsable DEF ExecuteLoad, store, InFlight
  <2>3. QED BY <1>9, <1>0, <2>2 DEF ExecuteLoad, store
<1>10. ASSUME NEW r \in Requests, ExecuteAdmit(r)
      PROVE  RowsConsistent' /\ CopiesUsable'
  BY <1>10, <1>0, AdmitUsable DEF ExecuteAdmit, store
<1>11. ASSUME NEW r \in Requests, Finalize(r)
      PROVE  RowsConsistent' /\ CopiesUsable'
  <2> DEFINE d == task[r].on
             rec == Finalized(row[d])
  <2>1. task[r].at \in InFlight /\ task[r].at = "finalize"
    BY <1>11 DEF Finalize, At, InFlight
  <2>2. /\ d \in Decisions /\ row[d] \in Records
        /\ Usable(task[r], row[d]) /\ RowConsistent(d)
    BY <2>1, <1>a
  <2>3. /\ row[d].decision = "ALLOW" /\ row[d].execution # "NONE"
        /\ row[d].started /\ ~row[d].consumed
    BY <1>11, <2>1, <2>2 DEF Usable, Finalize, Finalizable
  <2>4. issued[d] # {} /\ AtMostOne(issued[d]) /\ Occurs(d, FinalEvents) = {}
    BY <2>2, <2>3 DEF RowConsistent
  <2>5. /\ rec \in Records /\ rec.started /\ rec.decision = "ALLOW"
        /\ rec.execution = "EXECUTED" /\ rec.consumed
    BY <2>2, <2>3, RecordTypes DEF Finalized, Records
  <2>6. issued' = issued
    BY <1>11 DEF Finalize
  <2>7. RowsConsistent'
    BY <1>11, <2>2, <2>4, <2>5, <2>6, WriteConsistent
       DEF Finalize, Events, FinalEvents, AtMostOne
  <2>8. ASSUME NEW q \in Requests \ {r}, task[q].at \in InFlight, task[q].on = d
        PROVE  Usable(task[q], rec)
    <3>1. Usable(task[q], row[d])
      BY <2>8, <1>a
    <3>2. task[q].at \notin {"approve", "save"}
      BY <3>1, <2>3 DEF Usable
    <3>3. QED BY <3>1, <3>2, <2>5 DEF Usable
  <2>9. CopiesUsable'
    BY <1>11, <2>1, <2>5, <2>8, WriteUsable DEF Finalize, Write
  <2>10. QED BY <2>7, <2>9
<1>12. ASSUME NEW r \in Requests, NEW d \in Decisions, ReconcileLoad(r, d)
      PROVE  RowsConsistent' /\ CopiesUsable'
  <2>1. Usable(Task("reconcile", d, row[d]), row[d])
    BY <1>12, <1>b DEF ReconcileLoad, Live, RowConsistent, Usable, Task
  <2>2. CopiesUsable'
    BY <1>12, <2>1, LoadUsable DEF ReconcileLoad, store, InFlight
  <2>3. QED BY <1>12, <1>0, <2>2 DEF ReconcileLoad, store
<1>13. ASSUME NEW r \in Requests, Reconcile(r)
      PROVE  RowsConsistent' /\ CopiesUsable'
  <2> DEFINE d == task[r].on
             rec == Reconciled(task[r].copy)
  <2>1. task[r].at \in InFlight /\ task[r].at = "reconcile"
    BY <1>13 DEF Reconcile, At, InFlight
  <2>2. /\ d \in Decisions /\ task[r].copy \in Records /\ row[d] \in Records
        /\ Usable(task[r], row[d]) /\ RowConsistent(d)
    BY <2>1, <1>a
  <2>3. /\ row[d].execution # "NONE" /\ row[d].started /\ ~row[d].consumed
        /\ row[d].decision = "ALLOW"
        /\ task[r].copy.started /\ task[r].copy.decision = "ALLOW"
    BY <1>13, <2>1, <2>2 DEF Usable, Reconcile, Finalizable, Reconcilable
  <2>4. issued[d] # {} /\ AtMostOne(issued[d]) /\ Occurs(d, FinalEvents) = {}
    BY <2>2, <2>3 DEF RowConsistent
  <2>5. /\ rec \in Records /\ rec.started /\ rec.decision = "ALLOW"
        /\ rec.execution = "RECONCILED" /\ rec.consumed
    BY <2>2, <2>3, RecordTypes DEF Reconciled, Records
  <2>6. issued' = issued
    BY <1>13 DEF Reconcile
  <2>7. RowsConsistent'
    BY <1>13, <2>2, <2>4, <2>5, <2>6, WriteConsistent
       DEF Reconcile, Events, FinalEvents, AtMostOne
  <2>8. ASSUME NEW q \in Requests \ {r}, task[q].at \in InFlight, task[q].on = d
        PROVE  Usable(task[q], rec)
    <3>1. Usable(task[q], row[d])
      BY <2>8, <1>a
    <3>2. task[q].at \notin {"approve", "save"}
      BY <3>1, <2>3 DEF Usable
    <3>3. QED BY <3>1, <3>2, <2>5 DEF Usable
  <2>9. CopiesUsable'
    BY <1>13, <2>1, <2>5, <2>8, WriteUsable DEF Reconcile, Write
  <2>10. QED BY <2>7, <2>9
<1>14. ASSUME NEW r \in Requests, Abandon(r)
      PROVE  RowsConsistent' /\ CopiesUsable'
  <2>1. task'[r] = Done /\ \A q \in Requests \ {r} : task'[q] = task[q]
    BY <1>14 DEF Abandon, Finish, TypeOK
  <2>2. UNCHANGED row
    BY <1>14 DEF Abandon, store
  <2>3. CopiesUsable'
    BY <2>1, <2>2 DEF CopiesUsable, Usable, Done
  <2>4. QED BY <1>14, <1>0, <2>3 DEF Abandon, store
<1>15. ASSUME Environment PROVE RowsConsistent' /\ CopiesUsable'
  <2>1. UNCHANGED <<row, audit, issued, task>>
    BY <1>15 DEF Environment, ExpireDecision, LapseApproval, CommitWorld, store
  <2>2. QED BY <2>1, <1>0 DEF CopiesUsable
<1>16. CASE UNCHANGED vars
  BY <1>16, <1>0 DEF vars, store, CopiesUsable
<1>17. QED
  BY <1>1, <1>2, <1>3, <1>4, <1>5, <1>6, <1>7, <1>8, <1>9, <1>10, <1>11, <1>12,
     <1>13, <1>14, <1>15, <1>16
     DEF Next, Evaluate, Approve, Reserve, Execute, ReconcileExecution

\* The invariant of a safe deployment, from the first state on.
THEOREM GateInvariant == ASSUME SafeDeployment PROVE Spec => []GateInv
<1>1. Init => GateInv
  <2> SUFFICES ASSUME Init PROVE GateInv
    OBVIOUS
  <2>1. \A d \in Decisions : row[d] = Absent /\ issued[d] = {} /\ audit[d] = <<>>
    BY DEF Init
  <2>2. \A r \in Requests : task[r].at = "idle"
    BY DEF Init, Idle
  <2>3. CopiesAgree
    BY <2>1, <2>2 DEF CopiesAgree, At, InFlight
  <2>4. ASSUME NEW d \in Decisions PROVE RowConsistent(d)
    <3>1. Len(audit[d]) = 0
      BY <2>1
    <3>2. Occurs(d, FinalEvents) = {}
      BY <3>1 DEF Occurs
    <3>3. /\ ~row[d].started /\ ~row[d].authority /\ ~row[d].consumed
          /\ row[d].execution = "NONE"
      BY <2>1 DEF Absent, NewRecord
    <3>4. QED BY <2>1, <3>2, <3>3 DEF RowConsistent, AtMostOne
  <2>5. RowsConsistent
    BY <2>4 DEF RowsConsistent
  <2>6. CopiesUsable
    BY <2>2 DEF CopiesUsable, Usable
  <2>7. QED BY <2>3, <2>5, <2>6 DEF GateInv
<1>2. TypeOK /\ GateInv /\ [Next]_vars => GateInv'
  BY GateInvStep
<1>3. QED BY <1>1, <1>2, TypeCorrect, PTL DEF Spec

\* A reservation that really marks its row, and approvals that do not overlap,
\* are enough for the one-time authority, with any number of decisions and of
\* racing, repeated or abandoned requests.
THEOREM OneAuthority == ASSUME SafeDeployment PROVE Spec => []SingleReservation
<1>1. GateInv => SingleReservation
  BY DEF GateInv, RowsConsistent, RowConsistent, SingleReservation
<1>2. QED BY <1>1, GateInvariant, PTL

\* ... and for a single settlement: finalising and reconciling exclude each
\* other and themselves.
THEOREM OneSettlement == ASSUME SafeDeployment PROVE Spec => []SettledOnce
<1>1. GateInv => SettledOnce
  BY DEF GateInv, RowsConsistent, RowConsistent, SettledOnce
<1>2. QED BY <1>1, GateInvariant, PTL

-----------------------------------------------------------------------------
(* ExecutionGate implements DecisionLifecycle and keeps its action         *)
(* property in a safe deployment; worlds and reconciliations are right in  *)
(* every deployment.                                                       *)


\* The phase of a record, condition by condition.
LEMMA PhaseOf ==
    ASSUME NEW rec \in Records
    PROVE  /\ rec.consumed /\ rec.execution = "RECONCILED" => Phase(rec) = "reconciled"
           /\ rec.consumed /\ rec.execution # "RECONCILED" => Phase(rec) = "executed"
           /\ ~rec.consumed /\ rec.started => Phase(rec) = "reserved"
           /\ ~rec.consumed /\ ~rec.started =>
                 /\ rec.decision = "ABSENT" => Phase(rec) = "absent"
                 /\ rec.decision = "ASK" => Phase(rec) = "asked"
                 /\ rec.decision = "ALLOW" => Phase(rec) = "permitted"
                 /\ rec.decision \in {"DENY", "SANDBOX"} => Phase(rec) = "refused"
<1>1. rec.consumed \in BOOLEAN /\ rec.started \in BOOLEAN
  BY DEF Records
<1>2. CASE rec.consumed
  BY <1>1, <1>2 DEF Phase
<1>3. CASE ~rec.consumed /\ rec.started
  BY <1>1, <1>3 DEF Phase
<1>4. CASE ~rec.consumed /\ ~rec.started
  BY <1>1, <1>4 DEF Phase
<1>5. QED BY <1>1, <1>2, <1>3, <1>4

PhaseFunction == [d \in Decisions |-> Phase(row[d])]

\* A transaction on one record is a move of that decision, or no move.
LEMMA WriteMoves ==
    ASSUME TypeOK, NEW d \in Decisions, NEW rec, row' = [row EXCEPT ![d] = rec],
           Phase(rec) = Phase(row[d]) \/ <<Phase(row[d]), Phase(rec)>> \in Lifecycle!Moves
    PROVE  Lifecycle!Next \/ PhaseFunction' = PhaseFunction
<1>1. \A e \in Decisions : row'[e] = IF e = d THEN rec ELSE row[e]
  BY DEF TypeOK
<1>2. CASE Phase(rec) = Phase(row[d])
  BY <1>1, <1>2 DEF PhaseFunction
<1>3. CASE <<Phase(row[d]), Phase(rec)>> \in Lifecycle!Moves
  <2>1. PICK p : p = Phase(rec)
    OBVIOUS
  <2>2. PhaseFunction' = [PhaseFunction EXCEPT ![d] = p]
    <3>1. \A e \in Decisions : PhaseFunction'[e] = Phase(row'[e])
      BY DEF PhaseFunction
    <3>2. \A e \in Decisions : PhaseFunction'[e] = IF e = d THEN p ELSE PhaseFunction[e]
      BY <1>1, <2>1, <3>1 DEF PhaseFunction
    <3>3. PhaseFunction' = [e \in Decisions |-> PhaseFunction'[e]]
      BY DEF PhaseFunction
    <3>4. QED BY <3>2, <3>3 DEF PhaseFunction
  <2>3. <<PhaseFunction[d], p>> \in Lifecycle!Moves
    BY <1>3, <2>1 DEF PhaseFunction
  <2>4. p \in Lifecycle!Phases
    BY <2>3 DEF Lifecycle!Moves, Lifecycle!Phases
  <2>5. Lifecycle!Move(d, p)
    BY <2>2, <2>3 DEF Lifecycle!Move, PhaseFunction
  <2>6. QED BY <2>4, <2>5 DEF Lifecycle!Next
<1>4. QED BY <1>2, <1>3

\* Every step of a safe deployment is a move of one decision, or no move.
LEMMA LifecycleStep ==
    ASSUME SafeDeployment, TypeOK, GateInv, [Next]_vars
    PROVE  Lifecycle!Next \/ PhaseFunction' = PhaseFunction
<1>a. ASSUME NEW r \in Requests, task[r].at \in InFlight
      PROVE  /\ task[r].on \in Decisions /\ task[r].copy \in Records
             /\ row[task[r].on] \in Records
             /\ Usable(task[r], row[task[r].on]) /\ RowConsistent(task[r].on)
  BY <1>a, InFlightTask DEF TypeOK, GateInv, CopiesUsable, RowsConsistent
<1>0. ASSUME row' = row PROVE PhaseFunction' = PhaseFunction
  BY <1>0 DEF PhaseFunction
<1>1. ASSUME NEW r \in Requests, EvaluateSave(r)
      PROVE  Lifecycle!Next \/ PhaseFunction' = PhaseFunction
  <2> DEFINE d == task[r].on
             rec == task[r].copy
  <2>1. task[r].at \in InFlight /\ At(r, "create")
    BY <1>1 DEF EvaluateSave, At, InFlight
  <2>2. d \in Decisions /\ rec \in Records
    BY <2>1, <1>a
  <2>3. row[d] = Absent /\ Exists(rec)
        /\ rec = NewRecord(rec.decision, rec.blocked, rec.world)
    BY <2>1, <2>2 DEF GateInv, CopiesAgree
  <2>4. Phase(row[d]) = "absent"
    BY <2>3, AbsentType, PhaseOf DEF Absent, NewRecord
  <2>5. Phase(rec) \in {"asked", "permitted", "refused"}
    <3>1. ~rec.consumed /\ ~rec.started
      BY <2>3 DEF NewRecord
    <3>2. rec.decision \in Verdicts
      BY <2>2, <2>3 DEF Records, Exists
    <3>3. QED BY <2>2, <3>1, <3>2, PhaseOf DEF Verdicts
  <2>6. row' = [row EXCEPT ![d] = rec]
    BY <1>1 DEF EvaluateSave, Write
  <2>7. QED BY <2>2, <2>4, <2>5, <2>6, WriteMoves DEF Lifecycle!Moves
<1>2. ASSUME NEW r \in Requests, NEW v \in {"ALLOW", "DENY"}, ApproveSave(r, v)
      PROVE  Lifecycle!Next \/ PhaseFunction' = PhaseFunction
  <2> DEFINE d == task[r].on
             rec == Approved(task[r].copy, r, v)
  <2>1. task[r].at \in InFlight /\ task[r].at = "approve"
    BY <1>2 DEF ApproveSave, At, InFlight
  <2>2. /\ d \in Decisions /\ task[r].copy \in Records /\ row[d] \in Records
        /\ Usable(task[r], row[d]) /\ RowConsistent(d)
    BY <2>1, <1>a
  <2>3. /\ row[d].decision = "ASK" /\ task[r].copy = row[d]
        /\ ~row[d].started /\ ~row[d].consumed
    BY <2>1, <2>2 DEF Usable, RowConsistent
  <2>4. rec \in Records /\ rec.decision = v /\ ~rec.started /\ ~rec.consumed
    BY <2>2, <2>3, RecordTypes DEF Approved, Records, Verdicts
  <2>5. Phase(row[d]) = "asked" /\ Phase(rec) \in {"permitted", "refused"}
    BY <2>2, <2>3, <2>4, PhaseOf
  <2>6. row' = [row EXCEPT ![d] = rec]
    BY <1>2 DEF ApproveSave, Write
  <2>7. QED BY <2>2, <2>5, <2>6, WriteMoves DEF Lifecycle!Moves
<1>3. ASSUME NEW r \in Requests, ReserveMark(r)
      PROVE  Lifecycle!Next \/ PhaseFunction' = PhaseFunction
  <2> DEFINE d == task[r].on
             rec == Marked(row[d])
  <2>1. task[r].at \in InFlight /\ task[r].at = "mark"
    BY <1>3 DEF ReserveMark, At, InFlight
  <2>2. d \in Decisions /\ row[d] \in Records /\ Usable(task[r], row[d])
    BY <2>1, <1>a
  <2>3. ~row[d].started /\ ~row[d].consumed /\ row[d].decision = "ALLOW"
    BY <1>3, <2>1, <2>2 DEF ReserveMark, Reservable, Usable
  <2>4. rec = [row[d] EXCEPT !.started = TRUE]
    BY DEF Marked, SafeDeployment
  <2>5. rec \in Records /\ rec.started /\ ~rec.consumed
    BY <2>2, <2>3, <2>4, RecordTypes DEF Records
  <2>6. Phase(row[d]) = "permitted" /\ Phase(rec) = "reserved"
    BY <2>2, <2>3, <2>5, PhaseOf
  <2>7. row' = [row EXCEPT ![d] = rec]
    BY <1>3 DEF ReserveMark
  <2>8. QED BY <2>2, <2>6, <2>7, WriteMoves DEF Lifecycle!Moves
<1>4. ASSUME NEW r \in Requests, ReserveSave(r)
      PROVE  Lifecycle!Next \/ PhaseFunction' = PhaseFunction
  <2> DEFINE d == task[r].on
             rec == Reserved(task[r].copy)
  <2>1. task[r].at \in InFlight /\ task[r].at = "save"
    BY <1>4 DEF ReserveSave, At, InFlight
  <2>2. /\ d \in Decisions /\ task[r].copy \in Records /\ row[d] \in Records
        /\ Usable(task[r], row[d]) /\ RowConsistent(d)
    BY <2>1, <1>a
  <2>3. row[d].started /\ ~row[d].consumed /\ ~task[r].copy.consumed
    BY <2>1, <2>2 DEF Usable, RowConsistent
  <2>4. rec \in Records /\ rec.started /\ ~rec.consumed
    BY <2>2, <2>3, RecordTypes DEF Reserved, Records
  <2>5. Phase(row[d]) = "reserved" /\ Phase(rec) = "reserved"
    BY <2>2, <2>3, <2>4, PhaseOf
  <2>6. row' = [row EXCEPT ![d] = rec]
    BY <1>4 DEF ReserveSave, Write
  <2>7. QED BY <2>2, <2>5, <2>6, WriteMoves
<1>5. ASSUME NEW r \in Requests, Finalize(r)
      PROVE  Lifecycle!Next \/ PhaseFunction' = PhaseFunction
  <2> DEFINE d == task[r].on
             rec == Finalized(row[d])
  <2>1. task[r].at \in InFlight
    BY <1>5 DEF Finalize, At, InFlight
  <2>2. d \in Decisions /\ row[d] \in Records
    BY <2>1, <1>a
  <2>3. row[d].started /\ ~row[d].consumed
    BY <1>5 DEF Finalize, Finalizable
  <2>4. rec \in Records /\ rec.consumed /\ rec.execution = "EXECUTED"
    BY <2>2, RecordTypes DEF Finalized, Records
  <2>5. Phase(row[d]) = "reserved" /\ Phase(rec) = "executed"
    BY <2>2, <2>3, <2>4, PhaseOf
  <2>6. row' = [row EXCEPT ![d] = rec]
    BY <1>5 DEF Finalize, Write
  <2>7. QED BY <2>2, <2>5, <2>6, WriteMoves DEF Lifecycle!Moves
<1>6. ASSUME NEW r \in Requests, Reconcile(r)
      PROVE  Lifecycle!Next \/ PhaseFunction' = PhaseFunction
  <2> DEFINE d == task[r].on
             rec == Reconciled(task[r].copy)
  <2>1. task[r].at \in InFlight
    BY <1>6 DEF Reconcile, At, InFlight
  <2>2. d \in Decisions /\ row[d] \in Records /\ task[r].copy \in Records
    BY <2>1, <1>a
  <2>3. row[d].started /\ ~row[d].consumed
    BY <1>6 DEF Reconcile, Finalizable
  <2>4. rec \in Records /\ rec.consumed /\ rec.execution = "RECONCILED"
    BY <2>2, RecordTypes DEF Reconciled, Records
  <2>5. Phase(row[d]) = "reserved" /\ Phase(rec) = "reconciled"
    BY <2>2, <2>3, <2>4, PhaseOf
  <2>6. row' = [row EXCEPT ![d] = rec]
    BY <1>6 DEF Reconcile, Write
  <2>7. QED BY <2>2, <2>5, <2>6, WriteMoves DEF Lifecycle!Moves
<1>7. ASSUME NEW r \in Requests,
             \/ \E d \in Decisions, verdict \in Verdicts, blocked \in BOOLEAN :
                    EvaluateRead(r, d, verdict, blocked)
             \/ \E d \in Decisions : ApproveLoad(r, d)
             \/ \E d \in Decisions : ReserveLoad(r, d)
             \/ ReserveAdmit(r)
             \/ \E d \in Decisions : ExecuteLoad(r, d)
             \/ ExecuteAdmit(r)
             \/ \E d \in Decisions : ReconcileLoad(r, d)
             \/ Abandon(r)
      PROVE  row' = row
  BY <1>7
     DEF EvaluateRead, ApproveLoad, ReserveLoad, ReserveAdmit, ExecuteLoad, ExecuteAdmit,
         ReconcileLoad, Abandon, store
<1>8. ASSUME Environment \/ UNCHANGED vars PROVE row' = row
  BY <1>8 DEF Environment, ExpireDecision, LapseApproval, CommitWorld, vars, store
<1>9. QED
  BY <1>0, <1>1, <1>2, <1>3, <1>4, <1>5, <1>6, <1>7, <1>8
     DEF Next, Evaluate, Approve, Reserve, Execute, ReconcileExecution

\* The decision records of a safe deployment implement the one-way lifecycle.
THEOREM GateRefinement == ASSUME SafeDeployment PROVE Spec => LifecycleSpec
<1>1. Init => Lifecycle!Init
  <2> SUFFICES ASSUME Init PROVE Lifecycle!Init
    OBVIOUS
  <2>1. \A d \in Decisions : Phase(row[d]) = "absent"
    BY AbsentType, PhaseOf DEF Init, Absent, NewRecord
  <2>2. QED BY <2>1 DEF Lifecycle!Init
<1>2. TypeOK /\ GateInv /\ [Next]_vars => [Lifecycle!Next]_PhaseFunction
  BY LifecycleStep
<1>3. QED
  BY <1>1, <1>2, TypeCorrect, GateInvariant, PTL
     DEF Spec, LifecycleSpec, Lifecycle!Spec, PhaseFunction

-----------------------------------------------------------------------------

\* Every step keeps an interrupted reservation interrupted: it has no
\* authority to execute, no status to reconcile, and is marked.
LEMMA InterruptedStep ==
    ASSUME TypeOK, GateInv, [Next]_vars, NEW d \in Decisions, Interrupted(d)
    PROVE  Interrupted(d)'
<1>a. ASSUME NEW r \in Requests, task[r].at \in InFlight, task[r].on = d
      PROVE  Usable(task[r], row[d]) /\ RowConsistent(d) /\ task[r].at # "save"
  BY <1>a DEF GateInv, CopiesUsable, RowsConsistent, Interrupted, At
<1>0. ASSUME row'[d] = row[d],
             \A r \in Requests : ~(task'[r].at = "save" /\ task'[r].on = d)
      PROVE  Interrupted(d)'
  BY <1>0 DEF Interrupted, At
<1>b. ASSUME NEW r \in Requests, NEW rec, row' = [row EXCEPT ![task[r].on] = rec],
             task[r].on # d, Finish(r)
      PROVE  Interrupted(d)'
  <2>1. row'[d] = row[d]
    BY <1>b DEF TypeOK
  <2>2. \A q \in Requests : task'[q].at = "save" => task'[q] = task[q]
    BY <1>b DEF Finish, Done, TypeOK
  <2>3. QED BY <1>0, <2>1, <2>2 DEF Interrupted, At
<1>1. ASSUME NEW r \in Requests, EvaluateSave(r) PROVE Interrupted(d)'
  <2>1. task[r].at \in InFlight /\ At(r, "create")
    BY <1>1 DEF EvaluateSave, At, InFlight
  <2>2. row[task[r].on] = Absent
    BY <2>1, InFlightTask DEF GateInv, CopiesAgree
  <2>3. task[r].on # d
    BY <2>2 DEF Interrupted, Absent, NewRecord
  <2>4. QED BY <1>1, <1>b, <2>3 DEF EvaluateSave, Write
<1>2. ASSUME NEW r \in Requests, NEW v \in {"ALLOW", "DENY"}, ApproveSave(r, v)
      PROVE  Interrupted(d)'
  <2>1. task[r].at \in InFlight /\ task[r].at = "approve"
    BY <1>2 DEF ApproveSave, At, InFlight
  <2>2. task[r].on # d
    BY <2>1, <1>a DEF Usable, RowConsistent, Interrupted
  <2>3. QED BY <1>2, <1>b, <2>2 DEF ApproveSave, Write
<1>3. ASSUME NEW r \in Requests, ReserveMark(r) PROVE Interrupted(d)'
  <2>1. task[r].on # d
    BY <1>3 DEF ReserveMark, Reservable, Interrupted
  <2>2. row'[d] = row[d]
    BY <1>3, <2>1 DEF ReserveMark, TypeOK
  <2>3. /\ \A q \in Requests \ {r} : task'[q] = task[q]
        /\ task'[r].on = task[r].on
    <3>1. task[r].at \in InFlight
      BY <1>3 DEF ReserveMark, At, InFlight
    <3>2. task' = [task EXCEPT ![r] = [task[r] EXCEPT !.at = "save"]]
      BY <1>3 DEF ReserveMark, Advance, TypeOK
    <3>3. [task[r] EXCEPT !.at = "save"].on = task[r].on
      BY <3>1 DEF TypeOK, Tasks, Idle, Done, InFlight
    <3>4. QED BY <3>2, <3>3 DEF TypeOK
  <2>4. \A q \in Requests : ~(task'[q].at = "save" /\ task'[q].on = d)
    BY <2>1, <2>3 DEF Interrupted, At
  <2>5. QED BY <1>0, <2>2, <2>4
<1>4. ASSUME NEW r \in Requests, ReserveSave(r) PROVE Interrupted(d)'
  <2>1. task[r].on # d
    BY <1>4 DEF ReserveSave, Interrupted
  <2>2. QED BY <1>4, <1>b, <2>1 DEF ReserveSave, Write
<1>5. ASSUME NEW r \in Requests, Finalize(r) PROVE Interrupted(d)'
  <2>1. task[r].at \in InFlight /\ task[r].at = "finalize"
    BY <1>5 DEF Finalize, At, InFlight
  <2>2. task[r].on # d
    BY <2>1, <1>a DEF Usable, Interrupted
  <2>3. QED BY <1>5, <1>b, <2>2 DEF Finalize, Write
<1>6. ASSUME NEW r \in Requests, Reconcile(r) PROVE Interrupted(d)'
  <2>1. task[r].on # d
    BY <1>6 DEF Reconcile, Reconcilable, Interrupted
  <2>2. QED BY <1>6, <1>b, <2>1 DEF Reconcile, Write
<1>7. ASSUME NEW r \in Requests, NEW e \in Decisions, NEW rec,
             NEW stage \in InFlight \ {"save"}, Begin(r, stage, e, rec), row' = row
      PROVE  Interrupted(d)'
  <2>1. \A q \in Requests : task'[q].at = "save" => task'[q] = task[q]
    BY <1>7 DEF Begin, Task, TypeOK
  <2>2. QED BY <1>0, <1>7, <2>1 DEF Interrupted, At
<1>8. ASSUME NEW r \in Requests, NEW stage \in InFlight \ {"save"}, Advance(r, stage),
             task[r].at \in InFlight, row' = row
      PROVE  Interrupted(d)'
  <2>1. task'[r] = [task[r] EXCEPT !.at = stage]
        /\ \A q \in Requests \ {r} : task'[q] = task[q]
    BY <1>8 DEF Advance, TypeOK
  <2>2. task'[r].at = stage
    BY <1>8, <2>1 DEF TypeOK, Tasks, Idle, Done, InFlight
  <2>3. QED BY <1>0, <1>8, <2>1, <2>2 DEF Interrupted, At
<1>9. ASSUME NEW r \in Requests, Abandon(r) PROVE Interrupted(d)'
  <2>1. \A q \in Requests : task'[q].at = "save" => task'[q] = task[q]
    BY <1>9 DEF Abandon, Finish, Done, TypeOK
  <2>2. QED BY <1>0, <1>9, <2>1 DEF Abandon, store, Interrupted, At
<1>10. ASSUME NEW r \in Requests, NEW e \in Decisions, NEW v \in Verdicts,
              NEW b \in BOOLEAN, EvaluateRead(r, e, v, b)
       PROVE  Interrupted(d)'
  <2>1. PICK w : Begin(r, "create", e, NewRecord(v, b, w))
    BY <1>10 DEF EvaluateRead
  <2>2. QED BY <1>7, <1>10, <2>1 DEF EvaluateRead, store, InFlight
<1>11. ASSUME NEW r \in Requests, NEW e \in Decisions,
              ApproveLoad(r, e) \/ ReserveLoad(r, e) \/ ExecuteLoad(r, e) \/ ReconcileLoad(r, e)
       PROVE  Interrupted(d)'
  <2>1. PICK stage \in InFlight \ {"save"} : Begin(r, stage, e, row[e])
    BY <1>11 DEF ApproveLoad, ReserveLoad, ExecuteLoad, ReconcileLoad, InFlight
  <2>2. row' = row
    BY <1>11 DEF ApproveLoad, ReserveLoad, ExecuteLoad, ReconcileLoad, store
  <2>3. QED BY <1>7, <2>1, <2>2
<1>12. ASSUME NEW r \in Requests, ReserveAdmit(r) \/ ExecuteAdmit(r) PROVE Interrupted(d)'
  <2>1. PICK stage \in InFlight \ {"save"} : Advance(r, stage)
    BY <1>12 DEF ReserveAdmit, ExecuteAdmit, InFlight
  <2>2. task[r].at \in InFlight /\ row' = row
    BY <1>12 DEF ReserveAdmit, ExecuteAdmit, At, InFlight, store
  <2>3. QED BY <1>8, <2>1, <2>2
<1>13. ASSUME Environment \/ UNCHANGED vars PROVE Interrupted(d)'
  <2>1. row' = row /\ task' = task
    BY <1>13 DEF Environment, ExpireDecision, LapseApproval, CommitWorld, vars, store
  <2>2. QED BY <1>0, <2>1 DEF Interrupted, At
<1>14. QED
  BY <1>1, <1>2, <1>3, <1>4, <1>5, <1>6, <1>9, <1>10, <1>11, <1>12, <1>13
     DEF Next, Evaluate, Approve, Reserve, Execute, ReconcileExecution

\* A reservation interrupted between the mark and the save is dead for good.
THEOREM DeadReservation == ASSUME SafeDeployment PROVE Spec => InterruptedStaysDead
<1>1. TypeOK /\ GateInv /\ [Next]_vars =>
          [\A d \in Decisions : Interrupted(d) => Interrupted(d)']_vars
  BY InterruptedStep
<1>2. QED
  BY <1>1, TypeCorrect, GateInvariant, PTL DEF Spec, InterruptedStaysDead

-----------------------------------------------------------------------------

\* A handler that has compared the worlds did so after it loaded the record.
WorldsCompared(t, w) ==
    /\ t.at \in InFlight => t.seen <= w
    /\ t.at \in {"mark", "save", "finalize"} /\ t.copy.world # 0 => t.seen <= t.copy.world

WorldsInv == \A r \in Requests : WorldsCompared(task[r], world)

\* The current world never goes back.
LEMMA WorldGrows ==
    ASSUME TypeOK, [Next]_vars
    PROVE  world' \in Nat /\ world <= world'
<1>1. CASE CommitWorld
  BY <1>1 DEF CommitWorld, TypeOK
<1>2. CASE world' = world
  BY <1>2 DEF TypeOK
<1>3. QED
  BY <1>1, <1>2
     DEF Next, Evaluate, Approve, Reserve, Execute, ReconcileExecution, Environment,
         EvaluateRead, EvaluateSave, ApproveLoad, ApproveSave, ReserveLoad, ReserveAdmit,
         ReserveMark, ReserveSave, ExecuteLoad, ExecuteAdmit, Finalize, ReconcileLoad,
         Reconcile, Abandon, ExpireDecision, LapseApproval, vars, clock

LEMMA WorldsStep ==
    ASSUME TypeOK, WorldsInv, [Next]_vars
    PROVE  WorldsInv'
<1>1. world \in Nat /\ world' \in Nat /\ world <= world'
  BY WorldGrows DEF TypeOK
<1>2. ASSUME NEW r \in Requests PROVE WorldsCompared(task[r], world')
  <2>1. task[r].at \in InFlight => task[r].seen \in Nat
    BY DEF TypeOK, Tasks, Idle, Done, InFlight
  <2>2. QED BY <1>1, <2>1 DEF WorldsInv, WorldsCompared
<1>3. ASSUME NEW r \in Requests, Finish(r) PROVE WorldsInv'
  BY <1>2, <1>3 DEF Finish, Done, InFlight, WorldsInv, WorldsCompared, TypeOK
<1>4. ASSUME NEW r \in Requests, NEW d \in Decisions, NEW rec,
             NEW stage \in InFlight \ {"mark", "save", "finalize"}, Begin(r, stage, d, rec)
      PROVE  WorldsInv'
  <2>1. WorldsCompared(task'[r], world')
    BY <1>1, <1>4 DEF Begin, Task, WorldsCompared, TypeOK
  <2>2. QED BY <1>2, <1>4, <2>1 DEF Begin, WorldsInv, TypeOK
<1>5. ASSUME NEW r \in Requests, NEW stage \in {"mark", "save", "finalize"},
             task[r].at \in InFlight, Advance(r, stage),
             task[r].copy.world # 0 => task[r].seen <= task[r].copy.world
      PROVE  WorldsInv'
  <2>1. task'[r] = [task[r] EXCEPT !.at = stage]
        /\ \A q \in Requests \ {r} : task'[q] = task[q]
    BY <1>5 DEF Advance, TypeOK
  <2>2. /\ task'[r].seen = task[r].seen /\ task'[r].copy = task[r].copy
        /\ task'[r].at = stage
    BY <1>5, <2>1 DEF TypeOK, Tasks, Idle, Done, InFlight
  <2>3. task[r].seen <= world'
    BY <1>2, <1>5 DEF WorldsCompared
  <2>4. WorldsCompared(task'[r], world')
    BY <1>5, <2>2, <2>3 DEF WorldsCompared
  <2>5. QED BY <1>2, <2>1, <2>4 DEF WorldsInv
<1>6. ASSUME NEW r \in Requests, ReserveAdmit(r) \/ ExecuteAdmit(r) PROVE WorldsInv'
  <2>1. task[r].at \in InFlight
    BY <1>6 DEF ReserveAdmit, ExecuteAdmit, At, InFlight
  <2>2. task[r].copy.world # 0 => task[r].seen <= task[r].copy.world
    BY <1>6, <2>1 DEF ReserveAdmit, ExecuteAdmit, WorldCurrent, WorldsInv, WorldsCompared
  <2>3. QED BY <1>5, <1>6, <2>1, <2>2 DEF ReserveAdmit, ExecuteAdmit
<1>7. ASSUME NEW r \in Requests, ReserveMark(r) PROVE WorldsInv'
  <2>1. task[r].at \in InFlight /\ task[r].at = "mark"
    BY <1>7 DEF ReserveMark, At, InFlight
  <2>2. task[r].copy.world # 0 => task[r].seen <= task[r].copy.world
    BY <2>1 DEF WorldsInv, WorldsCompared
  <2>3. QED BY <1>5, <1>7, <2>1, <2>2 DEF ReserveMark
<1>8. ASSUME NEW r \in Requests, NEW d \in Decisions,
             \/ \E v \in Verdicts, b \in BOOLEAN : EvaluateRead(r, d, v, b)
             \/ ApproveLoad(r, d) \/ ReserveLoad(r, d) \/ ExecuteLoad(r, d)
             \/ ReconcileLoad(r, d)
      PROVE  WorldsInv'
  <2>1. PICK stage \in InFlight \ {"mark", "save", "finalize"} : \E rec : Begin(r, stage, d, rec)
    BY <1>8 DEF EvaluateRead, ApproveLoad, ReserveLoad, ExecuteLoad, ReconcileLoad, InFlight
  <2>2. QED BY <1>4, <2>1
<1>9. ASSUME task' = task PROVE WorldsInv'
  BY <1>2, <1>9 DEF WorldsInv
<1>10. QED
  BY <1>3, <1>6, <1>7, <1>8, <1>9
     DEF Next, Evaluate, Approve, Reserve, Execute, ReconcileExecution, Environment,
         EvaluateSave, ApproveSave, ReserveSave, Finalize, Reconcile, Abandon,
         ExpireDecision, LapseApproval, CommitWorld, vars

\* On every backend and with any races, no reservation and no execution
\* passes its checks in a world that had been left when its request began.
THEOREM NoStaleWorld == Spec => []StaleWorldNotAdmitted
<1>1. Init => WorldsInv
  BY DEF Init, Idle, WorldsInv, WorldsCompared, InFlight
<1>2. TypeOK /\ WorldsInv /\ [Next]_vars => WorldsInv'
  BY WorldsStep
<1>3. WorldsInv => StaleWorldNotAdmitted
  BY DEF WorldsInv, WorldsCompared, StaleWorldNotAdmitted
<1>4. QED BY <1>1, <1>2, <1>3, TypeCorrect, PTL DEF Spec

-----------------------------------------------------------------------------

Reconciliations(d) == Occurs(d, {"EXECUTION_RECONCILED"})

\* A reconciliation in the history has its row in execution_reconciliations.
ReconciliationsRecorded ==
    \A d \in Decisions :
        /\ AtMostOne(Reconciliations(d))
        /\ d \notin settled => Reconciliations(d) = {}

LEMMA ReconciliationsStep ==
    ASSUME TypeOK, ReconciliationsRecorded, [Next]_vars
    PROVE  ReconciliationsRecorded'
<1>1. ASSUME \A d \in Decisions : Reconciliations(d)' = Reconciliations(d), settled \subseteq settled'
      PROVE  ReconciliationsRecorded'
  BY <1>1 DEF ReconciliationsRecorded, AtMostOne
<1>2. ASSUME audit' = audit, settled' = settled PROVE ReconciliationsRecorded'
  <2>1. \A d \in Decisions : Reconciliations(d)' = Reconciliations(d)
    BY <1>2 DEF Reconciliations, Occurs
  <2>2. QED BY <1>1, <1>2, <2>1
<1>3. ASSUME NEW d \in Decisions, NEW rec, NEW event \in Events \ {"EXECUTION_RECONCILED"},
             Write(d, rec, event), settled' = settled
      PROVE  ReconciliationsRecorded'
  <2>1. \A e \in Decisions : Reconciliations(e)' = Reconciliations(e)
    BY <1>3, OccursWrite DEF Reconciliations
  <2>2. QED BY <1>1, <1>3, <2>1
<1>r. ASSUME NEW d \in Decisions, NEW rec, Write(d, rec, "EXECUTION_RECONCILED"),
             Unsettled(d), settled' = settled \cup {d}
      PROVE  ReconciliationsRecorded'
  <2>1. "EXECUTION_RECONCILED" \in Events
    BY DEF Events
  <2>2. /\ Reconciliations(d)' = Reconciliations(d) \cup {Len(audit[d]) + 1}
        /\ \A e \in Decisions : e # d => Reconciliations(e)' = Reconciliations(e)
    BY <1>r, <2>1, OccursWrite DEF Reconciliations
  <2>3. Reconciliations(d)' = {Len(audit[d]) + 1}
    BY <1>r, <2>2 DEF Unsettled, ReconciliationsRecorded
  <2>4. ASSUME NEW e \in Decisions
        PROVE  /\ AtMostOne(Reconciliations(e))'
               /\ e \notin settled' => Reconciliations(e)' = {}
    <3>1. CASE e = d
      BY <1>r, <2>3, <3>1 DEF AtMostOne
    <3>2. CASE e # d
      BY <1>r, <2>2, <3>2 DEF AtMostOne, ReconciliationsRecorded
    <3>3. QED BY <3>1, <3>2
  <2>5. QED BY <2>4 DEF ReconciliationsRecorded
<1>4. ASSUME NEW r \in Requests, Reconcile(r) PROVE ReconciliationsRecorded'
  <2>1. task[r].on \in Decisions
    BY <1>4, InFlightTask DEF Reconcile, At, InFlight
  <2>2. QED BY <1>4, <1>r, <2>1 DEF Reconcile
<1>5. ASSUME NEW r \in Requests,
             EvaluateSave(r) \/ ApproveSave(r, "ALLOW") \/ ApproveSave(r, "DENY")
                \/ ReserveSave(r) \/ Finalize(r)
      PROVE  ReconciliationsRecorded'
  <2>1. task[r].on \in Decisions
    BY <1>5, InFlightTask
       DEF EvaluateSave, ApproveSave, ReserveSave, Finalize, At, InFlight
  <2>2. \E rec : \E event \in {"DECISION_CREATED", "APPROVAL_RECORDED", "EXECUTION_RESERVED",
                               "EXECUTION_RECORDED"} :
            Write(task[r].on, rec, event)
    BY <1>5 DEF EvaluateSave, ApproveSave, ReserveSave, Finalize
  <2>3. settled' = settled
    BY <1>5 DEF EvaluateSave, ApproveSave, ReserveSave, Finalize
  <2>4. QED BY <1>3, <2>1, <2>2, <2>3 DEF Events
<1>6. QED
  BY <1>2, <1>4, <1>5
     DEF Next, Evaluate, Approve, Reserve, Execute, ReconcileExecution, Environment,
         EvaluateRead, ApproveLoad, ReserveLoad, ReserveAdmit, ReserveMark, ExecuteLoad,
         ExecuteAdmit, ReconcileLoad, Abandon, ExpireDecision, LapseApproval, CommitWorld,
         vars, store

\* On every backend and with any races, a decision is reconciled at most once.
THEOREM OneReconciliation == Spec => []ReconciledOnce
<1>1. Init => ReconciliationsRecorded
  <2> SUFFICES ASSUME Init, NEW d \in Decisions
               PROVE  Reconciliations(d) = {}
    BY DEF ReconciliationsRecorded, AtMostOne
  <2>1. Len(audit[d]) = 0
    BY DEF Init
  <2>2. QED BY <2>1 DEF Reconciliations, Occurs
<1>2. TypeOK /\ ReconciliationsRecorded /\ [Next]_vars => ReconciliationsRecorded'
  BY ReconciliationsStep
<1>3. ReconciliationsRecorded => ReconciledOnce
  BY DEF ReconciliationsRecorded, ReconciledOnce, Reconciliations
<1>4. QED BY <1>1, <1>2, <1>3, TypeCorrect, PTL DEF Spec
=============================================================================
