-------------------------- MODULE CsgIngressProofs --------------------------
(***************************************************************************)
(* Proofs about CsgIngress: any number of processes, keys, requests,       *)
(* decisions and crashes.                                                  *)
(***************************************************************************)
EXTENDS CsgIngress, TLAPS

\* A process that is not idle works on a request.
LEMMA WorkingProcess ==
    ASSUME TypeOK, NEW p \in Processes, ~At(p, "idle")
    PROVE  /\ proc[p] \in Working
           /\ proc[p].key \in Names
           /\ proc[p].request \in Requests
           /\ proc[p].decision \in Decisions
BY DEF TypeOK, Working, Idle, At

\* A key without a row and a key with one.
LEMMA StoredRow ==
    ASSUME TypeOK, NEW k \in Names, rows[k] # None
    PROVE  rows[k] \in Decisions
BY DEF TypeOK

\* Every step keeps the types.
LEMMA TypeStep ==
    ASSUME TypeOK, \A p \in Processes : ProcSound(p), [Next]_vars
    PROVE  TypeOK'
<1>1. ASSUME NEW p \in Processes, NEW k \in Names, NEW m \in Requests, Build(p, k, m)
      PROVE  TypeOK'
  <2>1. [number |-> built + 1, request |-> m] \in Decisions
    BY DEF TypeOK, Decisions
  <2>2. QED BY <1>1, <2>1 DEF Build, Start, TypeOK, Working
<1>2. ASSUME NEW p \in Processes, NEW k \in Names, NEW m \in Requests, Recall(p, k, m)
      PROVE  TypeOK'
  <2>1. rows[k] \in Decisions
    BY <1>2, StoredRow DEF Recall
  <2>2. QED BY <1>2, <2>1 DEF Recall, Start, TypeOK, Working
<1>3. ASSUME NEW p \in Processes, Save(p) PROVE TypeOK'
  <2>1. proc[p] \in Working /\ proc[p].decision \in Decisions /\ proc[p].key \in Names
    BY <1>3, WorkingProcess DEF Save, At
  <2>2. rows' \in [Names -> Decisions \cup {None}]
    BY <1>3, <2>1 DEF Save, RowAfterInsert, TypeOK
  <2>3. \A s \in {"record", "reload"} : [proc[p] EXCEPT !.at = s] \in Working
    BY <2>1 DEF Working
  <2>4. QED BY <1>3, <2>2, <2>3 DEF Save, TypeOK
<1>4. ASSUME NEW p \in Processes, Reload(p) PROVE TypeOK'
  <2>1. proc[p] \in Working /\ proc[p].key \in Names
    BY <1>4, WorkingProcess DEF Reload, At
  <2>2. rows[proc[p].key] \in Decisions
    BY <1>4, <2>1, StoredRow DEF Reload, ProcSound
  <2>3. [proc[p] EXCEPT !.at = "record", !.decision = rows[proc[p].key]] \in Working
    BY <2>1, <2>2 DEF Working
  <2>4. \/ proc' = [proc EXCEPT ![p] =
              [proc[p] EXCEPT !.at = "record", !.decision = rows[proc[p].key]]]
        \/ proc' = [proc EXCEPT ![p] = Idle]
    BY <1>4 DEF Reload, Finish, TypeOK
  <2>5. QED BY <1>4, <2>3, <2>4 DEF Reload, TypeOK
<1>5. ASSUME NEW p \in Processes, Record(p) PROVE TypeOK'
  <2>1. /\ proc[p] \in Working /\ proc[p].request \in Requests
        /\ proc[p].decision \in Decisions
    BY <1>5, WorkingProcess DEF Record, At
  <2>2. [request |-> proc[p].request, created_at |-> proc[p].decision.number] \in Events
    BY <2>1 DEF Decisions, Events
  <2>3. [proc[p] EXCEPT !.at = "answer"] \in Working
    BY <2>1 DEF Working
  <2>4. QED BY <1>5, <2>2, <2>3 DEF Record, TypeOK
<1>6. ASSUME NEW p \in Processes, Answer(p) PROVE TypeOK'
  <2>1. [key |-> proc[p].key, request |-> proc[p].request, decision |-> proc[p].decision]
            \in Answers
    BY <1>6, WorkingProcess DEF Answer, At, Answers
  <2>2. QED BY <1>6, <2>1 DEF Answer, Finish, TypeOK
<1>7. ASSUME NEW p \in Processes, Crash(p) PROVE TypeOK'
  BY <1>7 DEF Crash, Finish, TypeOK
<1>8. CASE UNCHANGED vars
  BY <1>8 DEF vars, TypeOK
<1>9. QED
  BY <1>1, <1>2, <1>3, <1>4, <1>5, <1>6, <1>7, <1>8 DEF Next, Serve

\* A step that keeps the rows and the events keeps what the other processes
\* and the answers rest on; so does one that adds to them.
LEMMA Monotone ==
    ASSUME IngressInv, TypeOK',
           \A k \in Names : rows[k] # None => rows'[k] = rows[k],
           events \subseteq events'
    PROVE  /\ \A p \in Processes : proc'[p] = proc[p] => ProcSound(p)'
           /\ \A a \in answers : AnswerSound(a)'
<1>1. ASSUME NEW p \in Processes, proc'[p] = proc[p] PROVE ProcSound(p)'
  <2>1. CASE At(p, "idle")
    BY <1>1, <2>1 DEF ProcSound, At
  <2>2. CASE ~At(p, "idle")
    <3>1. proc[p].key \in Names /\ proc[p].decision \in Decisions
      BY <2>2, WorkingProcess DEF IngressInv
    <3>2. ProcSound(p)
      BY DEF IngressInv
    <3>3. proc[p].decision # None
      BY <3>1, IngressAssumption
    <3>4. QED BY <1>1, <3>1, <3>2, <3>3 DEF ProcSound, At
  <2>3. QED BY <2>1, <2>2
<1>2. ASSUME NEW a \in answers PROVE AnswerSound(a)'
  <2>1. a.key \in Names /\ a.decision \in Decisions
    BY DEF IngressInv, TypeOK, Answers
  <2>2. a.decision # None
    BY <2>1, IngressAssumption
  <2>3. AnswerSound(a)
    BY DEF IngressInv
  <2>4. QED BY <2>1, <2>2, <2>3 DEF AnswerSound
<1>3. QED BY <1>1, <1>2

\* Rows are never overwritten and events never dropped.
LEMMA Kept ==
    ASSUME TypeOK, [Next]_vars
    PROVE  /\ \A k \in Names : rows[k] # None => rows'[k] = rows[k]
           /\ events \subseteq events'
<1>1. ASSUME NEW p \in Processes, Save(p)
      PROVE  \A k \in Names : rows[k] # None => rows'[k] = rows[k]
  <2>1. proc[p].key \in Names
    BY <1>1, WorkingProcess DEF Save, At
  <2>2. QED BY <1>1, <2>1 DEF Save, RowAfterInsert, TypeOK
<1>2. ASSUME NEW p \in Processes, Save(p) PROVE events \subseteq events'
  BY <1>2 DEF Save
<1>3. QED
  BY <1>1, <1>2
     DEF Next, Serve, Build, Recall, Reload, Record, Answer, Crash, vars

\* Every step keeps the invariant, when a lost race is reported.
LEMMA IngressStep ==
    ASSUME Backend = "postgresql", IngressInv, [Next]_vars
    PROVE  IngressInv'
<1>1. TypeOK'
  BY TypeStep DEF IngressInv
<1>2. /\ \A k \in Names : rows[k] # None => rows'[k] = rows[k]
      /\ events \subseteq events'
  BY Kept DEF IngressInv
<1>3. /\ \A q \in Processes : proc'[q] = proc[q] => ProcSound(q)'
      /\ \A a \in answers : AnswerSound(a)'
  BY <1>1, <1>2, Monotone
<1>4. ASSUME NEW p \in Processes, \A q \in Processes \ {p} : proc'[q] = proc[q],
             ProcSound(p)', answers' = answers
      PROVE  IngressInv'
  BY <1>1, <1>3, <1>4 DEF IngressInv
<1>5. ASSUME NEW p \in Processes, NEW k \in Names, NEW m \in Requests, Build(p, k, m)
      PROVE  IngressInv'
  <2>1. proc'[p].at = "save" /\ proc'[p].request = m /\ proc'[p].decision.request = m
    BY <1>5 DEF Build, Start, IngressInv, TypeOK
  <2>2. ProcSound(p)'
    BY <2>1 DEF ProcSound, At
  <2>3. QED BY <1>4, <1>5, <2>2 DEF Build, Start, IngressInv, TypeOK
<1>6. ASSUME NEW p \in Processes, NEW k \in Names, NEW m \in Requests, Recall(p, k, m)
      PROVE  IngressInv'
  <2>1. /\ proc'[p].at = "record" /\ proc'[p].request = m
        /\ proc'[p].key = k /\ proc'[p].decision = rows[k]
    BY <1>6 DEF Recall, Start, IngressInv, TypeOK
  <2>2. ProcSound(p)'
    BY <1>6, <2>1 DEF Recall, SameRequest, ProcSound, At
  <2>3. QED BY <1>4, <1>6, <2>2 DEF Recall, Start, IngressInv, TypeOK
<1>7. ASSUME NEW p \in Processes, Save(p) PROVE IngressInv'
  <2>1. /\ proc[p] \in Working /\ proc[p].key \in Names /\ proc[p].decision # None
        /\ proc[p].decision.request = proc[p].request
    BY <1>7, WorkingProcess, IngressAssumption DEF Save, At, IngressInv, ProcSound
  <2>2. /\ proc'[p].key = proc[p].key /\ proc'[p].request = proc[p].request
        /\ proc'[p].decision = proc[p].decision
        /\ proc'[p].at = IF rows[proc[p].key] = None THEN "record" ELSE "reload"
    BY <1>7, <2>1 DEF Save, ReportsInserted, IngressInv, TypeOK, Working
  <2>3. rows[proc[p].key] = None => rows'[proc[p].key] = proc[p].decision
    BY <1>7, <2>1 DEF Save, RowAfterInsert, IngressInv, TypeOK
  <2>4. ProcSound(p)'
    BY <1>2, <2>1, <2>2, <2>3 DEF ProcSound, At
  <2>5. QED BY <1>4, <1>7, <2>4 DEF Save, IngressInv, TypeOK
<1>8. ASSUME NEW p \in Processes, Reload(p) PROVE IngressInv'
  <2>1. proc[p] \in Working /\ proc[p].key \in Names
    BY <1>8, WorkingProcess DEF Reload, At, IngressInv
  <2>2. CASE SameRequest(rows[proc[p].key], proc[p].request)
    <3>1. proc' = [proc EXCEPT ![p].at = "record", ![p].decision = rows[proc[p].key]]
      BY <1>8, <2>2 DEF Reload
    <3>2. /\ proc'[p].at = "record" /\ proc'[p].key = proc[p].key
          /\ proc'[p].request = proc[p].request
          /\ proc'[p].decision = rows[proc[p].key]
      BY <2>1, <3>1 DEF IngressInv, TypeOK, Working
    <3>3. ProcSound(p)'
      BY <1>8, <2>2, <3>2 DEF ProcSound, At, SameRequest, Reload
    <3>4. QED BY <1>4, <1>8, <3>1, <3>3 DEF Reload, IngressInv, TypeOK
  <2>3. CASE ~SameRequest(rows[proc[p].key], proc[p].request)
    <3>1. proc' = [proc EXCEPT ![p] = Idle]
      BY <1>8, <2>3 DEF Reload, Finish
    <3>2. ProcSound(p)'
      BY <3>1 DEF ProcSound, At, Idle, IngressInv, TypeOK
    <3>3. QED BY <1>4, <1>8, <3>1, <3>2 DEF Reload, IngressInv, TypeOK
  <2>4. QED BY <2>2, <2>3
<1>9. ASSUME NEW p \in Processes, Record(p) PROVE IngressInv'
  <2>1. proc[p] \in Working /\ ProcSound(p) /\ At(p, "record")
    BY <1>9, WorkingProcess DEF Record, At, IngressInv
  <2>2. proc'[p] = [proc[p] EXCEPT !.at = "answer"]
    BY <1>9 DEF Record, IngressInv, TypeOK
  <2>3. /\ proc'[p].at = "answer" /\ proc'[p].key = proc[p].key
        /\ proc'[p].request = proc[p].request /\ proc'[p].decision = proc[p].decision
    BY <2>1, <2>2 DEF Working
  <2>4. \E e \in events' : e.request = proc[p].request
    <3>1. PICK e : e = [request |-> proc[p].request,
                        created_at |-> proc[p].decision.number]
      OBVIOUS
    <3>2. e \in events' /\ e.request = proc[p].request
      BY <1>9, <3>1 DEF Record
    <3>3. QED BY <3>2
  <2>5. ProcSound(p)'
    BY <1>9, <2>1, <2>3, <2>4 DEF Record, ProcSound, At
  <2>6. QED BY <1>4, <1>9, <2>5 DEF Record, IngressInv, TypeOK
<1>10. ASSUME NEW p \in Processes, Answer(p) PROVE IngressInv'
  <2>1. ProcSound(p) /\ At(p, "answer")
    BY <1>10 DEF Answer, IngressInv
  <2>2. PICK x : x = [key |-> proc[p].key, request |-> proc[p].request,
                      decision |-> proc[p].decision]
    OBVIOUS
  <2>3. /\ x.key = proc[p].key /\ x.request = proc[p].request
        /\ x.decision = proc[p].decision
        /\ UNCHANGED <<rows, events>>
    BY <1>10, <2>2 DEF Answer
  <2>4. AnswerSound(x)'
    BY <2>1, <2>3 DEF AnswerSound, ProcSound, At
  <2>5. answers' = answers \cup {x}
    BY <1>10, <2>2 DEF Answer
  <2>6. /\ ProcSound(p)'
        /\ \A q \in Processes \ {p} : proc'[q] = proc[q]
    BY <1>10 DEF Answer, Finish, ProcSound, At, Idle, IngressInv, TypeOK
  <2>7. \A q \in Processes : ProcSound(q)'
    BY <1>3, <2>6
  <2>8. \A a \in answers' : AnswerSound(a)'
    BY <1>3, <2>4, <2>5
  <2>9. QED BY <1>1, <2>7, <2>8 DEF IngressInv
<1>11. ASSUME NEW p \in Processes, Crash(p) PROVE IngressInv'
  <2>1. proc' = [proc EXCEPT ![p] = Idle]
    BY <1>11 DEF Crash, Finish
  <2>2. ProcSound(p)'
    BY <2>1 DEF ProcSound, At, Idle, IngressInv, TypeOK
  <2>3. QED BY <1>4, <1>11, <2>1, <2>2 DEF Crash, IngressInv, TypeOK
<1>12. CASE UNCHANGED vars
  BY <1>1, <1>3, <1>12 DEF vars, IngressInv
<1>13. QED
  BY <1>5, <1>6, <1>7, <1>8, <1>9, <1>10, <1>11, <1>12 DEF Next, Serve

\* On PostgreSQL, what a process goes on with and what was answered is stored.
THEOREM IngressInvariant == ASSUME Backend = "postgresql" PROVE Spec => []IngressInv
<1>1. Init => IngressInv
  BY DEF Init, IngressInv, TypeOK, ProcSound, At, Idle
<1>2. IngressInv /\ [Next]_vars => IngressInv'
  BY IngressStep
<1>3. QED BY <1>1, <1>2, PTL DEF Spec

\* Hence one decision per key, however many processes race on it.
THEOREM OneDecision == ASSUME Backend = "postgresql" PROVE Spec => []OneDecisionPerKey
<1>1. IngressInv => OneDecisionPerKey
  BY DEF IngressInv, AnswerSound, OneDecisionPerKey
<1>2. QED BY <1>1, IngressInvariant, PTL

\* With the request id as the key, every step keeps what was recorded stored.
LEMMA RequestStep ==
    ASSUME KeyIsRequestId, IngressInv, RequestInv, [Next]_vars
    PROVE  RequestInv'
<1>1. /\ \A k \in Names : rows[k] # None => rows'[k] = rows[k]
      /\ events \subseteq events'
  BY Kept DEF IngressInv
<1>2. \A e \in events :
          rows'[e.request.id] # None /\ rows'[e.request.id].request = e.request
  <2> SUFFICES ASSUME NEW e \in events
               PROVE  rows'[e.request.id] # None /\ rows'[e.request.id].request = e.request
    OBVIOUS
  <2>1. e.request.id \in Names
    BY DEF IngressInv, TypeOK, Events, Requests
  <2>2. QED BY <1>1, <2>1 DEF RequestInv
<1>3. ASSUME events' = events, answers' = answers, NEW p \in Processes,
             \A q \in Processes \ {p} : proc'[q] = proc[q],
             proc'[p].at # "idle" => proc'[p].key = proc'[p].request.id
      PROVE  RequestInv'
  BY <1>2, <1>3 DEF RequestInv, At
<1>4. ASSUME NEW p \in Processes, NEW k \in Names, NEW m \in Requests, k = m.id,
             Build(p, k, m) \/ Recall(p, k, m)
      PROVE  RequestInv'
  <2>1. PICK stage, x :
            proc' = [proc EXCEPT ![p] =
                [at |-> stage, key |-> k, request |-> m, decision |-> x]]
    BY <1>4 DEF Build, Recall, Start
  <2>2. /\ proc'[p].key = k /\ proc'[p].request = m
        /\ \A q \in Processes \ {p} : proc'[q] = proc[q]
    BY <2>1 DEF IngressInv, TypeOK
  <2>3. QED BY <1>3, <1>4, <2>2 DEF Build, Recall
<1>5. ASSUME NEW p \in Processes, Save(p) \/ Reload(p) \/ Record(p)
      PROVE  /\ proc'[p].at # "idle" => proc'[p].key = proc'[p].request.id
             /\ \A q \in Processes \ {p} : proc'[q] = proc[q]
             /\ answers' = answers
  <2>1. proc[p] \in Working /\ proc[p].key = proc[p].request.id
    BY <1>5, WorkingProcess DEF Save, Reload, Record, At, IngressInv, RequestInv
  <2>2. PICK stage, x :
            \/ proc' = [proc EXCEPT ![p] = [proc[p] EXCEPT !.at = stage, !.decision = x]]
            \/ proc' = [proc EXCEPT ![p] = Idle]
    <3>1. CASE Save(p)
      <4>1. PICK stage : proc' = [proc EXCEPT ![p].at = stage]
        BY <3>1 DEF Save
      <4>2. [proc[p] EXCEPT !.at = stage] =
                [proc[p] EXCEPT !.at = stage, !.decision = proc[p].decision]
        BY <2>1 DEF Working
      <4>3. QED BY <4>1, <4>2 DEF IngressInv, TypeOK
    <3>2. CASE Reload(p)
      BY <3>2 DEF Reload, Finish, IngressInv, TypeOK
    <3>3. CASE Record(p)
      <4>1. [proc[p] EXCEPT !.at = "answer"] =
                [proc[p] EXCEPT !.at = "answer", !.decision = proc[p].decision]
        BY <2>1 DEF Working
      <4>2. QED BY <3>3, <4>1 DEF Record, IngressInv, TypeOK
    <3>4. QED BY <1>5, <3>1, <3>2, <3>3
  <2>3. /\ proc'[p].at # "idle" => proc'[p].key = proc'[p].request.id
        /\ \A q \in Processes \ {p} : proc'[q] = proc[q]
    <3>1. CASE proc' = [proc EXCEPT ![p] = [proc[p] EXCEPT !.at = stage, !.decision = x]]
      BY <2>1, <3>1 DEF Working, IngressInv, TypeOK
    <3>2. CASE proc' = [proc EXCEPT ![p] = Idle]
      BY <3>2 DEF Idle, IngressInv, TypeOK
    <3>3. QED BY <2>2, <3>1, <3>2
  <2>4. QED BY <1>5, <2>3 DEF Save, Reload, Record
<1>6. ASSUME NEW p \in Processes, Save(p) \/ Reload(p) PROVE RequestInv'
  BY <1>3, <1>5, <1>6 DEF Save, Reload
<1>7. ASSUME NEW p \in Processes, Record(p) PROVE RequestInv'
  <2>1. /\ rows[proc[p].key] = proc[p].decision
        /\ proc[p].decision.request = proc[p].request
        /\ proc[p].key = proc[p].request.id
        /\ proc[p].decision # None
    BY <1>7, WorkingProcess, IngressAssumption
       DEF Record, At, IngressInv, ProcSound, RequestInv
  <2>2. ASSUME NEW e \in events'
        PROVE  rows'[e.request.id] # None /\ rows'[e.request.id].request = e.request
    <3>1. CASE e \in events
      BY <1>2, <3>1
    <3>2. CASE e.request = proc[p].request
      BY <1>7, <2>1, <3>2 DEF Record
    <3>3. QED BY <1>7, <3>1, <3>2 DEF Record
  <2>3. QED BY <1>5, <1>7, <2>2 DEF RequestInv, At
<1>8. ASSUME NEW p \in Processes, Answer(p) PROVE RequestInv'
  <2>1. proc[p].key = proc[p].request.id
    BY <1>8 DEF Answer, At, RequestInv
  <2>2. \A a \in answers' : a.key = a.request.id
    BY <1>8, <2>1 DEF Answer, RequestInv
  <2>3. \A q \in Processes : proc'[q].at # "idle" => proc'[q] = proc[q]
    BY <1>8 DEF Answer, Finish, Idle, IngressInv, TypeOK
  <2>4. QED BY <1>2, <1>8, <2>2, <2>3 DEF Answer, RequestInv, At
<1>9. ASSUME NEW p \in Processes, Crash(p) PROVE RequestInv'
  <2>1. /\ \A q \in Processes \ {p} : proc'[q] = proc[q]
        /\ proc'[p].at = "idle"
    BY <1>9 DEF Crash, Finish, Idle, IngressInv, TypeOK
  <2>2. QED BY <1>3, <1>9, <2>1 DEF Crash
<1>10. CASE UNCHANGED vars
  BY <1>10 DEF vars, RequestInv, At
<1>11. QED
  BY <1>4, <1>6, <1>7, <1>8, <1>9, <1>10 DEF Next, Serve

\* Whoever was answered can have the decision replayed, when clients send the
\* request id as the Idempotency-Key.
THEOREM Replayable ==
    ASSUME Backend = "postgresql", KeyIsRequestId
    PROVE  Spec => []AnsweredReplays
<1>1. Init => RequestInv
  BY DEF Init, RequestInv, At, Idle
<1>2. IngressInv /\ RequestInv /\ [Next]_vars => RequestInv'
  BY RequestStep
<1>3. IngressInv /\ RequestInv => AnsweredReplays
  <2> SUFFICES ASSUME IngressInv, RequestInv, NEW a \in answers
               PROVE  Replays(a.request.id)
    BY DEF AnsweredReplays
  <2>1. PICK e \in events : e.request = a.request
    BY DEF IngressInv, AnswerSound
  <2>2. rows[a.request.id] # None
    BY <2>1 DEF RequestInv
  <2>3. \A f \in Newest(a.request.id) : f.request = rows[a.request.id].request
    BY DEF Newest, RequestInv
  <2>4. QED BY <2>1, <2>2, <2>3 DEF Replays
<1>4. QED BY <1>1, <1>2, <1>3, IngressInvariant, PTL DEF Spec

\* Every step of the ingress commits a decision, answers the committed one or
\* is of no concern to the promise.
LEMMA IdempotentStep ==
    ASSUME Backend = "postgresql", IngressInv, [Next]_vars
    PROVE  Idempotent!Next \/ UNCHANGED <<rows, [k \in Names |->
               {a.decision : a \in {b \in answers : b.key = k}}]>>
<1> DEFINE given == [k \in Names |-> {a.decision : a \in {b \in answers : b.key = k}}]
<1>1. ASSUME rows' = rows, answers' = answers
      PROVE  UNCHANGED <<rows, given>>
  BY <1>1
<1>2. ASSUME NEW p \in Processes, Save(p)
      PROVE  Idempotent!Next \/ UNCHANGED <<rows, given>>
  <2>1. /\ proc[p].key \in Names /\ proc[p].decision # None
    BY <1>2, WorkingProcess, IngressAssumption DEF Save, At, IngressInv
  <2>2. given' = given
    BY <1>2 DEF Save
  <2>3. CASE rows[proc[p].key] # None
    <3>1. rows' = rows
      BY <1>2, <2>1, <2>3 DEF Save, RowAfterInsert, IngressInv, TypeOK
    <3>2. QED BY <2>2, <3>1
  <2>4. CASE rows[proc[p].key] = None
    <3>1. rows' = [rows EXCEPT ![proc[p].key] = proc[p].decision]
      BY <1>2, <2>4 DEF Save, RowAfterInsert
    <3>2. rows'[proc[p].key] = proc[p].decision
      BY <2>1, <3>1 DEF IngressInv, TypeOK
    <3>3. Idempotent!Commit(proc[p].key)
      BY <2>1, <2>2, <2>4, <3>1, <3>2 DEF Idempotent!Commit
    <3>4. QED BY <2>1, <3>3 DEF Idempotent!Next
  <2>5. QED BY <2>3, <2>4
<1>3. ASSUME NEW p \in Processes, Answer(p)
      PROVE  Idempotent!Next \/ UNCHANGED <<rows, given>>
  <2>1. PICK k \in Names : k = proc[p].key
    BY <1>3, WorkingProcess DEF Answer, At, IngressInv
  <2>2. rows[k] # None /\ rows[k] = proc[p].decision
    BY <1>3, <2>1, WorkingProcess, IngressAssumption DEF Answer, At, IngressInv, ProcSound
  <2>3. PICK x : x = [key |-> k, request |-> proc[p].request, decision |-> rows[k]]
    OBVIOUS
  <2>4. answers' = answers \cup {x} /\ x.key = k /\ x.decision = rows[k]
    BY <1>3, <2>1, <2>2, <2>3 DEF Answer
  <2>5. \A j \in Names \ {k} : given'[j] = given[j]
    BY <2>4
  <2>6. given'[k] = given[k] \cup {rows[k]}
    BY <2>4
  <2>7. given' = [given EXCEPT ![k] = @ \cup {rows[k]}]
    BY <2>5, <2>6
  <2>8. Idempotent!Answer(k)
    BY <1>3, <2>2, <2>7 DEF Answer, Idempotent!Answer
  <2>9. QED BY <2>8 DEF Idempotent!Next
<1>4. QED
  BY <1>1, <1>2, <1>3 DEF Next, Serve, Build, Recall, Reload, Record, Crash, vars

\* The ingress on PostgreSQL implements one canonical decision per key.
THEOREM IngressRefinement == ASSUME Backend = "postgresql" PROVE Spec => IdempotentSpec
<1>1. Init => Idempotent!Init
  BY DEF Init, Idempotent!Init
<1>2. IngressInv /\ [Next]_vars =>
          [Idempotent!Next]_<<rows, [k \in Names |->
              {a.decision : a \in {b \in answers : b.key = k}}]>>
  BY IdempotentStep
<1>3. QED
  BY <1>1, <1>2, IngressInvariant, PTL DEF Spec, IdempotentSpec, Idempotent!Spec
=============================================================================
