----------------------- MODULE EnforcementPathProofs -----------------------
(***************************************************************************)
(* Proofs about EnforcementPath: any number of decisions and clients.      *)
(***************************************************************************)
EXTENDS EnforcementPath, TLAPS

\* What a client waits for, or how it answered.
State == [at : {"idle"} \cup Steps \cup Answers,
          on : Decisions \cup {Nil}, reply : Replies]

-----------------------------------------------------------------------------
(* Types.                                                                  *)

LEMMA SendType ==
    ASSUME TypeOK, NEW c \in Clients, NEW step \in Steps, NEW d \in Decisions \cup {Nil},
           Send(c, step, d)
    PROVE  TypeOK'
<1>1. [at |-> step, on |-> d, reply |-> "none"] \in State
  BY DEF State, Replies
<1>2. [from |-> c, for |-> step, on |-> d] \in Messages
  BY DEF Messages
<1>3. QED BY <1>1, <1>2 DEF Send, TypeOK, State, gate

LEMMA FinishType ==
    ASSUME TypeOK, NEW c \in Clients, NEW answer \in Answers, Finish(c, answer)
    PROVE  TypeOK'
<1>1. [client[c] EXCEPT !.at = answer] \in State
  BY DEF TypeOK, State
<1>2. client' = [client EXCEPT ![c] = [client[c] EXCEPT !.at = answer]]
  BY DEF Finish, TypeOK
<1>3. QED BY <1>1, <1>2 DEF Finish, TypeOK, State, gate

LEMMA ServeType ==
    ASSUME TypeOK, NEW m \in wire, NEW reply \in Replies, NEW d \in Decisions \cup {Nil},
           Serve(m, reply, d)
    PROVE  /\ client' \in [Clients -> State]
           /\ wire' \subseteq Messages
<1>1. m \in Messages
  BY DEF TypeOK
<1>2. [at |-> m.for, on |-> d, reply |-> reply] \in State
  BY <1>1 DEF State, Messages
<1>3. QED BY <1>1, <1>2 DEF Serve, TypeOK, State, Messages

\* A decision is on a message wherever the type of the step demands one.
LEMMA MessageType ==
    ASSUME TypeOK, NEW m \in wire
    PROVE  /\ m.from \in Clients
           /\ m.for \in Steps
           /\ m.on \in Decisions \cup {Nil}
BY DEF TypeOK, Messages

\* Every step keeps the types.
LEMMA TypeStep == ASSUME TypeOK, [Next]_vars PROVE TypeOK'
<1>1. ASSUME NEW c \in Clients, Ask(c) PROVE TypeOK'
  BY <1>1, SendType DEF Ask, Steps
<1>2. ASSUME NEW c \in Clients, NEW d \in Decisions, Present(c, d) PROVE TypeOK'
  BY <1>2, SendType DEF Present, Steps
<1>3. ASSUME NEW c \in Clients, Proceed(c) PROVE TypeOK'
  <2>1. client[c].on \in Decisions \cup {Nil}
    BY DEF TypeOK
  <2>2. CASE Reserve(c) \/ Call(c) \/ Record(c) \/ Excuse(c)
    BY <2>1, <2>2, SendType DEF Reserve, Call, Record, Excuse, Steps
  <2>3. CASE Tell(c) \/ Succeed(c) \/ Fail(c)
    BY <2>3, FinishType DEF Tell, Succeed, Fail, Answers
  <2>4. QED BY <1>3, <2>2, <2>3 DEF Proceed
<1>4. ASSUME NEW c \in Clients, Crash(c) PROVE TypeOK'
  BY <1>4, FinishType DEF Crash, Answers
<1>5. ASSUME NEW m \in wire, NEW d \in Decisions, NEW p \in {"asked", "permitted", "refused"},
             GateEvaluates(m, d, p)
      PROVE  TypeOK'
  <2>1. client' \in [Clients -> State] /\ wire' \subseteq Messages
    BY <1>5, ServeType DEF GateEvaluates, Replies
  <2>2. QED BY <1>5, <2>1 DEF GateEvaluates, TypeOK, State, Gate!Phases
<1>6. ASSUME NEW m \in wire, GateReserves(m) \/ GateIsInterrupted(m) PROVE TypeOK'
  <2>1. client' \in [Clients -> State] /\ wire' \subseteq Messages
    BY <1>6, MessageType, ServeType DEF GateReserves, GateIsInterrupted, Replies
  <2>2. QED
    BY <1>6, <2>1, MessageType
    DEF GateReserves, GateIsInterrupted, Stored, TypeOK, State, Gate!Phases
<1>7. ASSUME NEW m \in wire, ToolRuns(m) PROVE TypeOK'
  <2>1. client' \in [Clients -> State] /\ wire' \subseteq Messages
    BY <1>7, MessageType, ServeType DEF ToolRuns, Replies
  <2>2. ran' \in [Decisions -> SUBSET Clients]
    BY <1>7, MessageType DEF ToolRuns, TypeOK
  <2>3. QED BY <1>7, <2>1, <2>2 DEF ToolRuns, TypeOK, State, gate
<1>8. ASSUME NEW m \in wire, GateRecords(m) PROVE TypeOK'
  <2>1. client' \in [Clients -> State] /\ wire' \subseteq Messages
    BY <1>8, MessageType, ServeType DEF GateRecords, Replies
  <2>2. QED BY <1>8, <2>1 DEF GateRecords, TypeOK, State, Outcomes, Gate!Phases
<1>9. ASSUME NEW m \in wire, Refuse(m) PROVE TypeOK'
  <2>1. client' \in [Clients -> State] /\ wire' \subseteq Messages
    BY <1>9, MessageType, ServeType DEF Refuse, Replies
  <2>2. QED BY <1>9, <2>1 DEF Refuse, TypeOK, State, gate
<1>10. ASSUME NEW d \in Decisions, NEW p \in {"permitted", "refused"}, Approve(d, p)
       PROVE  TypeOK'
  BY <1>10 DEF Approve, TypeOK, Gate!Phases
<1>11. ASSUME NEW d \in Decisions, Reconcile(d) PROVE TypeOK'
  BY <1>11 DEF Reconcile, TypeOK, Outcomes, Gate!Phases
<1>12. CASE UNCHANGED vars
  BY <1>12 DEF vars, gate, TypeOK
<1>13. QED
  BY <1>1, <1>2, <1>3, <1>4, <1>5, <1>6, <1>7, <1>8, <1>9, <1>10, <1>11, <1>12
  DEF Next, Servers

-----------------------------------------------------------------------------
(* What every step keeps, and what follows for clients and messages.       *)

\* A spent decision keeps its authority, a settled one its outcome, and a run
\* is never undone.
Kept ==
    \A d \in Decisions :
        /\ phase[d] \in Spent => phase'[d] \in Spent /\ authority'[d] = authority[d]
        /\ phase[d] = "executed" => phase'[d] = "executed" /\ outcome'[d] = outcome[d]
        /\ ran[d] \subseteq ran'[d]

LEMMA KeptMessage ==
    ASSUME TypeOK, Kept, NEW m \in wire, MessageHolds(m)
    PROVE  MessageHolds(m)'
<1>1. \A c \in Clients, d \in Decisions : Holds(c, d) => Holds(c, d)'
  BY DEF Kept, Holds
<1>2. m.for \in {"call", "record", "excuse"} => Holds(m.from, m.on)'
  BY <1>1, MessageType DEF MessageHolds, Holds
<1>3. m.for = "record" => m.from \in ran'[m.on]
  BY DEF MessageHolds, Holds, Kept
<1>4. QED BY <1>2, <1>3 DEF MessageHolds

LEMMA KeptClient ==
    ASSUME TypeOK, Kept, NEW c \in Clients, ClientHolds(c), client'[c] = client[c]
    PROVE  ClientHolds(c)'
<1>1. Replied(c, "record", "ok") \/ client[c].at = "executed" => client[c].on \in Decisions
  BY DEF ClientHolds, Granted, Holds, Replied
<1>2. Replied(c, "call", "ok") \/ client[c].at \in {"record", "executed"}
        => client[c].on \in Decisions
  BY DEF ClientHolds, Granted, Holds, Replied
<1>3. Granted(c)' => Holds(c, client[c].on)'
  BY DEF ClientHolds, Granted, Holds, Replied, Kept
<1>4. (Replied(c, "call", "ok") \/ client[c].at \in {"record", "executed"})'
        => c \in ran'[client[c].on]
  BY <1>2 DEF ClientHolds, Replied, Kept
<1>5. (Replied(c, "record", "ok") \/ client[c].at = "executed")'
        => phase'[client[c].on] = "executed" /\ outcome'[client[c].on] = "result"
  BY <1>1 DEF ClientHolds, Replied, Kept
<1>6. (Replied(c, "evaluate", "ok"))' => client[c].on \in Decisions
  BY DEF ClientHolds, Replied
<1>7. QED BY <1>3, <1>4, <1>5, <1>6 DEF ClientHolds

-----------------------------------------------------------------------------
(* The three ways a step touches a client.                                 *)

LEMMA SendKeeps ==
    ASSUME PathInv, NEW c \in Clients, NEW step \in Steps, NEW d, Send(c, step, d), TypeOK',
           step = "reserve" => d \in Decisions,
           step \in {"call", "record", "excuse"} => Holds(c, d),
           step = "record" => c \in ran[d]
    PROVE  PathInv'
<1>1. Kept
  BY DEF Send, gate, Kept
<1>2. client'[c] = [at |-> step, on |-> d, reply |-> "none"]
  BY DEF Send, PathInv, TypeOK
<1>3. ClientHolds(c)'
  BY <1>2 DEF Send, gate, Steps, ClientHolds, Granted, Holds, Replied
<1>4. ASSUME NEW x \in Clients \ {c} PROVE ClientHolds(x)'
  BY <1>1, KeptClient DEF Send, PathInv, TypeOK
<1>5. MessageHolds([from |-> c, for |-> step, on |-> d])'
  BY DEF Send, gate, MessageHolds, Holds
<1>6. ASSUME NEW m \in wire PROVE MessageHolds(m)'
  BY <1>1, KeptMessage DEF PathInv
<1>7. ASSUME NEW x \in Decisions PROVE RunHolds(x)'
  BY DEF Send, gate, PathInv, RunHolds
<1>8. wire' = wire \cup {[from |-> c, for |-> step, on |-> d]}
  BY DEF Send
<1>9. \A m \in wire' : MessageHolds(m)'
  BY <1>5, <1>6, <1>8
<1>10. QED BY <1>3, <1>4, <1>7, <1>9 DEF PathInv

LEMMA FinishKeeps ==
    ASSUME PathInv, NEW c \in Clients, NEW answer \in Answers, Finish(c, answer), TypeOK',
           answer = "executed" => Replied(c, "record", "ok")
    PROVE  PathInv'
<1>1. Kept
  BY DEF Finish, gate, Kept
<1>2. client'[c].at = answer /\ client'[c].on = client[c].on
  BY DEF Finish, PathInv, TypeOK
<1>3. ClientHolds(c)'
  BY <1>2 DEF Finish, gate, Answers, PathInv, ClientHolds, Granted, Holds, Replied
<1>4. ASSUME NEW x \in Clients \ {c} PROVE ClientHolds(x)'
  BY <1>1, KeptClient DEF Finish, PathInv, TypeOK
<1>5. ASSUME NEW m \in wire PROVE MessageHolds(m)'
  BY <1>1, KeptMessage DEF PathInv
<1>6. ASSUME NEW x \in Decisions PROVE RunHolds(x)'
  BY DEF Finish, gate, PathInv, RunHolds
<1>7. \A m \in wire' : MessageHolds(m)'
  BY <1>5 DEF Finish
<1>8. QED BY <1>3, <1>4, <1>6, <1>7 DEF PathInv

LEMMA ServeKeeps ==
    ASSUME PathInv, Kept, NEW m \in wire, NEW reply \in Replies, NEW d, Serve(m, reply, d),
           TypeOK', \A x \in Decisions : RunHolds(x)',
           m.for \in {"call", "record", "excuse"} => d = m.on,
           m.for = "evaluate" /\ reply = "ok" => d \in Decisions,
           m.for = "reserve" /\ reply = "ok" => Holds(m.from, d)',
           m.for = "call" /\ reply = "ok" => m.from \in ran'[d],
           m.for = "record" /\ reply = "ok" => phase'[d] = "executed" /\ outcome'[d] = "result"
    PROVE  PathInv'
<1>1. m.from \in Clients /\ m.for \in Steps
  BY MessageType DEF PathInv
<1>2. ASSUME NEW x \in wire PROVE MessageHolds(x)'
  BY KeptMessage DEF PathInv
<1>3. ASSUME NEW c \in Clients, client'[c] = client[c] PROVE ClientHolds(c)'
  BY <1>3, KeptClient DEF PathInv
<1>4. ASSUME client' = [client EXCEPT ![m.from] = [at |-> m.for, on |-> d, reply |-> reply]]
      PROVE  ClientHolds(m.from)'
  <2>1. client'[m.from] = [at |-> m.for, on |-> d, reply |-> reply]
    BY <1>1, <1>4 DEF PathInv, TypeOK
  <2>2. m.for \in {"call", "record", "excuse"} => Holds(m.from, d)'
    BY <1>2 DEF MessageHolds
  <2>3. m.for = "record" => m.from \in ran'[d]
    BY <1>2 DEF MessageHolds
  <2>4. QED BY <1>1, <2>1, <2>2, <2>3 DEF ClientHolds, Granted, Replied, Steps
<1>5. ASSUME NEW c \in Clients PROVE ClientHolds(c)'
  <2>1. CASE client' = [client EXCEPT ![m.from] = [at |-> m.for, on |-> d, reply |-> reply]]
    <3>1. c # m.from => client'[c] = client[c]
      BY <2>1 DEF PathInv, TypeOK
    <3>2. QED BY <1>3, <1>4, <2>1, <3>1
  <2>2. CASE UNCHANGED client
    BY <1>3, <2>2
  <2>3. QED BY <2>1, <2>2 DEF Serve
<1>6. \A x \in wire' : MessageHolds(x)'
  BY <1>2 DEF Serve
<1>7. QED BY <1>5, <1>6 DEF PathInv

-----------------------------------------------------------------------------
(* The invariant.                                                          *)

LEMMA ProceedKeeps ==
    ASSUME PathInv, NEW c \in Clients, Proceed(c), TypeOK'
    PROVE  PathInv'
<1>1. ClientHolds(c)
  BY DEF PathInv
<1>2. CASE Reserve(c)
  BY <1>1, <1>2, SendKeeps DEF Reserve, ClientHolds, Steps
<1>3. CASE Tell(c)
  BY <1>3, FinishKeeps DEF Tell, Answers
<1>4. CASE Call(c)
  BY <1>1, <1>4, SendKeeps DEF Call, ClientHolds, Granted, Steps
<1>5. CASE Record(c)
  <2>1. client[c].at = "call" /\ Replied(c, "call", "ok")
    BY <1>5 DEF Record, ToolAnswered, Replied
  <2>2. Holds(c, client[c].on) /\ c \in ran[client[c].on]
    BY <1>1, <2>1 DEF ClientHolds, Granted
  <2>3. QED BY <1>5, <2>2, SendKeeps DEF Record, Steps
<1>6. CASE Succeed(c)
  BY <1>6, FinishKeeps DEF Succeed, Recorded, Answers
<1>7. CASE Excuse(c)
  <2>1. Holds(c, client[c].on)
    BY <1>1, <1>7 DEF Excuse, ClientHolds, Granted
  <2>2. QED BY <1>7, <2>1, SendKeeps DEF Excuse, Steps
<1>8. CASE Fail(c)
  BY <1>8, FinishKeeps DEF Fail, Answers
<1>9. QED
  BY <1>2, <1>3, <1>4, <1>5, <1>6, <1>7, <1>8 DEF Proceed

LEMMA ServersKeep ==
    ASSUME PathInv, Servers, TypeOK'
    PROVE  PathInv'
<1> USE DEF Replies
<1>1. ASSUME NEW m \in wire, NEW d \in Decisions, NEW p \in {"asked", "permitted", "refused"},
             GateEvaluates(m, d, p)
      PROVE  PathInv'
  <2>1. /\ phase[d] = "absent"
        /\ phase' = [phase EXCEPT ![d] = p]
        /\ authority' = authority /\ outcome' = outcome /\ ran' = ran
    BY <1>1 DEF GateEvaluates
  <2>2. Kept
    BY <2>1 DEF Kept, Spent, PathInv, TypeOK
  <2>3. \A x \in Decisions : RunHolds(x)'
    BY <2>1 DEF PathInv, TypeOK, RunHolds, Spent
  <2>4. QED BY <1>1, <2>2, <2>3, ServeKeeps DEF GateEvaluates
<1>2. ASSUME NEW m \in wire, GateReserves(m) PROVE PathInv'
  <2>1. m.for = "reserve" /\ m.on \in Decisions /\ m.from \in Clients
    BY <1>2, MessageType DEF GateReserves, PathInv, MessageHolds
  <2>2. /\ phase[m.on] = "permitted"
        /\ phase' = [phase EXCEPT ![m.on] = "reserved"]
        /\ authority' = [authority EXCEPT ![m.on] = m.from]
        /\ outcome' = outcome /\ ran' = ran
    BY <1>2 DEF GateReserves, Reservable, Stored
  <2>3. Kept
    BY <2>1, <2>2 DEF Kept, Spent, PathInv, TypeOK
  <2>4. ran[m.on] = {}
    BY <2>1, <2>2 DEF PathInv, RunHolds, Spent
  <2>5. Holds(m.from, m.on)'
    BY <2>1, <2>2 DEF Holds, Spent, PathInv, TypeOK
  <2>6. ASSUME NEW x \in Decisions PROVE RunHolds(x)'
    <3>1. CASE x = m.on
      BY <2>2, <2>4, <3>1 DEF PathInv, RunHolds
    <3>2. CASE x # m.on
      BY <2>2, <3>2 DEF PathInv, TypeOK, RunHolds
    <3>3. QED BY <3>1, <3>2
  <2>7. QED BY <1>2, <2>1, <2>3, <2>5, <2>6, ServeKeeps DEF GateReserves
<1>3. ASSUME NEW m \in wire, GateIsInterrupted(m) PROVE PathInv'
  <2>1. /\ m.for = "reserve"
        /\ phase[m.on] = "permitted"
        /\ phase' = [phase EXCEPT ![m.on] = "reserved"]
        /\ authority' = authority /\ outcome' = outcome /\ ran' = ran
    BY <1>3 DEF GateIsInterrupted, Reservable
  <2>2. Kept
    BY <2>1 DEF Kept, Spent, PathInv, TypeOK
  <2>3. \A x \in Decisions : RunHolds(x)'
    BY <2>1 DEF PathInv, TypeOK, RunHolds, Spent
  <2>4. QED BY <1>3, <2>1, <2>2, <2>3, ServeKeeps DEF GateIsInterrupted
<1>4. ASSUME NEW m \in wire, ToolRuns(m) PROVE PathInv'
  <2>1. m.for = "call" /\ Holds(m.from, m.on)
    BY <1>4 DEF ToolRuns, PathInv, MessageHolds
  <2>2. /\ phase' = phase /\ authority' = authority /\ outcome' = outcome
        /\ ran' = [ran EXCEPT ![m.on] = ran[m.on] \cup {m.from}]
    BY <1>4 DEF ToolRuns, gate
  <2>3. Kept
    BY <2>2 DEF Kept, PathInv, TypeOK
  <2>4. \A x \in Decisions : RunHolds(x)'
    BY <2>1, <2>2 DEF PathInv, TypeOK, RunHolds, Holds
  <2>5. m.from \in ran'[m.on]
    BY <2>1, <2>2 DEF Holds, PathInv, TypeOK
  <2>6. QED BY <1>4, <2>1, <2>3, <2>4, <2>5, ServeKeeps DEF ToolRuns
<1>5. ASSUME NEW m \in wire, GateRecords(m) PROVE PathInv'
  <2>1. m.for \in {"record", "excuse"} /\ Holds(m.from, m.on)
    BY <1>5 DEF GateRecords, PathInv, MessageHolds
  <2>2. /\ phase[m.on] = "reserved"
        /\ phase' = [phase EXCEPT ![m.on] = "executed"]
        /\ outcome' = [outcome EXCEPT ![m.on] = IF m.for = "record" THEN "result" ELSE "error"]
        /\ authority' = authority /\ ran' = ran
    BY <1>5 DEF GateRecords, Settleable
  <2>3. Kept
    BY <2>2 DEF Kept, Spent, PathInv, TypeOK
  <2>4. m.for = "record" => authority[m.on] \in ran[m.on]
    BY <2>1 DEF PathInv, MessageHolds, Holds
  <2>5. ASSUME NEW x \in Decisions PROVE RunHolds(x)'
    <3>1. CASE x = m.on
      BY <2>2, <2>4, <3>1 DEF PathInv, TypeOK, RunHolds, Spent
    <3>2. CASE x # m.on
      BY <2>2, <3>2 DEF PathInv, TypeOK, RunHolds
    <3>3. QED BY <3>1, <3>2
  <2>6. m.for = "record" => phase'[m.on] = "executed" /\ outcome'[m.on] = "result"
    BY <2>1, <2>2 DEF Holds, PathInv, TypeOK
  <2>7. QED BY <1>5, <2>1, <2>3, <2>5, <2>6, ServeKeeps DEF GateRecords
<1>6. ASSUME NEW m \in wire, Refuse(m) PROVE PathInv'
  <2>1. Kept
    BY <1>6 DEF Refuse, gate, Kept
  <2>2. \A x \in Decisions : RunHolds(x)'
    BY <1>6 DEF Refuse, gate, PathInv, RunHolds
  <2>3. QED BY <1>6, <2>1, <2>2, ServeKeeps DEF Refuse
<1>7. ASSUME NEW d \in Decisions,
             Reconcile(d) \/ \E p \in {"permitted", "refused"} : Approve(d, p)
      PROVE  PathInv'
  <2>1. /\ UNCHANGED <<authority, client, wire, ran>>
        /\ phase[d] \in {"asked", "reserved"}
        /\ \/ outcome' = outcome
           \/ outcome' = [outcome EXCEPT ![d] = "resolved"]
        /\ \E p \in {"permitted", "refused", "reconciled"} :
              /\ phase' = [phase EXCEPT ![d] = p]
              /\ phase[d] = "reserved" => p = "reconciled"
    BY <1>7 DEF Reconcile, Approve, Settleable
  <2>2. Kept
    BY <2>1 DEF Kept, Spent, PathInv, TypeOK
  <2>3. \A x \in Decisions : RunHolds(x)'
    BY <2>1 DEF PathInv, TypeOK, RunHolds, Spent
  <2>4. \A c \in Clients : ClientHolds(c)'
    BY <2>1, <2>2, KeptClient DEF PathInv
  <2>5. \A m \in wire' : MessageHolds(m)'
    BY <2>1, <2>2, KeptMessage DEF PathInv
  <2>6. QED BY <2>3, <2>4, <2>5 DEF PathInv
<1>8. QED
  BY <1>1, <1>2, <1>3, <1>4, <1>5, <1>6, <1>7 DEF Servers

LEMMA PathStep == ASSUME PathInv, [Next]_vars PROVE PathInv'
<1>1. TypeOK'
  BY TypeStep DEF PathInv
<1>2. ASSUME NEW c \in Clients, Ask(c) PROVE PathInv'
  BY <1>1, <1>2, SendKeeps DEF Ask, Steps
<1>3. ASSUME NEW c \in Clients, NEW d \in Decisions, Present(c, d) PROVE PathInv'
  BY <1>1, <1>3, SendKeeps DEF Present, Steps
<1>4. ASSUME NEW c \in Clients, Proceed(c) PROVE PathInv'
  BY <1>1, <1>4, ProceedKeeps
<1>5. ASSUME NEW c \in Clients, Crash(c) PROVE PathInv'
  BY <1>1, <1>5, FinishKeeps DEF Crash, Answers
<1>6. CASE Servers
  BY <1>1, <1>6, ServersKeep
<1>7. CASE UNCHANGED vars
  BY <1>7
  DEF vars, gate, PathInv, TypeOK, ClientHolds, MessageHolds, RunHolds, Granted, Replied, Holds
<1>8. QED BY <1>2, <1>3, <1>4, <1>5, <1>6, <1>7 DEF Next

\* Whatever is lost, late or abandoned, a client past the grant holds the
\* authority of its decision, and so does every request it left behind.
THEOREM PathInvariant == Spec => []PathInv
<1>1. Init => PathInv
  BY DEF Init, Gate!Init, Gate!Phases, Idle, PathInv, TypeOK, Steps, Replies, Outcomes,
         ClientHolds, MessageHolds, RunHolds, Granted, Replied
<1>2. PathInv /\ [Next]_vars => PathInv'
  BY PathStep
<1>3. QED BY <1>1, <1>2, PTL DEF Spec

\* The tool runs for one client of a decision only (execution_reserve answers
\* one authority).
THEOREM OneRun == Spec => []OneRunPerDecision
<1>1. PathInv => OneRunPerDecision
  BY DEF PathInv, RunHolds, OneRunPerDecision
<1>2. QED BY <1>1, PathInvariant, PTL

\* What ran is on record, however the proxy or the server that called the tool
\* failed.
THEOREM NoRunIsLost == Spec => []RunsAreOnRecord
<1>1. PathInv => RunsAreOnRecord
  BY DEF PathInv, RunHolds, RunsAreOnRecord, Spent
<1>2. QED BY <1>1, PathInvariant, PTL

\* "executed" is answered for what ran and was recorded (call, then
\* record_execution, then the answer).
THEOREM AnswersAreTrue == Spec => []ExecutedIsTrue
<1>1. PathInv => ExecutedIsTrue
  BY DEF PathInv, ClientHolds, ExecutedIsTrue
<1>2. QED BY <1>1, PathInvariant, PTL

\* A result on record is the result of a run.
THEOREM RecordsAreTrue == Spec => []EvidenceIsTrue
<1>1. PathInv => EvidenceIsTrue
  BY DEF PathInv, RunHolds, EvidenceIsTrue
<1>2. QED BY <1>1, PathInvariant, PTL
=============================================================================
