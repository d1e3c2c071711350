-------------------------- MODULE EnforcementPath --------------------------
(***************************************************************************)
(* The clients that carry an agent's action through the Action Gate to the *)
(* protected tool: the HTTP and MCP proxies (enforcement_proxy.py) and the *)
(* ChatGPT server (chatgpt_mcp_server.py, over action_gate_sdk.py).  Each  *)
(* of their calls is a request on the wire, which the gate or the tool may *)
(* serve late, refuse or never see, and whose reply may be lost; a client  *)
(* that gave up on a request does not take it back.                        *)
(*                                                                         *)
(* The gate is its contract, DecisionLifecycle, to which ExecutionGate is  *)
(* proved to be true: one endpoint moves a decision by one phase.  What    *)
(* makes it refuse (expiry, another world, an approval that lapsed, an     *)
(* invalid binding, no connection) is left to chance, and so is what makes *)
(* the tool refuse; ToolAuthority models that.                             *)
(***************************************************************************)
EXTENDS FiniteSets

CONSTANTS
    Decisions,       \* decision ids
    HttpClients,     \* requests to the HTTP proxy
    McpClients,      \* requests to the MCP proxy
    ChatGptClients,  \* calls of protected_read_public_file
    Nil              \* no decision, no client

Clients == HttpClients \cup McpClients \cup ChatGptClients

ASSUME PathAssumption ==
    /\ Nil \notin Decisions \cup Clients
    /\ HttpClients \cap ChatGptClients = {}
    /\ McpClients \cap ChatGptClients = {}
    /\ HttpClients \cap McpClients = {}

VARIABLES
    phase,      \* the gate's record of each decision
    authority,  \* the client in whose name execution_authority was stored
    outcome,    \* what the record says of the execution
    client,     \* what each client waits for, or how it answered
    wire,       \* requests not yet served
    ran         \* ghost: the clients whose call ran the tool

gate == <<phase, authority, outcome>>
vars == <<gate, client, wire, ran>>

Gate == INSTANCE DecisionLifecycle

-----------------------------------------------------------------------------

Outcomes == {"none", "result", "error", "resolved"}

\* The requests a client makes, in this order; "excuse" records a tool_error.
Steps == {"evaluate", "reserve", "call", "record", "excuse"}

Answers == {"told", "executed", "failed", "crashed"}

Replies == {"none", "ok", "blocked", "refused"}

Messages == [from : Clients, for : Steps, on : Decisions \cup {Nil}]

Idle == [at |-> "idle", on |-> Nil, reply |-> "none"]

Init ==
    /\ Gate!Init
    /\ authority = [d \in Decisions |-> Nil]
    /\ outcome = [d \in Decisions |-> "none"]
    /\ client = [c \in Clients |-> Idle]
    /\ wire = {}
    /\ ran = [d \in Decisions |-> {}]

-----------------------------------------------------------------------------
(* Clients.                                                                *)

Waits(c) == client[c].at \in Steps

Replied(c, step, reply) == client[c].at = step /\ client[c].reply = reply

\* A faulty ToolAnswered: the reply of the tool is not waited for.
ToolCalled(c) == client[c].at = "call"

ToolAnswered(c) == Replied(c, "call", "ok")

\* A faulty Recorded: a record the gate did not confirm is passed over.
RecordSent(c) == client[c].at = "record"

Recorded(c) == Replied(c, "record", "ok")

\* A faulty GivesUp: urlopen without a timeout, and the other side is silent.
GivesUpOnReply(c) == client[c].reply \in {"blocked", "refused"}

\* An HTTP error, or no reply: the connection broke or the timeout passed.
GivesUp(c) == client[c].reply # "ok"

Send(c, step, d) ==
    /\ client' = [client EXCEPT ![c] = [at |-> step, on |-> d, reply |-> "none"]]
    /\ wire' = wire \cup {[from |-> c, for |-> step, on |-> d]}
    /\ UNCHANGED <<gate, ran>>

Finish(c, answer) ==
    /\ client' = [client EXCEPT ![c].at = answer]
    /\ UNCHANGED <<gate, wire, ran>>

Ask(c) == client[c].at = "idle" /\ Send(c, "evaluate", Nil)

\* The HTTP proxy is given a decision id, finds ALLOW in the evidence
\* (permitted) and reserves.
Present(c, d) ==
    /\ c \in HttpClients
    /\ client[c].at = "idle"
    /\ phase[d] \in {"permitted", "reserved", "executed", "reconciled"}
    /\ Send(c, "reserve", d)

\* The others evaluate and reserve in one go ...
Reserve(c) ==
    /\ c \notin HttpClients
    /\ Replied(c, "evaluate", "ok")
    /\ Send(c, "reserve", client[c].on)

\* ... and report a decision that is not ALLOW.  The HTTP proxy reports any
\* decision, and forbids a decision id whose evidence is not what it expects.
Tell(c) ==
    /\ \/ Replied(c, "evaluate", "blocked")
       \/ c \in HttpClients /\ Replied(c, "evaluate", "ok")
       \/ c \in HttpClients /\ client[c].at = "idle"
    /\ Finish(c, "told")

Call(c) == Replied(c, "reserve", "ok") /\ Send(c, "call", client[c].on)

Record(c) == ToolAnswered(c) /\ Send(c, "record", client[c].on)

Succeed(c) == Recorded(c) /\ Finish(c, "executed")

\* Whatever failed after the reservation, the ChatGPT server records it.
Excuse(c) ==
    /\ c \in ChatGptClients
    /\ client[c].at \in {"call", "record"}
    /\ GivesUp(c)
    /\ Send(c, "excuse", client[c].on)

\* The answer is an HTTP error, or the exception is raised again.
Fail(c) ==
    /\ \/ client[c].at \in {"evaluate", "reserve"} /\ GivesUp(c)
       \/ client[c].at \in {"call", "record"} /\ GivesUp(c) /\ c \notin ChatGptClients
       \/ client[c].at = "excuse" /\ (GivesUp(c) \/ Replied(c, "excuse", "ok"))
    /\ Finish(c, "failed")

\* The process of the proxy or of the server ends.
Crash(c) == Waits(c) /\ Finish(c, "crashed")

Proceed(c) ==
    \/ Reserve(c)
    \/ Tell(c)
    \/ Call(c)
    \/ Record(c)
    \/ Succeed(c)
    \/ Excuse(c)
    \/ Fail(c)

-----------------------------------------------------------------------------
(* The gate and the tool.                                                  *)

\* The request is served; its reply arrives if the client still waits for it.
Serve(m, reply, d) ==
    /\ m \in wire
    /\ wire' = wire \ {m}
    /\ \/ /\ client[m.from].at = m.for
          /\ client' = [client EXCEPT ![m.from] = [at |-> m.for, on |-> d, reply |-> reply]]
       \/ UNCHANGED client

\* A faulty Reservable: only consumption is tested.
ReservableAgain(d) == phase[d] \in {"permitted", "reserved"}

Reservable(d) == phase[d] = "permitted"

\* A faulty Stored: the authority is answered but not saved.
NotStored(d, c) == authority' = authority

Stored(d, c) == authority' = [authority EXCEPT ![d] = c]

GateEvaluates(m, d, p) ==
    /\ m.for = "evaluate"
    /\ phase[d] = "absent"
    /\ phase' = [phase EXCEPT ![d] = p]
    /\ Serve(m, IF p = "permitted" THEN "ok" ELSE "blocked", d)
    /\ UNCHANGED <<authority, outcome, ran>>

GateReserves(m) ==
    /\ m.for = "reserve"
    /\ Reservable(m.on)
    /\ phase' = [phase EXCEPT ![m.on] = "reserved"]
    /\ Stored(m.on, m.from)
    /\ Serve(m, "ok", m.on)
    /\ UNCHANGED <<outcome, ran>>

\* The reservation is marked and the authority never saved.
GateIsInterrupted(m) ==
    /\ m.for = "reserve"
    /\ Reservable(m.on)
    /\ phase' = [phase EXCEPT ![m.on] = "reserved"]
    /\ Serve(m, "refused", m.on)
    /\ UNCHANGED <<authority, outcome, ran>>

ToolRuns(m) ==
    /\ m.for = "call"
    /\ ran' = [ran EXCEPT ![m.on] = @ \cup {m.from}]
    /\ Serve(m, "ok", m.on)
    /\ UNCHANGED gate

\* A reservation with an authority can be settled.
Settleable(d) == phase[d] = "reserved" /\ authority[d] # Nil

GateRecords(m) ==
    /\ m.for \in {"record", "excuse"}
    /\ Settleable(m.on)
    /\ phase' = [phase EXCEPT ![m.on] = "executed"]
    /\ outcome' = [outcome EXCEPT ![m.on] = IF m.for = "record" THEN "result" ELSE "error"]
    /\ Serve(m, "ok", m.on)
    /\ UNCHANGED <<authority, ran>>

\* The gate or the tool answers an error, or the request is lost.
Refuse(m) == Serve(m, "refused", m.on) /\ UNCHANGED <<gate, ran>>

\* A person approves or rejects, and an operator reconciles.
Approve(d, p) ==
    /\ phase[d] = "asked"
    /\ phase' = [phase EXCEPT ![d] = p]
    /\ UNCHANGED <<authority, outcome, client, wire, ran>>

Reconcile(d) ==
    /\ Settleable(d)
    /\ phase' = [phase EXCEPT ![d] = "reconciled"]
    /\ outcome' = [outcome EXCEPT ![d] = "resolved"]
    /\ UNCHANGED <<authority, client, wire, ran>>

Servers ==
    \/ \E m \in wire :
          \/ \E d \in Decisions, p \in {"asked", "permitted", "refused"} :
                GateEvaluates(m, d, p)
          \/ GateReserves(m)
          \/ GateIsInterrupted(m)
          \/ ToolRuns(m)
          \/ GateRecords(m)
          \/ Refuse(m)
    \/ \E d \in Decisions :
          \/ \E p \in {"permitted", "refused"} : Approve(d, p)
          \/ Reconcile(d)

Next ==
    \/ \E c \in Clients :
          \/ Ask(c)
          \/ \E d \in Decisions : Present(c, d)
          \/ Proceed(c)
          \/ Crash(c)
    \/ Servers

\* Every call of the ChatGPT server has a timeout of ten seconds; the calls
\* of the proxies have none, and nothing is assumed of them or of the others.
Fairness == \A c \in ChatGptClients : WF_vars(Proceed(c))

Spec == Init /\ [][Next]_vars /\ Fairness

-----------------------------------------------------------------------------
(* Correctness.                                                            *)

\* Every variable keeps its type.
TypeOK ==
    /\ phase \in [Decisions -> Gate!Phases]
    /\ authority \in [Decisions -> Clients \cup {Nil}]
    /\ outcome \in [Decisions -> Outcomes]
    /\ client \in [Clients -> [at : {"idle"} \cup Steps \cup Answers,
                               on : Decisions \cup {Nil}, reply : Replies]]
    /\ wire \subseteq Messages
    /\ ran \in [Decisions -> SUBSET Clients]

\* However many clients present, repeat or abandon a decision, the tool runs
\* for one of them only, even if it kept no registry of nonces.
OneRunPerDecision ==
    \A d \in Decisions : \A x, y \in ran[d] : x = y

\* What ran, ran under an authority that is on record, so that the execution
\* is recorded or can still be recorded or reconciled: no run is lost, however
\* the client that caused it failed.
RunsAreOnRecord ==
    \A d \in Decisions : ran[d] # {} =>
        /\ authority[d] \in ran[d]
        /\ phase[d] \in {"reserved", "executed", "reconciled"}

\* A client that answers "executed" is right: its own call ran the tool and
\* the record says so.
ExecutedIsTrue ==
    \A c \in Clients : client[c].at = "executed" =>
        LET d == client[c].on IN
        c \in ran[d] /\ phase[d] = "executed" /\ outcome[d] = "result"

\* A result in the record is the result of a run.
EvidenceIsTrue ==
    \A d \in Decisions : outcome[d] = "result" => authority[d] \in ran[d]

\* A call of the ChatGPT server ends, whatever the gate and the tool do.
ChatGptAnswers ==
    \A c \in ChatGptClients : Waits(c) ~> ~Waits(c)

-----------------------------------------------------------------------------
(* The inductive invariant behind the safety properties: who holds the     *)
(* authority of a decision, and what each message in flight may rely on.   *)

Spent == {"reserved", "executed", "reconciled"}

Holds(c, d) ==
    /\ d \in Decisions
    /\ authority[d] = c
    /\ phase[d] \in Spent

Granted(c) ==
    \/ Replied(c, "reserve", "ok")
    \/ client[c].at \in {"call", "record", "excuse", "executed"}

\* A client past the grant holds the authority of its decision; one past the
\* tool's answer has run; one past the record's answer is on record.
ClientHolds(c) ==
    /\ Replied(c, "evaluate", "ok") => client[c].on \in Decisions
    /\ Granted(c) => Holds(c, client[c].on)
    /\ Replied(c, "call", "ok") \/ client[c].at \in {"record", "executed"}
          => c \in ran[client[c].on]
    /\ Replied(c, "record", "ok") \/ client[c].at = "executed"
          => phase[client[c].on] = "executed" /\ outcome[client[c].on] = "result"

\* So do the requests it left on the wire, even after it gave up.
MessageHolds(m) ==
    /\ m.for = "reserve" => m.on \in Decisions
    /\ m.for \in {"call", "record", "excuse"} => Holds(m.from, m.on)
    /\ m.for = "record" => m.from \in ran[m.on]

\* Only the holder of the authority has run.
RunHolds(d) ==
    /\ ran[d] \subseteq {authority[d]}
    /\ ran[d] # {} => phase[d] \in Spent
    /\ outcome[d] = "result" => authority[d] \in ran[d]

PathInv ==
    /\ TypeOK
    /\ \A c \in Clients : ClientHolds(c)
    /\ \A m \in wire : MessageHolds(m)
    /\ \A d \in Decisions : RunHolds(d)
=============================================================================
