----------------------------- MODULE CsgIngress -----------------------------
(***************************************************************************)
(* POST /v1/csg/decide (action_gate/csg_routes.py, csg_ingress.py): a      *)
(* signed permission request is decided once per idempotency key, and a    *)
(* repeated request gets the stored decision back.                         *)
(*                                                                         *)
(* The endpoint is a coroutine that never awaits once it has the body, so  *)
(* a server process runs one request at a time; requests race between the  *)
(* processes that share a database.  Every storage call is a step.         *)
(*                                                                         *)
(* One tenant.  Left out: authentication, the timestamp window and the     *)
(* request signature, which reject a request before any decision is stored *)
(* and look at nothing but the request and the clock, and the REJECT       *)
(* validation events, which no code reads.                                 *)
(***************************************************************************)
EXTENDS Naturals

CONSTANTS
    Backend,          \* storage.backend()
    Processes,        \* server processes on one database
    Names,            \* request ids and idempotency keys: both are free strings
    Bodies,           \* what a request says, beyond its id
    KeyIsRequestId,   \* clients send the request id as the Idempotency-Key
    None,             \* no row
    MaxDecisions      \* bound: decisions built

Requests  == [id : Names, body : Bodies]

\* number orders the decisions by issued_at; it stands for the decision id.
Decisions == [number : Nat, request : Requests]

ASSUME IngressAssumption ==
    /\ Backend \in {"sqlite", "postgresql"}
    /\ KeyIsRequestId \in BOOLEAN
    /\ None \notin Decisions
    /\ MaxDecisions \in Nat

VARIABLES
    rows,      \* idempotency_keys: the decision stored under each key
    events,    \* validation_events with result PASS
    built,     \* how many decisions were built
    proc,      \* what each process is doing
    answers    \* ghost: the decisions answered

vars == <<rows, events, built, proc, answers>>

-----------------------------------------------------------------------------

Events  == [request : Requests, created_at : Nat]

Answers == [key : Names, request : Requests, decision : Decisions]

Idle == [at |-> "idle"]

Working ==
    [at : {"save", "reload", "record", "answer"},
     key : Names, request : Requests, decision : Decisions]

Init ==
    /\ rows    = [k \in Names |-> None]
    /\ events  = {}
    /\ built   = 0
    /\ proc    = [p \in Processes |-> Idle]
    /\ answers = {}

At(p, stage) == proc[p].at = stage

Start(p, stage, k, m, x) ==
    proc' = [proc EXCEPT ![p] =
        [at |-> stage, key |-> k, request |-> m, decision |-> x]]

Finish(p) == proc' = [proc EXCEPT ![p] = Idle]

\* A faulty SameRequest: the request digest is not compared.
AnyRequest(x, m) == TRUE

SameRequest(x, m) == x.request = m

\* A faulty RowAfterInsert: INSERT OR REPLACE.
RowReplaced(k, x) == x

\* INSERT ... ON CONFLICT DO NOTHING / INSERT OR IGNORE
RowAfterInsert(k, x) == IF rows[k] = None THEN x ELSE rows[k]

\* A faulty ReportsInserted: every backend reports what SQLite reports.
AlwaysReportsInserted(k) == TRUE

\* PostgreSQL returns a row for an insertion only.  SQLite returns a row with
\* the number of changes, and bool((0,)) is True.
ReportsInserted(k) == Backend = "sqlite" \/ rows[k] = None

\* load_idempotency finds nothing: the process builds a decision.
Build(p, k, m) ==
    /\ At(p, "idle")
    /\ rows[k] = None
    /\ built < MaxDecisions
    /\ built' = built + 1
    /\ Start(p, "save", k, m, [number |-> built + 1, request |-> m])
    /\ UNCHANGED <<rows, events, answers>>

\* load_idempotency finds a decision for the same request.  One for another
\* request is answered 409 and changes nothing.
Recall(p, k, m) ==
    /\ At(p, "idle")
    /\ rows[k] # None
    /\ SameRequest(rows[k], m)
    /\ Start(p, "record", k, m, rows[k])
    /\ UNCHANGED <<rows, events, built, answers>>

\* save_idempotency
Save(p) ==
    LET k == proc[p].key IN
    /\ At(p, "save")
    /\ rows' = [rows EXCEPT ![k] = RowAfterInsert(k, proc[p].decision)]
    /\ proc' = [proc EXCEPT ![p].at = IF ReportsInserted(k) THEN "record" ELSE "reload"]
    /\ UNCHANGED <<events, built, answers>>

\* The loser of a race takes the winner's decision, if it decides the same
\* request, and else answers 409.  No row is ever deleted: there is a winner.
Reload(p) ==
    LET winner == rows[proc[p].key] IN
    /\ At(p, "reload")
    /\ \/ /\ SameRequest(winner, proc[p].request)
          /\ proc' = [proc EXCEPT ![p].at = "record", ![p].decision = winner]
       \/ /\ ~SameRequest(winner, proc[p].request)
          /\ Finish(p)
    /\ UNCHANGED <<rows, events, built, answers>>

\* save_validation_event, with the raw request and the decision's issued_at.
Record(p) ==
    /\ At(p, "record")
    /\ events' = events \cup
          {[request |-> proc[p].request, created_at |-> proc[p].decision.number]}
    /\ proc' = [proc EXCEPT ![p].at = "answer"]
    /\ UNCHANGED <<rows, built, answers>>

Answer(p) ==
    /\ At(p, "answer")
    /\ answers' = answers \cup
          {[key |-> proc[p].key, request |-> proc[p].request, decision |-> proc[p].decision]}
    /\ Finish(p)
    /\ UNCHANGED <<rows, events, built>>

\* The process dies, or the database fails, between two storage calls.
Crash(p) ==
    /\ ~At(p, "idle")
    /\ Finish(p)
    /\ UNCHANGED <<rows, events, built, answers>>

Serve(p) ==
    \/ \E k \in Names, m \in Requests :
          /\ KeyIsRequestId => k = m.id
          /\ Build(p, k, m) \/ Recall(p, k, m)
    \/ Save(p)
    \/ Reload(p)
    \/ Record(p)
    \/ Answer(p)
    \/ Crash(p)

Next == \E p \in Processes : Serve(p)

Spec == Init /\ [][Next]_vars

-----------------------------------------------------------------------------
(* GET /v1/csg/replay/{request_id}                                         *)

\* load_validation_request: the newest PASS event of the request id; events
\* of one age come in any order.
Newest(id) ==
    {e \in events :
        /\ e.request.id = id
        /\ \A f \in events : f.request.id = id => f.created_at <= e.created_at}

\* The replay finds a request, finds a decision under its id and finds that
\* one decides the other: it does not answer 404, 409 or 500.  What it then
\* compares (the authority's digests, the policy) follows from the request.
Replays(id) ==
    /\ \E e \in events : e.request.id = id
    /\ rows[id] # None
    /\ \A e \in Newest(id) : e.request = rows[id].request

-----------------------------------------------------------------------------

TypeOK ==
    /\ rows \in [Names -> Decisions \cup {None}]
    /\ events \subseteq Events
    /\ built \in Nat
    /\ proc \in [Processes -> Working \cup {Idle}]
    /\ answers \subseteq Answers

\* "Recover the committed canonical decision instead of ... minting a second
\* authority-bearing decision" (csg_ingress.py:122): all answers under an
\* idempotency key, in whichever process, carry one decision.
OneDecisionPerKey ==
    \A a, b \in answers : a.key = b.key => a.decision = b.decision

\* Who was answered can have the decision replayed, at any later time and
\* whatever other requests raced with it, crashed or were refused.  This
\* needs the idempotency key to be the request id, as in the repository's
\* clients: csg_replay looks the decision up by request id.
AnsweredReplays == \A a \in answers : Replays(a.request.id)

Idempotent == INSTANCE IdempotentDecision
    WITH Keys     <- Names,
         decided  <- rows,
         answered <- [k \in Names |-> {a.decision : a \in {b \in answers : b.key = k}}]

\* The ingress implements one canonical decision per key.
IdempotentSpec == Idempotent!Spec

-----------------------------------------------------------------------------
(* Why it holds, on a backend that reports a lost race.                    *)

\* What a process goes on with is what is stored.
ProcSound(p) ==
    /\ proc[p].at \in {"save", "reload"} => proc[p].decision.request = proc[p].request
    /\ At(p, "reload") => rows[proc[p].key] # None
    /\ proc[p].at \in {"record", "answer"} =>
          /\ rows[proc[p].key] = proc[p].decision
          /\ proc[p].decision.request = proc[p].request
    /\ At(p, "answer") => \E e \in events : e.request = proc[p].request

\* What was answered is stored and recorded.
AnswerSound(a) ==
    /\ rows[a.key] = a.decision
    /\ a.decision.request = a.request
    /\ \E e \in events : e.request = a.request

IngressInv ==
    /\ TypeOK
    /\ \A p \in Processes : ProcSound(p)
    /\ \A a \in answers : AnswerSound(a)

\* With the request id as the key, what was recorded is stored, too.
RequestInv ==
    /\ \A p \in Processes : ~At(p, "idle") => proc[p].key = proc[p].request.id
    /\ \A a \in answers : a.key = a.request.id
    /\ \A e \in events :
          rows[e.request.id] # None /\ rows[e.request.id].request = e.request
=============================================================================
