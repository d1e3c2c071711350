--------------------------- MODULE ToolAuthority ---------------------------
(***************************************************************************)
(* The protected tool's side of an execution authority                     *)
(* (action_gate/tool_server.py): a call presents an authority, the server  *)
(* verifies the envelope, asks the Gate for the decision and for the       *)
(* current world, and claims the authority's nonce in its own SQLite file  *)
(* before the tool answers.                                                *)
(*                                                                         *)
(* The server is a ThreadingHTTPServer: calls interleave between any two   *)
(* of those steps, and the clock, the world and the registry move on.      *)
(*                                                                         *)
(* Left out: the signature, tenant, action and policy bindings, which are  *)
(* functions of the call alone.  The nonce of an authority is the nonce of *)
(* its decision, so a decision stands for it; the Gate may have given out  *)
(* more than one authority with that nonce (see ExecutionGate).            *)
(***************************************************************************)
EXTENDS Naturals, FiniteSets

CONSTANTS
    Decisions,   \* decisions with an authority
    Calls,       \* requests to the protected tool
    MaxTime,     \* bound: the clock, in seconds
    MaxWorld,    \* bound: world versions
    MaxIssued    \* bound: authorities given out for one decision

ASSUME ToolAssumption == MaxTime \in Nat /\ MaxWorld \in Nat /\ MaxIssued \in Nat

VARIABLES
    now,     \* int(time.time()), for the Gate and the tool alike
    world,   \* the Gate's current world version
    bound,   \* the world version a decision was evaluated in
    issued,  \* the authorities the Gate gave out
    used,    \* used_authorities: expires_at of the row with this nonce, 0 for no row
    call,    \* what the server is doing for each call
    claims   \* ghost: the claims that succeeded, by nonce

vars == <<now, world, bound, issued, used, call, claims>>

-----------------------------------------------------------------------------

Authority == [decision : Decisions, issued_at : Nat, expires_at : Nat]

Idle == [at |-> "idle"]
Done == [at |-> "done"]

\* A call in flight: its authority, the world when it arrived and the clock
\* reading _claim_nonce works with.
Active ==
    [at : {"verified", "admitted", "claiming"}, authority : Authority,
     seen : Nat, clock : Nat]

Claims == [call : Calls, expires_at : Nat, seen : Nat, at : Nat]

Init ==
    /\ now    = 0
    /\ world  = 1
    /\ bound  = [d \in Decisions |-> 1]
    /\ issued = {}
    /\ used   = [d \in Decisions |-> 0]
    /\ call   = [c \in Calls |-> Idle]
    /\ claims = [d \in Decisions |-> {}]

At(c, stage) == call[c].at = stage

Goto(c, stage) == call' = [call EXCEPT ![c].at = stage]

Finish(c) == call' = [call EXCEPT ![c] = Done]

\* A faulty InWorld: the current world is not compared.
AnyWorld(d) == TRUE

\* The record's world_version is the current one.
InWorld(d) == world = bound[d]

\* A faulty Purged: rows are dropped one second early.
PurgedEarly(clock) ==
    [d \in Decisions |-> IF used[d] <= clock + 1 THEN 0 ELSE used[d]]

\* DELETE FROM used_authorities WHERE expires_at <= now
Purged(clock) ==
    [d \in Decisions |-> IF used[d] <= clock THEN 0 ELSE used[d]]

\* The Gate gives out an authority for a decision.  The decision was evaluated
\* in one world, which may be past by the time the authority is out; further
\* authorities of the decision carry the same nonce and the same world.
Issue(d, ttl, w) ==
    LET mine == {a \in issued : a.decision = d} IN
    /\ Cardinality(mine) < MaxIssued
    /\ now + ttl <= MaxTime
    /\ w \in 1..world
    /\ mine # {} => w = bound[d]
    /\ bound' = [bound EXCEPT ![d] = w]
    /\ issued' = issued \cup
          {[decision |-> d, issued_at |-> now, expires_at |-> now + ttl]}
    /\ UNCHANGED <<now, world, used, call, claims>>

\* verify_authority_envelope, then the decision's record from the Gate.
Verify(c, a) ==
    /\ At(c, "idle")
    /\ a \in issued
    /\ a.issued_at <= now /\ now < a.expires_at
    /\ call' = [call EXCEPT ![c] =
          [at |-> "verified", authority |-> a, seen |-> world, clock |-> 0]]
    /\ UNCHANGED <<now, world, bound, issued, used, claims>>

\* The second request to the Gate: the current world.
CheckWorld(c) ==
    /\ At(c, "verified")
    /\ InWorld(call[c].authority.decision)
    /\ Goto(c, "admitted")
    /\ UNCHANGED <<now, world, bound, issued, used, claims>>

\* _claim_nonce reads the clock before it has the database's write lock ...
ReadClock(c) ==
    /\ At(c, "admitted")
    /\ call' = [call EXCEPT ![c].at = "claiming", ![c].clock = now]
    /\ UNCHANGED <<now, world, bound, issued, used, claims>>

\* ... and in one transaction drops the rows expired at that reading and
\* inserts its own; a row with the same nonce fails it.  The tool runs next.
Claim(c) ==
    LET a == call[c].authority
        d == a.decision IN
    /\ At(c, "claiming")
    /\ Purged(call[c].clock)[d] = 0
    /\ used' = [Purged(call[c].clock) EXCEPT ![d] = a.expires_at]
    /\ claims' = [claims EXCEPT ![d] = @ \cup
          {[call |-> c, expires_at |-> a.expires_at, seen |-> call[c].seen, at |-> now]}]
    /\ Finish(c)
    /\ UNCHANGED <<now, world, bound, issued>>

\* The call is rejected, the Gate or the database is unavailable, or the
\* connection is lost.
Reject(c) ==
    /\ call[c].at \in {"verified", "admitted", "claiming"}
    /\ Finish(c)
    /\ UNCHANGED <<now, world, bound, issued, used, claims>>

Tick ==
    /\ now < MaxTime
    /\ now' = now + 1
    /\ UNCHANGED <<world, bound, issued, used, call, claims>>

CommitWorld ==
    /\ world < MaxWorld
    /\ world' = world + 1
    /\ UNCHANGED <<now, bound, issued, used, call, claims>>

Serve(c) ==
    \/ \E a \in issued : Verify(c, a)
    \/ CheckWorld(c)
    \/ ReadClock(c)
    \/ Claim(c)
    \/ Reject(c)

Environment ==
    \/ \E d \in Decisions, ttl \in 1..MaxTime, w \in 1..MaxWorld : Issue(d, ttl, w)
    \/ Tick
    \/ CommitWorld

Next == (\E c \in Calls : Serve(c)) \/ Environment

Spec == Init /\ [][Next]_vars

-----------------------------------------------------------------------------

\* Every variable keeps its type.
TypeOK ==
    /\ now \in Nat
    /\ world \in Nat
    /\ bound \in [Decisions -> Nat]
    /\ issued \subseteq Authority
    /\ used \in [Decisions -> Nat]
    /\ call \in [Calls -> Active \cup {Idle, Done}]
    /\ claims \in [Decisions -> SUBSET Claims]

\* Of two calls that ran the tool on one nonce, one ran after the authority
\* of the other had expired: while an authority is valid, no race of calls,
\* no purge by a call on another nonce and no stale clock reading replays it.
NoReplayWhileValid ==
    \A d \in Decisions : \A x, y \in claims[d] :
        x = y \/ x.at >= y.expires_at \/ y.at >= x.expires_at

\* The world a call was admitted in was current when the call arrived or
\* became current later: an authority of a world already left is refused.
StaleAuthorityRejected ==
    \A d \in Decisions : \A x \in claims[d] : x.seen <= bound[d]

\* "Single use: a consumed or concurrently claimed nonce cannot authorize a
\* second execution" (SECURITY_AUTHORITY_GATE.md).
SingleUse ==
    \A d \in Decisions : \A x, y \in claims[d] : x = y

\* The inductive strengthening: the row of a claim outlives its authority,
\* and a call past the world check was admitted in the world of its decision.
RegistryInv ==
    /\ \A d \in Decisions : \A x \in claims[d] :
          now < x.expires_at => used[d] = x.expires_at
    /\ \A c \in Calls :
          /\ At(c, "claiming") => call[c].clock <= now
          /\ call[c].at \in {"verified", "admitted", "claiming"} =>
                /\ call[c].authority \in issued
                /\ call[c].seen <= world
          /\ call[c].at \in {"admitted", "claiming"} =>
                call[c].seen <= bound[call[c].authority.decision]
    /\ \A d \in Decisions : claims[d] # {} => \E a \in issued : a.decision = d
    /\ NoReplayWhileValid
    /\ StaleAuthorityRejected
=============================================================================
