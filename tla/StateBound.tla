------------------------------ MODULE StateBound ------------------------------
(***************************************************************************)
(* state_bound: an oracle holds the world, threads refresh its trajectory, *)
(* context, state and evidence, and others execute on authorities issued   *)
(* for a world they read before.  execute_if_valid verifies and executes   *)
(* under the oracle's lock, at a time the caller read before it had it.    *)
(*                                                                         *)
(* A digest is what it digests.                                            *)
(***************************************************************************)
EXTENDS StoreClock

CONSTANTS
    Executors,     \* threads that execute
    Parts,         \* of the metadata: "context", "state", "evidence"
    Contents,      \* of a part, and of a trajectory
    AuthorityLife, \* expires_at_ns - issued_at_ns
    MaxVersion,    \* bound: versions of the world
    NoRun

ASSUME StateBoundAssumption == AuthorityLife \in Nat \ {0} /\ MaxVersion \in Nat

VARIABLES
    world,       \* the oracle's: [version, trajectory, metadata]
    executor,    \* what each thread is doing
    ran          \* ghost: the execution the last step made, if it made one

boundVars == <<now, world, executor, ran>>

Worlds ==
    [version : 1 .. MaxVersion, trajectory : Contents, metadata : [Parts -> Contents]]

BoundInit ==
    /\ now = 0
    /\ world \in {w \in Worlds : w.version = 1}
    /\ executor = [x \in Executors |-> [at |-> "idle"]]
    /\ ran = NoRun

-----------------------------------------------------------------------------

\* append: a new version, with metadata of its own or those there were.
AppendTrajectory ==
    /\ world.version < MaxVersion
    /\ \E t \in Contents, m \in {world.metadata} \cup [Parts -> Contents] :
           world' = [version |-> world.version + 1, trajectory |-> t, metadata |-> m]
    /\ ran' = NoRun
    /\ UNCHANGED <<now, executor>>

\* update_context, update_state and update_evidence keep the version.
Refresh(p) ==
    /\ \E c \in Contents : world' = [world EXCEPT !.metadata[p] = c]
    /\ ran' = NoRun
    /\ UNCHANGED <<now, executor>>

\* An ExecutionAuthority on a decision about world w, which digested some parts.
AuthorityOn(w, digested) ==
    [at |-> "issued", world |-> w, digested |-> digested, issued_at |-> now,
     expires_at |-> now + AuthorityLife]

\* latest, a decision on what was read and issue_authority, which answers nothing
\* for a decision that is not ALLOW on KNOWN.
Issue(x) ==
    /\ executor[x].at = "idle"
    /\ \E digested \in SUBSET Parts :
           executor' = [executor EXCEPT ![x] = AuthorityOn(world, digested)]
    /\ ran' = NoRun
    /\ UNCHANGED <<now, world>>

\* The caller reads the time it passes as now_ns.
ReadTime(x) ==
    /\ executor[x].at = "issued"
    /\ executor' = [executor EXCEPT ![x] =
           [at |-> "timed", world |-> @.world, digested |-> @.digested,
            issued_at |-> @.issued_at, expires_at |-> @.expires_at, ts |-> now]]
    /\ ran' = NoRun
    /\ UNCHANGED <<now, world>>

WorldUnchanged(a, w) == a.world.version = w.version /\ a.world.trajectory = w.trajectory

SeenByVerifierAtIssue(a) == a.world

\* verify_authority, against the world as it is under the lock.
SeenByVerifier(a) == world

Valid(a) ==
    /\ WorldUnchanged(a, SeenByVerifier(a))
    /\ \A p \in a.digested : a.world.metadata[p] = SeenByVerifier(a).metadata[p]
    /\ a.issued_at <= a.ts /\ a.ts < a.expires_at

\* execute_if_valid: verification and execution are one step, under the lock.  The
\* authority is not used up.
ExecuteIfValid(x) ==
    /\ executor[x].at = "timed"
    /\ ran' = IF Valid(executor[x])
              THEN [world |-> world, on |-> executor[x], at |-> now] ELSE NoRun
    /\ executor' = [executor EXCEPT ![x] = [at |-> "idle"]]
    /\ UNCHANGED <<now, world>>

BoundTick ==
    /\ Tick({executor[x].ts : x \in {y \in Executors : executor[y].at = "timed"}})
    /\ ran' = NoRun
    /\ UNCHANGED <<world, executor>>

BoundNext ==
    \/ AppendTrajectory
    \/ \E p \in Parts : Refresh(p)
    \/ \E x \in Executors : Issue(x) \/ ReadTime(x) \/ ExecuteIfValid(x)
    \/ BoundTick

BoundSpec == BoundInit /\ [][BoundNext]_boundVars

-----------------------------------------------------------------------------

\* What runs, runs in the version and trajectory it was decided for, with every
\* part the decision digested as it was then, and no later than the caller's delay
\* past its expiry, whatever the other threads append and refresh meanwhile.
RunsInDecidedWorld ==
    ran # NoRun =>
        /\ WorldUnchanged(ran.on, ran.world)
        /\ \A p \in ran.on.digested : ran.on.world.metadata[p] = ran.world.metadata[p]
        /\ ran.at < ran.on.expires_at + Delay
=============================================================================
