---------------------------- MODULE OracleCommits ----------------------------
(***************************************************************************)
(* The State Oracle's table (action_gate/state_oracle.py) behind           *)
(* POST /v1/state/commit and GET /v1/state/current: commits read the clock,*)
(* then insert a row; the current world is the row with the latest         *)
(* committed_at, ties broken by the random snapshot_id.                    *)
(***************************************************************************)
EXTENDS StoreClock

CONSTANTS
    Commits,      \* commit requests
    Versions,     \* world versions the callers give
    MaxId         \* bound: snapshot ids are the numbers up to it

VARIABLES
    snapshots,    \* state_snapshots
    commit        \* what each request is doing

oracleVars == <<now, snapshots, commit>>

\* at is when the row was really inserted, which the code does not keep.
Rows == [id : Nat, world_version : Versions, committed_at : Nat, at : Nat]

OracleInit ==
    /\ now = 0
    /\ snapshots = {}
    /\ commit = [c \in Commits |-> [at |-> "idle"]]

LaterById(e, f) == e.id > f.id

Later(e, f) ==
    \/ e.committed_at > f.committed_at
    \/ e.committed_at = f.committed_at /\ e.id > f.id

\* get_current_snapshot: ORDER BY committed_at DESC, snapshot_id DESC LIMIT 1.
Current == CHOOSE e \in snapshots : \A f \in snapshots \ {e} : Later(e, f)

CommitDone(c, answer) == commit' = [commit EXCEPT ![c] = [at |-> answer]]

\* A bad signature, or no secret to check it with.
RejectCommit(c) ==
    /\ commit[c].at = "idle"
    /\ CommitDone(c, "refused")
    /\ UNCHANGED <<now, snapshots>>

StampCommit(c) ==
    /\ commit[c].at = "idle"
    /\ \E id \in 1 .. MaxId, v \in Versions :
           /\ \A d \in Commits : commit[d].at = "stamped" => commit[d].row.id # id
           /\ \A e \in snapshots : e.id # id
           /\ commit' = [commit EXCEPT ![c] =
                  [at |-> "stamped",
                   row |-> [id |-> id, world_version |-> v, committed_at |-> now]]]
    /\ UNCHANGED <<now, snapshots>>

\* world_version is UNIQUE: the second insertion of one fails with 503.
Known(version) == \E e \in snapshots : e.world_version = version

Insert(c) ==
    /\ commit[c].at = "stamped"
    /\ IF Known(commit[c].row.world_version)
       THEN /\ CommitDone(c, "failed_503")
            /\ UNCHANGED snapshots
       ELSE /\ CommitDone(c, "committed")
            /\ snapshots' = snapshots \cup
                   {[id |-> commit[c].row.id, at |-> now,
                     world_version |-> commit[c].row.world_version,
                     committed_at |-> commit[c].row.committed_at]}
    /\ UNCHANGED now

OracleTick ==
    /\ Tick({commit[c].row.committed_at :
                c \in {d \in Commits : commit[d].at = "stamped"}})
    /\ UNCHANGED <<snapshots, commit>>

OracleNext ==
    \/ \E c \in Commits : RejectCommit(c) \/ StampCommit(c) \/ Insert(c)
    \/ OracleTick

OracleSpec == OracleInit /\ [][OracleNext]_oracleVars

-----------------------------------------------------------------------------

\* The current world is never one whose commit had ended before another
\* committed one began: of concurrent commits either may win, whichever was
\* inserted last, but a commit that begins after an answer supersedes it.  (A
\* clock that does not tell the two times apart leaves it to the random id.)
LaterCommitWins ==
    snapshots # {} => \A e \in snapshots : ~(Current.at < e.committed_at)
=============================================================================
