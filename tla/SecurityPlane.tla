---------------------------- MODULE SecurityPlane ----------------------------
(***************************************************************************)
(* action_gate/security_plane.py: observe counts the events of the same    *)
(* tenant, agent and action in the last WINDOW_SECONDS, then inserts its   *)
(* own; the score is how close the count comes to BURST_LIMIT.  Count and  *)
(* insertion are two statements, and other processes insert in between.    *)
(* An event that lacks one of the three is stored with NULL there and is   *)
(* counted by nobody.                                                      *)
(***************************************************************************)
EXTENDS StoreClock, FiniteSets

CONSTANTS
    Observers,       \* processes in observe
    AlarmCount,      \* smallest count with score >= ANOMALY_THRESHOLD
    AnomalyWindow,   \* WINDOW_SECONDS
    MaxObserved      \* bound: events stored

ASSUME PlaneAssumption ==
    /\ IsFiniteSet(Observers) /\ Observers # {}
    /\ AlarmCount \in Nat \ {0} /\ AnomalyWindow \in Nat /\ MaxObserved \in Nat

VARIABLES
    security_events,  \* the table
    observer,         \* what each process is doing
    kill_switch       \* control_state

planeVars == <<now, security_events, observer, kill_switch>>

PlaneInit ==
    /\ now = 0
    /\ security_events = {}
    /\ observer = [o \in Observers |-> [at |-> "idle"]]
    /\ kill_switch = FALSE

-----------------------------------------------------------------------------

MatchesAfter(ts) == {e \in security_events : e.named /\ e.ts + AnomalyWindow > ts}

\* Rows the count of an observation made at ts finds: ts >= cutoff, same key.
Matches(ts) == {e \in security_events : e.named /\ e.ts + AnomalyWindow >= ts}

MatchCount(ts, named) ==
    IF named THEN Cardinality(Matches(ts)) ELSE 0

\* Up to the SELECT; a named event has a tenant, an agent and an action.  A
\* tripwire in the target marks the event and changes nothing else.
Count(o) ==
    /\ observer[o].at = "idle"
    /\ Cardinality(security_events)
           + Cardinality({p \in Observers : observer[p].at = "counted"}) < MaxObserved
    /\ \E named \in BOOLEAN :
           observer' = [observer EXCEPT ![o] =
               [at |-> "counted", ts |-> now, named |-> named,
                count |-> MatchCount(now, named)]]
    /\ UNCHANGED <<now, security_events, kill_switch>>

\* The insertion, its commit and the answer, which also carries the kill switch.
Store(o) ==
    /\ observer[o].at = "counted"
    /\ security_events' = security_events \cup
           {[number |-> Cardinality(security_events) + 1,
             ts |-> observer[o].ts, named |-> observer[o].named,
             anomaly |-> observer[o].count + 1 >= AlarmCount]}
    /\ observer' = [observer EXCEPT ![o] = [at |-> "idle"]]
    /\ UNCHANGED <<now, kill_switch>>

SetKillSwitch ==
    /\ \E active \in BOOLEAN : kill_switch' = active
    /\ UNCHANGED <<now, security_events, observer>>

\* observe reads the clock after it has its connection; the insertion may wait.
PlaneTick ==
    /\ Tick({observer[o].ts : o \in {p \in Observers : observer[p].at = "counted"}})
    /\ UNCHANGED <<security_events, observer, kill_switch>>

PlaneNext ==
    \/ \E o \in Observers : Count(o) \/ Store(o)
    \/ SetKillSwitch
    \/ PlaneTick

PlaneSpec == PlaneInit /\ [][PlaneNext]_planeVars

-----------------------------------------------------------------------------

\* A burst is noticed although each observer counts before it inserts: of
\* AlarmCount events of one key within a window, plus one for each further
\* process, one at least is flagged.
BurstNoticed ==
    \A start \in 0 .. MaxTime :
        LET burst == {e \in security_events :
                         e.named /\ start =< e.ts /\ e.ts =< start + AnomalyWindow}
        IN  Cardinality(burst) >= AlarmCount + Cardinality(Observers) - 1 =>
                \E e \in burst : e.anomaly
=============================================================================
