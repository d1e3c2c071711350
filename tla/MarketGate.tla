------------------------------ MODULE MarketGate ------------------------------
(***************************************************************************)
(* action_gate/observation_boundary.py and product_gate.py.  A caller      *)
(* validates the market observation it holds, forms a proposal on it and   *)
(* hands both to the product gate, some time later.  The gate takes the    *)
(* observation as an argument of its own: it compares the proposal's hash  *)
(* with the boundary's, not with that observation, which the feed may have *)
(* replaced meanwhile.  The caller keeps the ticks it has seen and the     *)
(* last sequence number, as the tests do.                                  *)
(***************************************************************************)
EXTENDS Naturals

CONSTANTS
    Ticks,       \* tick ids
    MaxAge,      \* max_age_seconds of both checks
    LastTime     \* bound: the clock

ASSUME MarketAssumption == MaxAge \in Nat /\ LastTime \in Nat

VARIABLES
    clock,
    observed,    \* the observation the caller holds
    seen,        \* tick ids of admitted observations
    sequence,    \* the last sequence number admitted; 0 before the first
    boundary,    \* the last ObservationBoundaryResult, and when (ghost)
    result       \* the last ProductGateResult, with what it was given (ghost)

marketVars == <<clock, observed, seen, sequence, boundary, result>>

\* sequence 0 stands for an observation without one.  "invalid" is a field that is
\* missing or ill-typed, a price that is not positive, or an ask below the bid; the
\* price "nan" is none of these.  "unhealthy" is an anomaly score or a drawdown past
\* its limit, which only the gate looks at.
Faults == {"none", "disconnected", "invalid", "unhealthy"}

Observation ==
    [tick : Ticks, timestamp : 0 .. LastTime, sequence : 0 .. LastTime, fault : Faults]

\* observation_hash: of what it digests, only this matters below.
Digest(o) == [timestamp |-> o.timestamp, fault |-> o.fault]

Rejected(decision) == [permitted |-> FALSE, decision |-> decision]

MarketInit ==
    /\ clock = 0
    /\ observed \in {o \in Observation : o.timestamp =< 1 /\ o.sequence =< 1}
    /\ seen = {}
    /\ sequence = 0
    /\ boundary = Rejected("DENY")
    /\ result = Rejected("DENY")

-----------------------------------------------------------------------------

\* The reasons validate_observation answers SAFE_MODE for, and the others.
SafeModeReasons(o) ==
    {r \in {"stale", "future", "disconnected", "duplicate", "gap"} :
        \/ r = "stale" /\ clock > o.timestamp + MaxAge
        \/ r = "future" /\ clock < o.timestamp
        \/ r = "disconnected" /\ o.fault = "disconnected"
        \/ r = "duplicate" /\ o.tick \in seen
        \/ r = "gap" /\ o.sequence # 0 /\ sequence # 0 /\ o.sequence # sequence + 1}

DenyReasons(o) == {r \in {"invalid"} : o.fault = r}

\* validate_observation, after which the caller notes what was admitted.
Validate ==
    /\ IF SafeModeReasons(observed) \cup DenyReasons(observed) = {}
       THEN /\ boundary' = [permitted |-> TRUE, hash |-> Digest(observed), at |-> clock]
            /\ seen' = seen \cup {observed.tick}
            /\ sequence' = IF observed.sequence = 0 THEN sequence ELSE observed.sequence
       ELSE /\ boundary' = Rejected(IF SafeModeReasons(observed) # {}
                                    THEN "SAFE_MODE" ELSE "DENY")
            /\ UNCHANGED <<seen, sequence>>
    /\ UNCHANGED <<clock, observed, result>>

StillNotFuture(o) == o.timestamp =< clock

\* What the gate checks again, of the observation it is given.
StillFresh(o) == o.timestamp =< clock /\ clock =< o.timestamp + MaxAge

Sound(o) ==
    /\ StillFresh(o)
    /\ o.fault \notin {"disconnected", "unhealthy"}

\* evaluate_product_gate, of a proposal with or without its versions (described),
\* whose input_hash is the boundary's or not (bound).
Gate ==
    \E action \in {"BUY_SMALL", "HOLD", "TRANSFER"}, described \in BOOLEAN,
       bound \in BOOLEAN :
        /\ result' =
               CASE ~boundary.permitted -> boundary
                 [] boundary.permitted /\ action = "TRANSFER" -> Rejected("DENY")
                 [] OTHER ->
                      IF described /\ bound /\ Sound(observed)
                      THEN [permitted |-> TRUE, input |-> boundary,
                            given |-> Digest(observed), at |-> clock]
                      ELSE Rejected("SAFE_MODE")
        /\ UNCHANGED <<clock, observed, seen, sequence, boundary>>

\* A new tick replaces what the caller holds, also between the two checks.
Arrives ==
    /\ \E o \in Observation :
           /\ o.timestamp \in {clock, clock + 1}
           /\ o.sequence \in {0, sequence + 1}
           /\ observed' = o
    /\ UNCHANGED <<clock, seen, sequence, boundary, result>>

MarketTick ==
    /\ clock < LastTime
    /\ clock' = clock + 1
    /\ UNCHANGED <<observed, seen, sequence, boundary, result>>

MarketNext == Validate \/ Gate \/ Arrives \/ MarketTick

MarketSpec == MarketInit /\ [][MarketNext]_marketVars

-----------------------------------------------------------------------------

\* Both checks held of a permitted proposal, whatever arrived and however long the
\* caller took in between: its input was admitted by the boundary while it was
\* fresh, connected and in order, and what the caller held at the gate was fresh,
\* connected and within its limits then.
PermittedTwiceChecked ==
    result.permitted =>
        /\ result.input.at =< result.at
        /\ result.input.hash.timestamp =< result.input.at
        /\ result.input.at =< result.input.hash.timestamp + MaxAge
        /\ result.input.hash.fault \notin {"disconnected", "invalid"}
        /\ result.given.timestamp =< result.at
        /\ result.at =< result.given.timestamp + MaxAge
        /\ result.given.fault \notin {"disconnected", "unhealthy"}
=============================================================================
