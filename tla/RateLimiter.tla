----------------------------- MODULE RateLimiter -----------------------------
(***************************************************************************)
(* The sliding-window limit on POST /v1/evaluate and /v1/approve:          *)
(* enforce_rate_limit (action_gate/app.py) over the shared table of        *)
(* storage.allow_rate_limit in production and over the in-memory queue of  *)
(* rate_limit.SlidingWindowRateLimiter elsewhere.  Both read the clock     *)
(* first and take their lock later; under the lock they drop what left the *)
(* window, count, and insert.                                              *)
(*                                                                         *)
(* One rate key: keys do not interact.                                     *)
(***************************************************************************)
EXTENDS StoreClock, FiniteSets

CONSTANTS
    Requests,   \* requests with the key
    Limit,      \* RATE_LIMIT_PER_MINUTE
    Window      \* 60 seconds

ASSUME RateAssumption == Limit \in Nat /\ Window \in Nat \ {0}

VARIABLES
    rateStore,    \* "database" in production, else "memory"; fixed at start
    events,       \* rate_limit_events, or the queue
    rateCall,     \* how far each request is
    admitted      \* ghost: the events of the requests let through

rateVars == <<now, rateStore, events, rateCall, admitted>>

\* number is the place in the queue, stamp is created_at; at is when the event
\* was really inserted, which the code does not keep.
Events == [number : Nat, stamp : Nat, at : Nat]

Answered == {"allowed", "refused_429", "unavailable_503"}

RateCalls ==
    [at : {"idle"}] \cup [at : {"timed"}, stamp : Nat] \cup [at : Answered]

RateInit ==
    /\ now = 0
    /\ rateStore \in {"memory", "database"}
    /\ events = {}
    /\ rateCall = [r \in Requests |-> [at |-> "idle"]]
    /\ admitted = {}

\* The in-memory limiter raises a limit of zero to one; the database refuses.
EffectiveLimit == IF rateStore = "memory" /\ Limit = 0 THEN 1 ELSE Limit

Expired(e, stamp) == e.stamp + Window =< stamp

KeptForever(stamp) == events

\* The database deletes every row outside the window.  The queue is popped from
\* its head only, so an old event survives behind a head that is still inside.
KeptAt(stamp) ==
    IF rateStore = "database"
    THEN {e \in events : ~Expired(e, stamp)}
    ELSE {e \in events : \E head \in events :
              head.number =< e.number /\ ~Expired(head, stamp)}

FullAfterOneMore(kept) == Cardinality(kept) > EffectiveLimit

Full(kept) == Cardinality(kept) >= EffectiveLimit

\* now = time.time()
ReadClock(r) ==
    /\ rateCall[r].at = "idle"
    /\ rateCall' = [rateCall EXCEPT ![r] = [at |-> "timed", stamp |-> now]]
    /\ UNCHANGED <<now, rateStore, events, admitted>>

Answer(r, answer) == rateCall' = [rateCall EXCEPT ![r] = [at |-> answer]]

\* The rest of allow or allow_rate_limit, under the lock.  A refusal rolls the
\* database's deletions back; the queue stays popped.
Allow(r) ==
    /\ rateCall[r].at = "timed"
    /\ ~Full(KeptAt(rateCall[r].stamp))
    /\ LET e == [number |-> Cardinality(admitted) + 1,
                 stamp |-> rateCall[r].stamp, at |-> now]
       IN  /\ events' = KeptAt(rateCall[r].stamp) \cup {e}
           /\ admitted' = admitted \cup {e}
    /\ Answer(r, "allowed")
    /\ UNCHANGED <<now, rateStore>>

Refuse(r) ==
    /\ rateCall[r].at = "timed"
    /\ Full(KeptAt(rateCall[r].stamp))
    /\ events' = IF rateStore = "memory" THEN KeptAt(rateCall[r].stamp)
                                         ELSE events
    /\ Answer(r, "refused_429")
    /\ UNCHANGED <<now, rateStore, admitted>>

\* A database error rolls back and fails the request.
StoreFails(r) ==
    /\ rateCall[r].at = "timed"
    /\ rateStore = "database"
    /\ Answer(r, "unavailable_503")
    /\ UNCHANGED <<now, rateStore, events, admitted>>

RateTick ==
    /\ Tick({rateCall[r].stamp : r \in {q \in Requests : rateCall[q].at = "timed"}})
    /\ UNCHANGED <<rateStore, events, rateCall, admitted>>

RateNext ==
    \/ \E r \in Requests :
           ReadClock(r) \/ Allow(r) \/ Refuse(r) \/ StoreFails(r)
    \/ RateTick

RateSpec == RateInit /\ [][RateNext]_rateVars

-----------------------------------------------------------------------------

\* The window the code guarantees is shorter than the one it counts by the
\* delay: an event stamped early leaves the count early.
RecentlyAdmitted == {e \in admitted : now + Delay < e.at + Window}

\* Never more than the limit is let through in any span of Window - Delay, on
\* either store, whatever order the requests' transactions run in.
WindowBounded == Cardinality(RecentlyAdmitted) =< EffectiveLimit

\* What keeps it so: nothing admitted is forgotten before Window has passed on
\* the clock, and the store never holds more than the limit.
RateInv ==
    /\ events \subseteq admitted
    /\ \A e \in admitted : now < e.stamp + Window => e \in events
    /\ Cardinality(events) =< EffectiveLimit
    /\ \A e \in admitted : e.stamp =< e.at /\ e.at =< e.stamp + Delay /\ e.at =< now
    /\ \A r \in Requests :
           rateCall[r].at = "timed" =>
               rateCall[r].stamp =< now /\ now =< rateCall[r].stamp + Delay

\* A request is refused only when the limit was let through within the last
\* Window + Delay: an event the queue keeps too long is never older than that.
RefusalsHaveCause ==
    [][\A r \in Requests :
           rateCall[r].at = "timed" /\ rateCall'[r].at = "refused_429" =>
               Cardinality({e \in admitted : now < e.at + Window + Delay})
                   >= EffectiveLimit]_rateVars
=============================================================================
