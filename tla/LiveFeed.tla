------------------------------- MODULE LiveFeed -------------------------------
(***************************************************************************)
(* The real-time platform (integrated/realtime): a thread fetches a price, *)
(* updates the cognitive engine, predicts and writes the dictionary that   *)
(* /api/live serves, key by key and without a lock, while the HTTP threads *)
(* read it.  A failed source is replaced by the next one, then by the last *)
(* price that was fetched, however old.                                    *)
(*                                                                         *)
(* A prediction is what it was computed from; the engine's P, S and T are  *)
(* levels, in tenths.                                                      *)
(***************************************************************************)
EXTENDS StoreClock, Integers

CONSTANTS
    Prices,
    CacheFor,    \* cache_duration
    MaxCycles,   \* bound: rounds of the update loop
    NoPrice      \* None

ASSUME FeedAssumption == CacheFor \in Nat /\ MaxCycles \in Nat

VARIABLES
    provider,   \* ForexDataProvider: [price, fetched]
    cognition,  \* HamidCognition: [P, S, T]
    trained,    \* predictor.is_trained
    live,       \* live_data
    loop,       \* where update_live_data is
    newest      \* ghost: the last price a source gave

feedVars == <<now, provider, cognition, trained, live, loop, newest>>

-----------------------------------------------------------------------------

\* What yfinance gives for a period: an error counts as an empty table, "faulty"
\* holds values no regression accepts.
Tables == {"empty", "short", "long", "faulty"}

\* get_market_context: indicators, or constants where there is too little data.
Context(table) == IF table \in {"empty", "short"} THEN "default" ELSE table

Distance(c) == IF c.P > c.S THEN c.P - c.S ELSE c.S - c.P

Phase(c) ==
    IF Distance(c) < 2 THEN "RUPTURE_IMMINENT"
    ELSE IF c.T < 4 THEN "UNSTABLE_CREATIVITY"
    ELSE IF c.P > 8 /\ c.S > 7 THEN "SYNTHESIS_PEAK"
    ELSE "STEADY_EXPLORATION"

\* No change of P, S or T is negative, and each is clipped; without momentum, and
\* with the default context, S stays.
Updates(c, context) ==
    {[P |-> p, S |-> s, T |-> t] :
        p \in {c.P, c.P + 1} \cap 0 .. 9,
        s \in (IF context = "default" THEN {c.S} ELSE {c.S, c.S + 1} \cap 0 .. 9),
        t \in {c.T, c.T + 1} \cap 0 .. 8}

CacheValid == provider.price # NoPrice /\ now - provider.fetched < CacheFor

\* What asking a source gives.
Answers == Prices \cup {NoPrice}

CachedFromFirst(first, second) ==
    IF first # NoPrice THEN [price |-> first, fetched |-> now] ELSE provider

\* The cache after the sources were asked in turn.
Cached(first, second) ==
    IF first # NoPrice THEN [price |-> first, fetched |-> now]
    ELSE IF second # NoPrice THEN [price |-> second, fetched |-> now]
    ELSE provider

-----------------------------------------------------------------------------

FeedInit ==
    /\ now = 0
    /\ provider = [price |-> NoPrice, fetched |-> 0]
    /\ cognition = [P |-> 7, S |-> 6, T |-> 5]
    /\ trained = FALSE
    /\ live = [status |-> "initializing", error |-> "none", price |-> NoPrice,
               predictions |-> NoPrice, phase |-> Phase(cognition)]
    /\ loop = [at |-> "train", cycle |-> 0]
    /\ newest = NoPrice

\* train needs a table of 60 rows, and leaves a trained model as it is without one.
Trained(table) == trained \/ table = "long"

\* The first training, on a week.
Train ==
    /\ loop.at = "train"
    /\ \E table \in Tables : trained' = Trained(table)
    /\ loop' = [at |-> "price", cycle |-> loop.cycle]
    /\ UNCHANGED <<now, provider, cognition, live, newest>>

\* get_current_price: the cache, or the sources in turn, or the price of old.
GetPrice ==
    /\ loop.at = "price" /\ loop.cycle < MaxCycles
    /\ \/ /\ CacheValid
          /\ loop' = [at |-> "context", cycle |-> loop.cycle + 1, price |-> provider.price]
          /\ UNCHANGED <<provider, newest>>
       \/ /\ ~CacheValid
          /\ \E first, second \in Answers :
                 /\ provider' = Cached(first, second)
                 /\ newest' = IF first # NoPrice THEN first
                              ELSE IF second # NoPrice THEN second ELSE newest
          /\ loop' = IF provider'.price = NoPrice
                     THEN [at |-> "no price", cycle |-> loop.cycle + 1]
                     ELSE [at |-> "context", cycle |-> loop.cycle + 1,
                           price |-> provider'.price]
    /\ UNCHANGED <<now, cognition, trained, live>>

\* status and error are two assignments; a reader can come in between.
SetStatus(at, status, to) ==
    /\ loop.at = at
    /\ live' = [live EXCEPT !.status = status]
    /\ loop' = [loop EXCEPT !.at = to]
    /\ UNCHANGED <<now, provider, cognition, trained, newest>>

SetError(at, error, to) ==
    /\ loop.at = at
    /\ live' = [live EXCEPT !.error = error]
    /\ loop' = [loop EXCEPT !.at = to]
    /\ UNCHANGED <<now, provider, cognition, trained, newest>>

\* get_market_context and get_historical_data, two downloads.
Download ==
    /\ loop.at = "context"
    /\ \E week, days \in Tables :
           loop' = [at |-> IF days = "empty" THEN "limited" ELSE "complete",
                    cycle |-> loop.cycle, price |-> loop.price,
                    context |-> Context(week), table |-> days]
    /\ UNCHANGED <<now, provider, cognition, trained, live, newest>>

\* predict_future is a function of the price, the table and the bias of the engine's
\* state, which is told by its phase.
Predictions(price, table, c) == [price |-> price, table |-> table, phase |-> Phase(c)]

\* generate_predictions: the engine is updated first, and stays so when the
\* regression raises.
Generate ==
    /\ loop.at = "generate"
    /\ \E c \in Updates(cognition, loop.context) :
           /\ cognition' = c
           /\ loop' = IF loop.table = "faulty" THEN [loop EXCEPT !.at = "raised"]
                      ELSE [at |-> "publish", cycle |-> loop.cycle, price |-> loop.price,
                            predictions |-> Predictions(loop.price, loop.table, c),
                            phase |-> Phase(c)]
    /\ trained' = Trained(loop.table)
    /\ UNCHANGED <<now, provider, live, newest>>

\* One call of dict.update: no reader sees a part of it.
Publish ==
    /\ loop.at = "publish"
    /\ live' = [status |-> "active", error |-> "none", price |-> loop.price,
                predictions |-> loop.predictions, phase |-> loop.phase]
    /\ loop' = [loop EXCEPT !.at = "sleep"]
    /\ UNCHANGED <<now, provider, cognition, trained, newest>>

Wake ==
    /\ loop.at = "sleep"
    /\ loop' = [at |-> "price", cycle |-> loop.cycle]
    /\ UNCHANGED <<now, provider, cognition, trained, live, newest>>

\* The loop sleeps for longer than anything else takes; the time is read by
\* get_current_price only.
FeedTick ==
    /\ loop.at = "sleep"
    /\ Tick({})
    /\ UNCHANGED <<provider, cognition, trained, live, loop, newest>>

FeedNext ==
    \/ Train \/ GetPrice \/ Download \/ Generate \/ Publish \/ Wake \/ FeedTick
    \/ SetStatus("no price", "error", "no price said")
    \/ SetError("no price said", "no price", "sleep")
    \/ SetStatus("limited", "warning", "limited said")
    \/ SetError("limited said", "limited data", "generate")
    \/ SetStatus("complete", "active", "complete said")
    \/ SetError("complete said", "none", "generate")
    \/ SetStatus("raised", "error", "raised said")
    \/ SetError("raised said", "exception", "sleep")

FeedSpec == FeedInit /\ [][FeedNext]_feedVars

-----------------------------------------------------------------------------

\* Every reader gets predictions and a phase that belong to the price beside them,
\* and between two rounds an active feed shows the newest price any source gave,
\* whichever sources failed before it and however old the cache was.
LiveIsOneRound ==
    live.price # NoPrice =>
        /\ live.predictions.price = live.price
        /\ live.predictions.phase = live.phase
        /\ live.status = "active" /\ loop.at \in {"sleep", "price"} =>
               live.price = newest /\ live.error = "none"
=============================================================================
