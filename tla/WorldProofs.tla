----------------------------- MODULE WorldProofs -----------------------------
(***************************************************************************)
(* Proofs about what threads read and others change meanwhile: the world a *)
(* state-bound authority was issued for, the live feed and the record that *)
(* CSG decisions are replayed from.                                        *)
(***************************************************************************)
EXTENDS StateBound, LiveFeed, CsgAdmission, InnovationHistory, InductionFacts,
        SequenceTheorems, TLAPS

-----------------------------------------------------------------------------
(* State-bound execution.                                                  *)

WorldRecords == [version : Nat, trajectory : Contents, metadata : [Parts -> Contents]]

IssuedStates ==
    [at : {"issued"}, world : WorldRecords, digested : SUBSET Parts,
     issued_at : Nat, expires_at : Nat]

TimedStates ==
    [at : {"timed"}, world : WorldRecords, digested : SUBSET Parts,
     issued_at : Nat, expires_at : Nat, ts : Nat]

BoundTypeOK ==
    /\ now \in Nat
    /\ world \in WorldRecords
    /\ executor \in [Executors -> [at : {"idle"}] \cup IssuedStates \cup TimedStates]

\* The time a caller has read is not older than the delay.
BoundInv ==
    \A x \in Executors : executor[x].at = "timed" => now =< executor[x].ts + Delay

\* What a thread holds at each place.
LEMMA ExecutorStates ==
    ASSUME BoundTypeOK, NEW x \in Executors
    PROVE  /\ executor[x].at = "issued" => executor[x] \in IssuedStates
           /\ executor[x].at = "timed" => executor[x] \in TimedStates
BY DEF BoundTypeOK, IssuedStates, TimedStates

\* Every step keeps the invariant, and what it runs was decided for this world.
LEMMA BoundStep ==
    ASSUME BoundTypeOK, BoundInv, RunsInDecidedWorld, [BoundNext]_boundVars
    PROVE  (BoundTypeOK /\ BoundInv /\ RunsInDecidedWorld)'
<1> USE ClockAssumption, StateBoundAssumption
<1>1. CASE AppendTrajectory
  <2>1. PICK t \in Contents, m \in {world.metadata} \cup [Parts -> Contents] :
            world' = [version |-> world.version + 1, trajectory |-> t, metadata |-> m]
    BY <1>1 DEF AppendTrajectory
  <2>2. world' \in WorldRecords
    BY <2>1 DEF BoundTypeOK, WorldRecords
  <2>3. ran' = NoRun /\ now' = now /\ executor' = executor
    BY <1>1 DEF AppendTrajectory
  <2>4. QED BY <2>2, <2>3 DEF BoundTypeOK, BoundInv, RunsInDecidedWorld
<1>2. ASSUME NEW p \in Parts, Refresh(p)
      PROVE  (BoundTypeOK /\ BoundInv /\ RunsInDecidedWorld)'
  <2>1. PICK c \in Contents : world' = [world EXCEPT !.metadata[p] = c]
    BY <1>2 DEF Refresh
  <2>2. world' = [world EXCEPT !.metadata = [world.metadata EXCEPT ![p] = c]]
    BY <2>1
  <2>3. [world.metadata EXCEPT ![p] = c] \in [Parts -> Contents]
    BY DEF BoundTypeOK, WorldRecords
  <2>4. world' \in WorldRecords
    BY <2>2, <2>3 DEF BoundTypeOK, WorldRecords
  <2>5. ran' = NoRun /\ now' = now /\ executor' = executor
    BY <1>2 DEF Refresh
  <2>6. QED BY <2>4, <2>5 DEF BoundTypeOK, BoundInv, RunsInDecidedWorld
<1>3. ASSUME NEW x \in Executors, Issue(x)
      PROVE  (BoundTypeOK /\ BoundInv /\ RunsInDecidedWorld)'
  <2>1. PICK digested \in SUBSET Parts :
            executor' = [executor EXCEPT ![x] = AuthorityOn(world, digested)]
    BY <1>3 DEF Issue
  <2>2. AuthorityOn(world, digested) \in IssuedStates
    BY DEF AuthorityOn, IssuedStates, BoundTypeOK
  <2>3. ran' = NoRun /\ now' = now /\ world' = world
    BY <1>3 DEF Issue
  <2>4. executor'[x].at # "timed" /\ \A y \in Executors \ {x} : executor'[y] = executor[y]
    BY <2>1, <2>2 DEF BoundTypeOK, IssuedStates
  <2>5. QED BY <2>1, <2>2, <2>3, <2>4 DEF BoundTypeOK, BoundInv, RunsInDecidedWorld
<1>4. ASSUME NEW x \in Executors, ReadTime(x)
      PROVE  (BoundTypeOK /\ BoundInv /\ RunsInDecidedWorld)'
  <2> DEFINE timed == [at |-> "timed", world |-> executor[x].world,
                       digested |-> executor[x].digested,
                       issued_at |-> executor[x].issued_at,
                       expires_at |-> executor[x].expires_at, ts |-> now]
  <2>1. executor[x] \in IssuedStates /\ now \in Nat
    BY <1>4, ExecutorStates DEF ReadTime, BoundTypeOK
  <2>2. timed \in TimedStates /\ timed.ts = now
    BY <2>1 DEF IssuedStates, TimedStates
  <2>3. executor' = [executor EXCEPT ![x] = timed]
    BY <1>4 DEF ReadTime, BoundTypeOK
  <2>4. ran' = NoRun /\ now' = now /\ world' = world
    BY <1>4 DEF ReadTime
  <2> HIDE DEF timed
  <2>5. executor'[x] = timed /\ \A y \in Executors \ {x} : executor'[y] = executor[y]
    BY <2>3 DEF BoundTypeOK
  <2>6. QED BY <2>1, <2>2, <2>3, <2>4, <2>5 DEF BoundTypeOK, BoundInv, RunsInDecidedWorld
<1>5. ASSUME NEW x \in Executors, ExecuteIfValid(x)
      PROVE  (BoundTypeOK /\ BoundInv /\ RunsInDecidedWorld)'
  <2>1. /\ executor[x] \in TimedStates /\ now \in Nat
        /\ now =< executor[x].ts + Delay
    BY <1>5, ExecutorStates DEF ExecuteIfValid, BoundTypeOK, BoundInv
  <2>2. /\ executor' = [executor EXCEPT ![x] = [at |-> "idle"]]
        /\ now' = now /\ world' = world
    BY <1>5 DEF ExecuteIfValid
  <2>3. BoundTypeOK' /\ BoundInv'
    BY <2>2 DEF BoundTypeOK, BoundInv
  <2>4. CASE Valid(executor[x])
    <3>1. ran' = [world |-> world, on |-> executor[x], at |-> now]
      BY <1>5, <2>4 DEF ExecuteIfValid
    <3>2. ran'.world = world /\ ran'.on = executor[x] /\ ran'.at = now
      BY <3>1
    <3>3. now < executor[x].expires_at + Delay
      BY <2>1, <2>4 DEF Valid, TimedStates
    <3>4. QED BY <2>3, <2>4, <3>2, <3>3
              DEF RunsInDecidedWorld, Valid, SeenByVerifier, WorldUnchanged
  <2>5. CASE ~Valid(executor[x])
    <3>1. ran' = NoRun
      BY <1>5, <2>5 DEF ExecuteIfValid
    <3>2. QED BY <2>3, <3>1 DEF RunsInDecidedWorld
  <2>6. QED BY <2>4, <2>5
<1>6. CASE BoundTick
  <2>1. /\ now' = now + 1 /\ now \in Nat /\ world' = world /\ executor' = executor
        /\ ran' = NoRun
    BY <1>6 DEF BoundTick, Tick, BoundTypeOK
  <2>2. \A x \in Executors : executor[x].at = "timed" => now < executor[x].ts + Delay
    BY <1>6 DEF BoundTick, Tick
  <2>3. \A x \in Executors : executor[x].at = "timed" => executor[x].ts \in Nat
    BY ExecutorStates DEF TimedStates
  <2>4. QED BY <2>1, <2>2, <2>3 DEF BoundTypeOK, BoundInv, RunsInDecidedWorld
<1>7. CASE UNCHANGED boundVars
  BY <1>7 DEF boundVars, BoundTypeOK, BoundInv, RunsInDecidedWorld, WorldUnchanged
<1>8. QED BY <1>1, <1>2, <1>3, <1>4, <1>5, <1>6, <1>7 DEF BoundNext

\* What a state-bound authority runs, it runs in the version, trajectory and parts it
\* was decided for, and no later than the delay past its expiry: for any number of
\* threads, parts and versions.
THEOREM BoundRunsInDecidedWorld == BoundSpec => []RunsInDecidedWorld
<1>1. BoundInit => BoundTypeOK /\ BoundInv /\ RunsInDecidedWorld
  BY DEF BoundInit, Worlds, BoundTypeOK, WorldRecords, BoundInv, RunsInDecidedWorld
<1>2. BoundTypeOK /\ BoundInv /\ RunsInDecidedWorld /\ [BoundNext]_boundVars
          => (BoundTypeOK /\ BoundInv /\ RunsInDecidedWorld)'
  BY BoundStep
<1>3. QED BY <1>1, <1>2, PTL DEF BoundSpec

-----------------------------------------------------------------------------
(* The live feed.                                                          *)

Quotes == Prices \cup {NoPrice}

Phases == {"RUPTURE_IMMINENT", "UNSTABLE_CREATIVITY", "SYNTHESIS_PEAK",
           "STEADY_EXPLORATION"}

PredictionRecords == [price : Quotes, table : Tables, phase : Phases]

\* Where the loop is, with what it carries there.
PlainLoops ==
    [at : {"train", "price", "no price", "no price said", "sleep"}, cycle : Nat]

PricedLoops == [at : {"context"}, cycle : Nat, price : Quotes]

DownloadedLoops ==
    [at : {"limited", "limited said", "complete", "complete said", "generate",
           "raised", "raised said", "sleep"},
     cycle : Nat, price : Quotes, context : {"default", "long", "faulty"}, table : Tables]

PredictedLoops ==
    [at : {"publish", "sleep"}, cycle : Nat, price : Quotes,
     predictions : PredictionRecords, phase : Phases]

Loops == PlainLoops \cup PricedLoops \cup DownloadedLoops \cup PredictedLoops

LiveRecords ==
    [status : {"initializing", "error", "warning", "active"},
     error : {"none", "no price", "limited data", "exception"}, price : Quotes,
     predictions : PredictionRecords \cup {NoPrice}, phase : Phases]

FeedTypeOK ==
    /\ provider \in [price : Quotes, fetched : Nat]
    /\ now \in Nat
    /\ loop \in Loops
    /\ live \in LiveRecords

\* The provider holds the newest price, a round carries it from its fetch to its
\* publication, and a round that publishes nothing ends with an error or a warning.
FeedInv ==
    /\ provider.price = newest
    /\ loop.at \in {"context", "limited", "limited said", "complete", "complete said",
                    "generate", "publish"} => loop.price = newest
    /\ loop.at = "publish" =>
           loop.predictions.price = loop.price /\ loop.predictions.phase = loop.phase
    /\ loop.at \in {"train", "no price said", "raised said"} => live.status # "active"

\* The loops at each of the places that are left by an assignment to live.
LEMMA LoopAt ==
    ASSUME FeedTypeOK
    PROVE  /\ loop.at = "publish" => loop \in PredictedLoops
           /\ loop.at \in {"limited", "limited said", "complete", "complete said",
                           "generate", "raised", "raised said"} => loop \in DownloadedLoops
           /\ loop.at \in {"train", "price", "no price", "no price said"}
                  => loop \in PlainLoops
           /\ loop.at = "context" => loop \in PricedLoops
BY DEF FeedTypeOK, Loops, PlainLoops, PricedLoops, DownloadedLoops, PredictedLoops

\* Moving on leaves everything else the loop carries.
LEMMA MoveOn ==
    ASSUME FeedTypeOK, NEW from, NEW to, loop.at = from, loop' = [loop EXCEPT !.at = to],
           \/ from = "no price" /\ to = "no price said"
           \/ from = "no price said" /\ to = "sleep"
           \/ /\ from \in {"limited", "limited said", "complete", "complete said",
                           "generate", "raised", "raised said"}
              /\ to \in {"limited said", "complete said", "generate", "raised",
                         "raised said", "sleep"}
           \/ from = "publish" /\ to = "sleep"
    PROVE  /\ loop' \in Loops /\ loop'.at = to
           /\ from \in {"limited", "limited said", "complete", "complete said"} =>
                  loop'.price = loop.price
<1>1. CASE from \in {"no price", "no price said"}
  <2>1. loop \in PlainLoops
    BY <1>1, LoopAt
  <2>2. loop' \in PlainLoops /\ loop'.at = to
    BY <1>1, <2>1 DEF PlainLoops
  <2>3. QED BY <1>1, <2>2 DEF Loops
<1>2. CASE from \in {"limited", "limited said", "complete", "complete said",
                     "generate", "raised", "raised said"}
  <2>1. loop \in DownloadedLoops
    BY <1>2, LoopAt
  <2>2. loop' \in DownloadedLoops /\ loop'.at = to /\ loop'.price = loop.price
    BY <1>2, <2>1 DEF DownloadedLoops
  <2>3. QED BY <1>2, <2>2 DEF Loops
<1>3. CASE from = "publish"
  <2>1. loop \in PredictedLoops
    BY <1>3, LoopAt
  <2>2. loop' \in PredictedLoops /\ loop'.at = to
    BY <1>3, <2>1 DEF PredictedLoops
  <2>3. QED BY <1>3, <2>2 DEF Loops
<1>4. QED BY <1>1, <1>2, <1>3
\* An assignment to status or error keeps the invariant, where the place it moves to
\* may have that status.
LEMMA AssignKeeps ==
    ASSUME FeedTypeOK, FeedInv, LiveIsOneRound, NEW from, NEW to,
           loop.at = from, loop' = [loop EXCEPT !.at = to],
           \/ /\ from = "no price" /\ to = "no price said"
              /\ live' = [live EXCEPT !.status = "error"]
           \/ /\ from = "no price said" /\ to = "sleep"
              /\ live' = [live EXCEPT !.error = "no price"]
           \/ /\ from = "limited" /\ to = "limited said"
              /\ live' = [live EXCEPT !.status = "warning"]
           \/ /\ from = "limited said" /\ to = "generate"
              /\ live' = [live EXCEPT !.error = "limited data"]
           \/ /\ from = "complete" /\ to = "complete said"
              /\ live' = [live EXCEPT !.status = "active"]
           \/ /\ from = "complete said" /\ to = "generate"
              /\ live' = [live EXCEPT !.error = "none"]
           \/ /\ from = "raised" /\ to = "raised said"
              /\ live' = [live EXCEPT !.status = "error"]
           \/ /\ from = "raised said" /\ to = "sleep"
              /\ live' = [live EXCEPT !.error = "exception"],
           UNCHANGED <<now, provider, newest>>
    PROVE  (FeedTypeOK /\ FeedInv /\ LiveIsOneRound)'
<1>1. live \in LiveRecords
  BY DEF FeedTypeOK
<1>2. /\ live' \in LiveRecords
      /\ live'.price = live.price /\ live'.predictions = live.predictions
      /\ live'.phase = live.phase
      /\ to = "sleep" => live'.status = live.status
      /\ to \in {"no price said", "raised said"} => live'.status = "error"
  BY <1>1 DEF LiveRecords
<1>3. /\ loop' \in Loops /\ loop'.at = to
      /\ from \in {"limited", "limited said", "complete", "complete said"} =>
             loop'.price = loop.price
  BY MoveOn
<1>4. FeedTypeOK'
  BY <1>2, <1>3 DEF FeedTypeOK
<1>5. FeedInv'
  BY <1>2, <1>3 DEF FeedInv
<1>6. LiveIsOneRound'
  <2>1. to = "sleep" => live'.status # "active"
    BY <1>2 DEF FeedInv
  <2>2. to # "price"
    OBVIOUS
  <2>3. QED BY <1>2, <1>3, <2>1, <2>2 DEF LiveIsOneRound
<1>7. QED BY <1>4, <1>5, <1>6

\* Fetching a price keeps the newest price in the provider.
LEMMA GetPriceKeeps ==
    ASSUME FeedTypeOK, FeedInv, LiveIsOneRound, GetPrice
    PROVE  (FeedTypeOK /\ FeedInv /\ LiveIsOneRound)'
<1>1. /\ loop \in PlainLoops /\ loop.at = "price" /\ loop.cycle + 1 \in Nat
      /\ live' = live /\ now' = now /\ now \in Nat
  <2>1. /\ loop \in PlainLoops /\ loop.at = "price" /\ live' = live /\ now' = now
        /\ now \in Nat
    BY LoopAt DEF GetPrice, FeedTypeOK
  <2>2. loop.cycle \in Nat
    BY <2>1 DEF PlainLoops
  <2>3. QED BY <2>1, <2>2
<1>2. /\ provider' \in [price : Quotes, fetched : Nat]
      /\ provider'.price = newest'
      /\ \/ loop' = [at |-> "no price", cycle |-> loop.cycle + 1]
         \/ loop' = [at |-> "context", cycle |-> loop.cycle + 1, price |-> newest']
  <2>1. CASE CacheValid /\ UNCHANGED <<provider, newest>>
             /\ loop' = [at |-> "context", cycle |-> loop.cycle + 1, price |-> provider.price]
    BY <2>1 DEF FeedTypeOK, FeedInv
  <2>2. ASSUME NEW first \in Answers, NEW second \in Answers,
               provider' = Cached(first, second),
               newest' = IF first # NoPrice THEN first
                         ELSE IF second # NoPrice THEN second ELSE newest
        PROVE  provider' \in [price : Quotes, fetched : Nat] /\ provider'.price = newest'
    <3>1. CASE first # NoPrice
      BY <1>1, <2>2, <3>1 DEF Cached, Answers, Quotes
    <3>2. CASE first = NoPrice /\ second # NoPrice
      BY <1>1, <2>2, <3>2 DEF Cached, Answers, Quotes
    <3>3. CASE first = NoPrice /\ second = NoPrice
      BY <2>2, <3>3 DEF Cached, FeedTypeOK, FeedInv
    <3>4. QED BY <3>1, <3>2, <3>3
  <2>3. CASE /\ \E first, second \in Answers :
                    /\ provider' = Cached(first, second)
                    /\ newest' = IF first # NoPrice THEN first
                                 ELSE IF second # NoPrice THEN second ELSE newest
             /\ loop' = IF provider'.price = NoPrice
                        THEN [at |-> "no price", cycle |-> loop.cycle + 1]
                        ELSE [at |-> "context", cycle |-> loop.cycle + 1,
                              price |-> provider'.price]
    <3>1. provider' \in [price : Quotes, fetched : Nat] /\ provider'.price = newest'
      BY <2>2, <2>3
    <3>2. QED BY <2>3, <3>1
  <2>4. QED BY <2>1, <2>3 DEF GetPrice
<1>3. newest' \in Quotes
  BY <1>2
<1>4. /\ loop' \in PlainLoops \cup PricedLoops
      /\ loop'.at = "no price" \/ (loop'.at = "context" /\ loop'.price = newest')
  <2>1. CASE loop' = [at |-> "no price", cycle |-> loop.cycle + 1]
    <3>1. loop' \in PlainLoops /\ loop'.at = "no price"
      BY <1>1, <2>1 DEF PlainLoops
    <3>2. QED BY <3>1
  <2>2. CASE loop' = [at |-> "context", cycle |-> loop.cycle + 1, price |-> newest']
    <3>1. loop' \in PricedLoops /\ loop'.at = "context" /\ loop'.price = newest'
      BY <1>1, <1>3, <2>2 DEF PricedLoops
    <3>2. QED BY <3>1
  <2>3. QED BY <1>2, <2>1, <2>2
<1>5. FeedTypeOK'
  BY <1>1, <1>2, <1>4 DEF FeedTypeOK, Loops
<1>6. FeedInv'
  BY <1>2, <1>4 DEF FeedInv
<1>7. LiveIsOneRound'
  BY <1>1, <1>4 DEF LiveIsOneRound
<1>8. QED BY <1>5, <1>6, <1>7

\* So does every step.
LEMMA FeedStep ==
    ASSUME FeedTypeOK, FeedInv, LiveIsOneRound, [FeedNext]_feedVars
    PROVE  (FeedTypeOK /\ FeedInv /\ LiveIsOneRound)'
<1>1. CASE Train
  <2>1. /\ loop \in PlainLoops /\ loop' = [at |-> "price", cycle |-> loop.cycle]
        /\ UNCHANGED <<now, provider, live, newest>> /\ live.status # "active"
    BY <1>1, LoopAt DEF Train, FeedInv
  <2>2. loop' \in Loops
    BY <2>1 DEF PlainLoops, Loops
  <2>3. QED BY <2>1, <2>2 DEF FeedTypeOK, FeedInv, LiveIsOneRound
<1>2. CASE GetPrice
  BY <1>2, GetPriceKeeps
<1>3. CASE Download
  <2>1. PICK week \in Tables, days \in Tables :
            loop' = [at |-> IF days = "empty" THEN "limited" ELSE "complete",
                     cycle |-> loop.cycle, price |-> loop.price,
                     context |-> Context(week), table |-> days]
    BY <1>3 DEF Download
  <2>2. loop \in PricedLoops /\ Context(week) \in {"default", "long", "faulty"}
    BY <1>3, LoopAt DEF Download, Context, Tables
  <2>3. /\ loop' \in DownloadedLoops /\ loop'.price = loop.price
        /\ loop'.at \in {"limited", "complete"}
    BY <2>1, <2>2 DEF PricedLoops, DownloadedLoops
  <2>4. loop.price = newest /\ UNCHANGED <<now, provider, live, newest>>
    BY <1>3 DEF Download, FeedInv
  <2>5. QED BY <2>3, <2>4 DEF FeedTypeOK, FeedInv, LiveIsOneRound, Loops
<1>4. CASE Generate
  <2>1. PICK c \in Updates(cognition, loop.context) :
            loop' = IF loop.table = "faulty" THEN [loop EXCEPT !.at = "raised"]
                    ELSE [at |-> "publish", cycle |-> loop.cycle, price |-> loop.price,
                          predictions |-> Predictions(loop.price, loop.table, c),
                          phase |-> Phase(c)]
    BY <1>4 DEF Generate
  <2>2. /\ loop \in DownloadedLoops /\ loop.at = "generate"
        /\ UNCHANGED <<now, provider, live, newest>> /\ loop.price = newest
    BY <1>4, LoopAt DEF Generate, FeedInv
  <2>3. Phase(c) \in Phases
    BY DEF Phase, Phases
  <2>4. CASE loop.table = "faulty"
    <3>1. loop' \in Loops /\ loop'.at = "raised"
      BY <2>1, <2>2, <2>4, MoveOn
    <3>2. QED BY <2>2, <3>1 DEF FeedTypeOK, FeedInv, LiveIsOneRound
  <2>5. CASE loop.table # "faulty"
    <3>1. loop' = [at |-> "publish", cycle |-> loop.cycle, price |-> loop.price,
                   predictions |-> [price |-> loop.price, table |-> loop.table,
                                    phase |-> Phase(c)],
                   phase |-> Phase(c)]
      BY <2>1, <2>5 DEF Predictions
    <3>2. [price |-> loop.price, table |-> loop.table, phase |-> Phase(c)]
              \in PredictionRecords
      BY <2>2, <2>3 DEF DownloadedLoops, PredictionRecords
    <3>3. /\ loop' \in PredictedLoops /\ loop'.at = "publish" /\ loop'.price = loop.price
          /\ loop'.predictions.price = loop'.price /\ loop'.predictions.phase = loop'.phase
      BY <2>2, <2>3, <3>1, <3>2 DEF DownloadedLoops, PredictedLoops
    <3>4. QED BY <2>2, <3>3 DEF FeedTypeOK, FeedInv, LiveIsOneRound, Loops
  <2>6. QED BY <2>4, <2>5
<1>5. CASE Publish
  <2>1. /\ loop \in PredictedLoops /\ loop.at = "publish" /\ loop.price = newest
        /\ loop.predictions.price = loop.price /\ loop.predictions.phase = loop.phase
        /\ live' = [status |-> "active", error |-> "none", price |-> loop.price,
                    predictions |-> loop.predictions, phase |-> loop.phase]
        /\ loop' = [loop EXCEPT !.at = "sleep"]
        /\ UNCHANGED <<now, provider, newest>>
    BY <1>5, LoopAt DEF Publish, FeedInv
  <2>2. loop' \in Loops /\ loop'.at = "sleep"
    BY <2>1, MoveOn
  <2>3. live' \in LiveRecords
    BY <2>1 DEF PredictedLoops, LiveRecords
  <2>4. /\ live'.price = newest /\ live'.error = "none"
        /\ live'.predictions.price = live'.price /\ live'.predictions.phase = live'.phase
    BY <2>1
  <2>5. QED BY <2>1, <2>2, <2>3, <2>4 DEF FeedTypeOK, FeedInv, LiveIsOneRound
<1>6. CASE Wake
  <2>1. /\ loop.at = "sleep" /\ loop' = [at |-> "price", cycle |-> loop.cycle]
        /\ UNCHANGED <<now, provider, live, newest>>
    BY <1>6 DEF Wake
  <2>2. loop.cycle \in Nat
    BY DEF FeedTypeOK, Loops, PlainLoops, PricedLoops, DownloadedLoops, PredictedLoops
  <2>3. loop' \in Loops
    BY <2>1, <2>2 DEF Loops, PlainLoops
  <2>4. QED BY <2>1, <2>3 DEF FeedTypeOK, FeedInv, LiveIsOneRound
<1>7. CASE FeedTick
  <2>1. /\ now' = now + 1 /\ now' \in Nat
        /\ UNCHANGED <<provider, live, loop, newest>>
    BY <1>7 DEF FeedTick, Tick, FeedTypeOK
  <2>2. QED BY <2>1 DEF FeedTypeOK, FeedInv, LiveIsOneRound
<1>8. ASSUME SetStatus("no price", "error", "no price said")
                 \/ SetError("no price said", "no price", "sleep")
                 \/ SetStatus("limited", "warning", "limited said")
                 \/ SetError("limited said", "limited data", "generate")
                 \/ SetStatus("complete", "active", "complete said")
                 \/ SetError("complete said", "none", "generate")
                 \/ SetStatus("raised", "error", "raised said")
                 \/ SetError("raised said", "exception", "sleep")
      PROVE  (FeedTypeOK /\ FeedInv /\ LiveIsOneRound)'
  BY <1>8, AssignKeeps DEF SetStatus, SetError
<1>9. CASE UNCHANGED feedVars
  BY <1>9 DEF feedVars, FeedTypeOK, FeedInv, LiveIsOneRound
<1>10. QED BY <1>1, <1>2, <1>3, <1>4, <1>5, <1>6, <1>7, <1>8, <1>9 DEF FeedNext

\* A reader of the live feed gets predictions and a phase that belong to the price
\* beside them, and the newest price between two rounds, for any prices, any cache
\* duration and any number of rounds, failed or not.
THEOREM FeedLiveIsOneRound == FeedSpec => []LiveIsOneRound
<1>1. FeedInit => FeedTypeOK /\ FeedInv /\ LiveIsOneRound
  <2>1. SUFFICES ASSUME FeedInit PROVE FeedTypeOK /\ FeedInv /\ LiveIsOneRound
    OBVIOUS
  <2>2. Phase(cognition) \in Phases
    BY DEF Phase, Phases
  <2>3. loop \in PlainLoops /\ live \in LiveRecords
    BY <2>1, <2>2 DEF FeedInit, PlainLoops, LiveRecords, Quotes
  <2>4. QED BY <2>1, <2>3 DEF FeedInit, FeedTypeOK, FeedInv, LiveIsOneRound, Loops, Quotes
<1>2. FeedTypeOK /\ FeedInv /\ LiveIsOneRound /\ [FeedNext]_feedVars
          => (FeedTypeOK /\ FeedInv /\ LiveIsOneRound)'
  BY FeedStep
<1>3. QED BY <1>1, <1>2, PTL DEF FeedSpec

-----------------------------------------------------------------------------
(* The record CSG decisions are replayed from.                             *)

CsgStates ==
    [at : {"unsent"}]
        \cup [at : {"sent", "admitted"}, message : Messages]
        \cup [at : {"decided"}, message : Messages, row : CsgRows]
        \cup [at : {"answered"}, status : {0, 400, 401, 408, 409, 422}]
        \cup [at : {"answered"}, status : {200}, id : RequestIds, row : CsgRows]

AdmissionTypeOK ==
    /\ now \in Nat
    /\ idempotency_keys \in [RequestIds -> CsgRows \cup {NoRow}]
    /\ csgKeys \in [known : SUBSET CsgKeyIds, current : CsgKeyIds]
    /\ csgCall \in [CsgCalls -> CsgStates]

\* A row that is what it says, signed with a key of the ring.
RowSound(k) ==
    LET row == idempotency_keys[k]
    IN  /\ row # NoRow
        /\ row.request_id = k /\ row.request_digest.id = k
        /\ row.decision = DecisionOf[row.request_digest.body]
        /\ row.key_id \in csgKeys.known

\* A PASS event is about a row, with its payload and its time.
EventSound(e) ==
    /\ e.request_id \in RequestIds
    /\ idempotency_keys[e.request_id] # NoRow
    /\ idempotency_keys[e.request_id].request_digest = e.payload
    /\ idempotency_keys[e.request_id].issued_at = e.created_at

CallSound(c) ==
    /\ csgCall[c].at \in {"admitted", "decided"} => csgCall[c].message.defect = "none"
    /\ csgCall[c].at = "decided" =>
           /\ idempotency_keys[csgCall[c].message.payload.id] = csgCall[c].row
           /\ csgCall[c].row.request_digest = csgCall[c].message.payload
    /\ csgCall[c].at = "answered" /\ csgCall[c].status = 200 =>
           /\ idempotency_keys[csgCall[c].id] = csgCall[c].row
           /\ Passed(csgCall[c].id) # {}

RecordInv ==
    /\ \A k \in RequestIds : idempotency_keys[k] # NoRow => RowSound(k)
    /\ csgKeys.current \in csgKeys.known
    /\ \A e \in validation_events : e.result = "PASS" => EventSound(e)
    /\ \A c \in CsgCalls : CallSound(c)

\* What a request holds at each place.
LEMMA CsgCallStates ==
    ASSUME AdmissionTypeOK, NEW c \in CsgCalls
    PROVE  /\ csgCall[c].at \in {"sent", "admitted"} =>
                  csgCall[c] \in [at : {"sent", "admitted"}, message : Messages]
           /\ csgCall[c].at = "decided" =>
                  csgCall[c] \in [at : {"decided"}, message : Messages, row : CsgRows]
           /\ csgCall[c].at = "answered" /\ csgCall[c].status = 200 =>
                  csgCall[c] \in [at : {"answered"}, status : {200}, id : RequestIds,
                                  row : CsgRows]
BY DEF AdmissionTypeOK, CsgStates

\* The event that records a message.
LEMMA EventFacts ==
    ASSUME NEW m \in Messages, NEW result, NEW error, NEW created_at
    PROVE  /\ Event(m, result, error, created_at).result = result
           /\ Event(m, result, error, created_at).payload = m.payload
           /\ Event(m, result, error, created_at).created_at = created_at
           /\ m.defect = "none" =>
                  Event(m, result, error, created_at).request_id = m.payload.id
BY DEF Event

\* Where rows, keys and events only grow, what was sound of them stays so.
LEMMA GrowthKeeps ==
    ASSUME AdmissionTypeOK, RecordInv,
           idempotency_keys' \in [RequestIds -> CsgRows \cup {NoRow}],
           \A k \in RequestIds : idempotency_keys[k] # NoRow =>
               idempotency_keys'[k] = idempotency_keys[k],
           csgKeys.known \subseteq csgKeys'.known,
           validation_events \subseteq validation_events'
    PROVE  /\ \A k \in RequestIds : idempotency_keys[k] # NoRow => RowSound(k)'
           /\ \A e \in validation_events : e.result = "PASS" => EventSound(e)'
           /\ \A c \in CsgCalls : csgCall'[c] = csgCall[c] => CallSound(c)'
<1>1. \A k \in RequestIds : idempotency_keys[k] # NoRow => RowSound(k)'
  BY DEF RecordInv, RowSound
<1>2. \A e \in validation_events : e.result = "PASS" => EventSound(e)'
  BY DEF RecordInv, EventSound
<1>3. ASSUME NEW c \in CsgCalls, csgCall'[c] = csgCall[c] PROVE CallSound(c)'
  <2>1. CallSound(c)
    BY DEF RecordInv
  <2>2. csgCall[c].at = "decided" =>
            /\ csgCall[c].message.payload.id \in RequestIds
            /\ csgCall[c].row # NoRow
    BY CsgCallStates, AdmissionAssumption DEF Messages, CsgPayloads
  <2>3. csgCall[c].at = "answered" /\ csgCall[c].status = 200 =>
            csgCall[c].id \in RequestIds /\ csgCall[c].row # NoRow
    BY CsgCallStates, AdmissionAssumption
  <2>4. \A id : Passed(id) \subseteq Passed(id)'
    BY DEF Passed
  <2>5. QED BY <1>3, <2>1, <2>2, <2>3, <2>4 DEF CallSound
<1>4. QED BY <1>1, <1>2, <1>3

\* Request c moves on to state, which is not a decision nor an answer with one.
MovesOn(c, state) ==
    /\ csgCall' = [csgCall EXCEPT ![c] = state]
    /\ state.at \in {"sent", "admitted", "answered"}
    /\ state.at = "admitted" => state.message.defect = "none"
    /\ state.at = "answered" => state.status # 200

\* A step that ends a request without a PASS, or moves it on, keeps the invariant.
LEMMA RefusalKeeps ==
    ASSUME AdmissionTypeOK, RecordInv, NEW c \in CsgCalls, NEW state \in CsgStates,
           MovesOn(c, state),
           validation_events \subseteq validation_events',
           \A e \in validation_events' : e \in validation_events \/ e.result = "REJECT",
           UNCHANGED <<now, idempotency_keys, csgKeys>>
    PROVE  (AdmissionTypeOK /\ RecordInv)'
<1>1. AdmissionTypeOK'
  BY DEF MovesOn, AdmissionTypeOK
<1>3. /\ \A k \in RequestIds : idempotency_keys[k] # NoRow => RowSound(k)'
      /\ \A e \in validation_events : e.result = "PASS" => EventSound(e)'
      /\ \A d \in CsgCalls : csgCall'[d] = csgCall[d] => CallSound(d)'
  BY GrowthKeeps DEF AdmissionTypeOK
<1>4. csgCall'[c] = state /\ \A d \in CsgCalls \ {c} : csgCall'[d] = csgCall[d]
  BY DEF MovesOn, AdmissionTypeOK
<1>5. CallSound(c)'
  BY <1>4 DEF CallSound, MovesOn
<1>6. QED BY <1>1, <1>3, <1>4, <1>5 DEF RecordInv

\* A request that ends with any other status than 200.
LEMMA EndKeeps ==
    ASSUME AdmissionTypeOK, RecordInv, NEW c \in CsgCalls,
           NEW status \in {0, 400, 401, 408, 409, 422}, CsgEnds(c, status),
           validation_events \subseteq validation_events',
           \A e \in validation_events' : e \in validation_events \/ e.result = "REJECT",
           UNCHANGED <<now, idempotency_keys, csgKeys>>
    PROVE  (AdmissionTypeOK /\ RecordInv)'
<1>1. PICK state : state = [at |-> "answered", status |-> status]
  OBVIOUS
<1>2. state \in CsgStates /\ state.at = "answered" /\ state.status # 200
  BY <1>1 DEF CsgStates
<1>3. MovesOn(c, state)
  BY <1>1, <1>2 DEF CsgEnds, MovesOn
<1>4. QED BY <1>2, <1>3, RefusalKeeps

\* The refusals are total: what none of them finds is in time and signed.
LEMMA StatusFacts ==
    ASSUME AdmissionTypeOK, NEW m \in Messages
    PROVE  /\ StatusOf(m) \in {200, 400, 401, 408, 422}
           /\ StatusOf(m) = 200 => m.defect = "none"
<1>1. /\ now \in Int /\ m.payload.timestamp \in Int /\ Skew \in Int
      /\ m.defect \in Defects
  <2>1. m.payload \in CsgPayloads /\ m.defect \in Defects
    BY DEF Messages
  <2>2. m.payload.timestamp \in 0 .. MaxTime
    BY <2>1, AdmissionAssumption DEF CsgPayloads
  <2>3. QED BY <2>1, <2>2, ClockAssumption, AdmissionAssumption DEF AdmissionTypeOK
<1>2. CASE m.defect \in {"no json", "no schema", "no token", "no key"}
  <2>1. m.defect = "no json" => StatusOf(m) = 400
    BY DEF StatusOf
  <2>2. m.defect = "no schema" => StatusOf(m) = 422
    BY DEF StatusOf
  <2>3. m.defect = "no token" => StatusOf(m) = 401
    BY DEF StatusOf
  <2>4. m.defect = "no key" => StatusOf(m) = 400
    BY DEF StatusOf
  <2>5. StatusOf(m) \in {400, 401, 422}
    BY <1>2, <2>1, <2>2, <2>3, <2>4
  <2>6. StatusOf(m) # 200
    BY <2>5
  <2>7. QED BY <2>5, <2>6
<1>3. CASE m.defect = "unsigned"
  <2>1. \/ now - m.payload.timestamp > Skew
        \/ now - m.payload.timestamp <= Skew /\ ~(now - m.payload.timestamp > Skew)
    BY <1>1
  <2>2. QED BY <1>3, <2>1 DEF StatusOf
<1>4. CASE m.defect = "none"
  BY <1>4 DEF StatusOf
<1>5. QED BY <1>1, <1>2, <1>3, <1>4 DEF Defects

\* Deciding a key: its row is the request's, and stays if there was one.
LEMMA DecideKeeps ==
    ASSUME AdmissionTypeOK, RecordInv, NEW c \in CsgCalls, DecideKey(c)
    PROVE  (AdmissionTypeOK /\ RecordInv)'
<1>0. csgCall[c].at = "admitted" /\ csgCall[c].message \in Messages
  BY CsgCallStates DEF DecideKey
<1>a. PICK m \in Messages : m = csgCall[c].message
  BY <1>0
<1>b. PICK k \in RequestIds : k = m.payload.id
  BY DEF Messages, CsgPayloads
<1>1. /\ m.defect = "none" /\ m.payload \in CsgPayloads /\ m.payload.body \in Bodies
  BY <1>0, <1>a DEF Messages, CsgPayloads, RecordInv, CallSound
<1>2. /\ idempotency_keys[k] # NoRow => idempotency_keys[k].request_digest = m.payload
      /\ idempotency_keys' = [idempotency_keys EXCEPT ![k] =
             IF idempotency_keys[k] = NoRow THEN NewRow(m) ELSE idempotency_keys[k]]
      /\ csgCall' = [csgCall EXCEPT ![c] =
             [at |-> "decided", message |-> m, row |-> idempotency_keys'[k]]]
      /\ now' = now /\ validation_events' = validation_events /\ csgKeys' = csgKeys
  BY <1>a, <1>b DEF DecideKey
<1>3. /\ NewRow(m) \in CsgRows
      /\ NewRow(m).request_id = k /\ NewRow(m).request_digest = m.payload
      /\ NewRow(m).decision = DecisionOf[m.payload.body]
      /\ NewRow(m).key_id \in csgKeys.known
  BY <1>1, <1>b DEF NewRow, CsgRows, AdmissionTypeOK, RecordInv
<1>4. /\ idempotency_keys'[k] \in CsgRows
      /\ idempotency_keys'[k].request_digest = m.payload
      /\ idempotency_keys' \in [RequestIds -> CsgRows \cup {NoRow}]
      /\ \A j \in RequestIds \ {k} : idempotency_keys'[j] = idempotency_keys[j]
      /\ idempotency_keys[k] # NoRow => idempotency_keys'[k] = idempotency_keys[k]
  BY <1>1, <1>2, <1>3 DEF AdmissionTypeOK
<1>5. idempotency_keys'[k] # NoRow
  BY <1>4, AdmissionAssumption
<1>6. RowSound(k)'
  <2>1. CASE idempotency_keys[k] = NoRow
    <3>1. idempotency_keys'[k] = NewRow(m)
      BY <1>1, <1>2, <2>1 DEF AdmissionTypeOK
    <3>2. QED BY <1>2, <1>3, <1>5, <1>b, <3>1 DEF RowSound
  <2>2. CASE idempotency_keys[k] # NoRow
    <3>1. RowSound(k) /\ idempotency_keys'[k] = idempotency_keys[k]
      BY <1>1, <1>4, <2>2 DEF RecordInv
    <3>2. QED BY <1>2, <3>1 DEF RowSound
  <2>3. QED BY <2>1, <2>2
<1>7. /\ \A j \in RequestIds : idempotency_keys[j] # NoRow => RowSound(j)'
      /\ \A e \in validation_events : e.result = "PASS" => EventSound(e)'
      /\ \A d \in CsgCalls : csgCall'[d] = csgCall[d] => CallSound(d)'
  BY <1>2, <1>4, GrowthKeeps
<1>8. [at |-> "decided", message |-> m, row |-> idempotency_keys'[k]] \in CsgStates
  BY <1>1, <1>4 DEF CsgStates
<1>9. /\ csgCall'[c] = [at |-> "decided", message |-> m, row |-> idempotency_keys'[k]]
      /\ \A d \in CsgCalls \ {c} : csgCall'[d] = csgCall[d]
  BY <1>2 DEF AdmissionTypeOK
<1>10. AdmissionTypeOK'
  BY <1>2, <1>4, <1>8 DEF AdmissionTypeOK
<1>11. CallSound(c)'
  BY <1>1, <1>4, <1>9, <1>b DEF CallSound
<1>12. \A j \in RequestIds : idempotency_keys'[j] # NoRow => RowSound(j)'
  BY <1>4, <1>6, <1>7
<1>13. QED BY <1>2, <1>7, <1>9, <1>10, <1>11, <1>12 DEF RecordInv

\* The answer: a PASS event with the time of the row.
LEMMA AnswerKeeps ==
    ASSUME AdmissionTypeOK, RecordInv, NEW c \in CsgCalls, AnswerDecision(c)
    PROVE  (AdmissionTypeOK /\ RecordInv)'
<1>0. /\ csgCall[c].at = "decided" /\ csgCall[c].message \in Messages
      /\ csgCall[c].row \in CsgRows
  BY CsgCallStates DEF AnswerDecision
<1>a. PICK m \in Messages, row \in CsgRows : m = csgCall[c].message /\ row = csgCall[c].row
  BY <1>0
<1>b. PICK e : e = Event(m, "PASS", 200, row.issued_at)
  OBVIOUS
<1>c. PICK state : state = [at |-> "answered", status |-> 200, id |-> m.payload.id,
                            row |-> row]
  OBVIOUS
<1>2. /\ validation_events' = validation_events \cup {e}
      /\ csgCall' = [csgCall EXCEPT ![c] = state]
      /\ UNCHANGED <<now, idempotency_keys, csgKeys>>
  BY <1>a, <1>b, <1>c DEF AnswerDecision
<1>3. /\ m.payload.id \in RequestIds /\ m.defect = "none"
      /\ idempotency_keys[m.payload.id] = row /\ row.request_digest = m.payload
  BY <1>0, <1>a DEF RecordInv, CallSound, Messages, CsgPayloads
<1>4. /\ e.result = "PASS" /\ e.payload = m.payload /\ e.created_at = row.issued_at
      /\ e.request_id = m.payload.id
  BY <1>3, <1>b, EventFacts
<1>5. state \in CsgStates /\ state.at = "answered" /\ state.id = m.payload.id
      /\ state.row = row
  BY <1>3, <1>c DEF CsgStates
<1>6. AdmissionTypeOK'
  BY <1>2, <1>5 DEF AdmissionTypeOK
<1>7. /\ \A k \in RequestIds : idempotency_keys[k] # NoRow => RowSound(k)'
      /\ \A f \in validation_events : f.result = "PASS" => EventSound(f)'
      /\ \A d \in CsgCalls : csgCall'[d] = csgCall[d] => CallSound(d)'
  BY <1>2, GrowthKeeps DEF AdmissionTypeOK
<1>8. row # NoRow
  BY AdmissionAssumption
<1>9. EventSound(e)'
  BY <1>2, <1>3, <1>4, <1>8 DEF EventSound
<1>10. csgCall'[c] = state /\ \A d \in CsgCalls \ {c} : csgCall'[d] = csgCall[d]
  BY <1>2 DEF AdmissionTypeOK
<1>11. e \in Passed(m.payload.id)'
  BY <1>2, <1>4 DEF Passed
<1>12. CallSound(c)'
  BY <1>2, <1>3, <1>5, <1>10, <1>11 DEF CallSound
<1>13. QED BY <1>2, <1>6, <1>7, <1>9, <1>10, <1>12 DEF RecordInv

\* Every step keeps the record sound.
LEMMA AdmissionStep ==
    ASSUME AdmissionTypeOK, RecordInv, [AdmissionNext]_admissionVars
    PROVE  (AdmissionTypeOK /\ RecordInv)'
<1>1. ASSUME NEW c \in CsgCalls, Send(c) PROVE (AdmissionTypeOK /\ RecordInv)'
  <2>1. PICK m \in Messages :
            csgCall' = [csgCall EXCEPT ![c] = [at |-> "sent", message |-> m]]
    BY <1>1 DEF Send
  <2>2. PICK state : state = [at |-> "sent", message |-> m]
    OBVIOUS
  <2>3. state \in CsgStates /\ MovesOn(c, state)
    BY <2>1, <2>2 DEF CsgStates, MovesOn
  <2>4. UNCHANGED <<now, idempotency_keys, validation_events, csgKeys>>
    BY <1>1 DEF Send
  <2>5. QED BY <2>3, <2>4, RefusalKeeps
<1>2. ASSUME NEW c \in CsgCalls, RejectCsg(c) PROVE (AdmissionTypeOK /\ RecordInv)'
  <2>1. csgCall[c].message \in Messages
    BY <1>2, CsgCallStates DEF RejectCsg
  <2>2. StatusOf(csgCall[c].message) \in {400, 401, 408, 422}
    BY <1>2, <2>1, StatusFacts DEF RejectCsg
  <2>3. CsgEnds(c, StatusOf(csgCall[c].message))
    BY <1>2 DEF RejectCsg
  <2>4. /\ validation_events \subseteq validation_events'
        /\ \A e \in validation_events' : e \in validation_events \/ e.result = "REJECT"
    BY <1>2, <2>1, EventFacts DEF RejectCsg
  <2>5. QED BY <1>2, <2>2, <2>3, <2>4, EndKeeps DEF RejectCsg
<1>3. ASSUME NEW c \in CsgCalls, Admit(c) PROVE (AdmissionTypeOK /\ RecordInv)'
  <2>1. /\ csgCall[c] \in [at : {"sent", "admitted"}, message : Messages]
        /\ csgCall[c].message \in Messages
    BY <1>3, CsgCallStates DEF Admit
  <2>2. csgCall[c].message.defect = "none"
    BY <1>3, <2>1, StatusFacts DEF Admit
  <2>3. PICK state : state = [csgCall[c] EXCEPT !.at = "admitted"]
    OBVIOUS
  <2>4. /\ state \in [at : {"sent", "admitted"}, message : Messages]
        /\ state.at \in {"sent", "admitted", "answered"}
        /\ state.at = "admitted" => state.message.defect = "none"
        /\ state.at = "answered" => state.status # 200
    <3>1. state.at = "admitted" /\ state.message = csgCall[c].message
      BY <2>1, <2>3
    <3>2. QED BY <2>1, <2>2, <2>3, <3>1
  <2>5. state \in CsgStates
    BY <2>4 DEF CsgStates
  <2>6. MovesOn(c, state)
    BY <1>3, <2>3, <2>4 DEF Admit, AdmissionTypeOK, MovesOn
  <2>7. UNCHANGED <<now, idempotency_keys, validation_events, csgKeys>>
    BY <1>3 DEF Admit
  <2>8. QED BY <2>5, <2>6, <2>7, RefusalKeeps
<1>4. ASSUME NEW c \in CsgCalls, DecideKey(c) PROVE (AdmissionTypeOK /\ RecordInv)'
  BY <1>4, DecideKeeps
<1>5. ASSUME NEW c \in CsgCalls, KeyReused(c) PROVE (AdmissionTypeOK /\ RecordInv)'
  <2>1. csgCall[c].message \in Messages
    BY <1>5, CsgCallStates DEF KeyReused
  <2>2. /\ validation_events \subseteq validation_events'
        /\ \A e \in validation_events' : e \in validation_events \/ e.result = "REJECT"
    BY <1>5, <2>1, EventFacts DEF KeyReused
  <2>3. QED BY <1>5, <2>2, EndKeeps DEF KeyReused
<1>6. ASSUME NEW c \in CsgCalls, AnswerDecision(c) PROVE (AdmissionTypeOK /\ RecordInv)'
  BY <1>6, AnswerKeeps
<1>7. ASSUME NEW c \in CsgCalls, CrashServer(c) PROVE (AdmissionTypeOK /\ RecordInv)'
  BY <1>7, EndKeeps DEF CrashServer
<1>8. ASSUME NEW k \in CsgKeyIds, RotateCsgKey(k) PROVE (AdmissionTypeOK /\ RecordInv)'
  <2>1. /\ csgKeys'.known = csgKeys.known \cup {k} /\ csgKeys'.current = k
        /\ csgKeys' \in [known : SUBSET CsgKeyIds, current : CsgKeyIds]
        /\ UNCHANGED <<now, idempotency_keys, validation_events, csgCall>>
    BY <1>8 DEF RotateCsgKey, AdmissionTypeOK
  <2>2. AdmissionTypeOK'
    BY <2>1 DEF AdmissionTypeOK
  <2>3. QED BY <2>1, <2>2, GrowthKeeps DEF RecordInv, AdmissionTypeOK
<1>9. CASE AdmissionTick
  <2>1. /\ now' \in Nat /\ UNCHANGED <<idempotency_keys, validation_events, csgKeys, csgCall>>
    BY <1>9 DEF AdmissionTick, Tick, AdmissionTypeOK
  <2>2. QED BY <2>1, GrowthKeeps DEF AdmissionTypeOK, RecordInv
<1>10. CASE UNCHANGED admissionVars
  <2>1. UNCHANGED <<now, idempotency_keys, validation_events, csgKeys, csgCall>>
    BY <1>10 DEF admissionVars
  <2>2. QED BY <2>1, GrowthKeeps DEF AdmissionTypeOK, RecordInv
<1>11. QED BY <1>1, <1>2, <1>3, <1>4, <1>5, <1>6, <1>7, <1>8, <1>9, <1>10 DEF AdmissionNext

\* A CSG decision that was answered can be replayed ever after, to the same outcome:
\* for any number of requests, ids, bodies, keys and crashes.
THEOREM AdmissionStaysReplayable == AdmissionSpec => []AnswersStayReplayable
<1>1. AdmissionInit => AdmissionTypeOK /\ RecordInv
  BY DEF AdmissionInit, AdmissionTypeOK, RecordInv, CallSound, CsgStates
<1>2. AdmissionTypeOK /\ RecordInv /\ [AdmissionNext]_admissionVars
          => (AdmissionTypeOK /\ RecordInv)'
  BY AdmissionStep
<1>3. AdmissionTypeOK /\ RecordInv => AnswersStayReplayable
  <2>1. SUFFICES ASSUME AdmissionTypeOK, RecordInv, NEW c \in CsgCalls,
                        csgCall[c].at = "answered", csgCall[c].status = 200
                 PROVE  /\ idempotency_keys[csgCall[c].id] = csgCall[c].row
                        /\ LatestPassed(csgCall[c].id) # {}
                        /\ \A e \in LatestPassed(csgCall[c].id) :
                               ReplayAnswer(csgCall[c].id, e) = "match"
    BY DEF AnswersStayReplayable
  <2> DEFINE id == csgCall[c].id
             row == idempotency_keys[id]
  <2>2. /\ id \in RequestIds /\ row = csgCall[c].row /\ row \in CsgRows
        /\ Passed(id) # {}
    BY <2>1, CsgCallStates DEF RecordInv, CallSound
  <2>3. row # NoRow /\ row.issued_at \in Nat
    BY <2>2, AdmissionAssumption DEF CsgRows
  <2>4. RowSound(id)
    BY <2>1, <2>2, <2>3 DEF RecordInv
  <2>5. \A e \in Passed(id) : e.payload = row.request_digest /\ e.created_at = row.issued_at
    BY <2>1 DEF RecordInv, EventSound, Passed
  <2> HIDE DEF id
  <2>6. LatestPassed(id) = Passed(id)
    BY <2>3, <2>5 DEF LatestPassed
  <2>7. ASSUME NEW e \in Passed(id) PROVE ReplayAnswer(id, e) = "match"
    BY <2>3, <2>4, <2>5 DEF ReplayAnswer, RowSound, VerifiesAuthority
  <2>8. QED BY <2>2, <2>6, <2>7 DEF id
<1>4. QED BY <1>1, <1>2, <1>3, PTL DEF AdmissionSpec

-----------------------------------------------------------------------------
(* The innovation history.                                                 *)

Branches ==
    [commits : Seq(Runs \cup {"other"}), history : Seq(Runs) \cup {Malformed},
     report : {Malformed} \cup {Report(r) : r \in Runs}]

JobStates ==
    [at : {"queued", "checkout", "ended"}, attempt : Nat, reruns : Nat]
        \cup [at : {"script", "push"}, attempt : Nat, reruns : Nat, base : Branches]

InnovationTypeOK ==
    /\ main \in Branches
    /\ job \in [Runs -> JobStates]
    /\ published \in [pushes : Nat, runs : SUBSET Runs]

\* r is at one place of the history, and no other.
OnceIn(history, r) ==
    \E i \in 1 .. Len(history) : \A j \in 1 .. Len(history) : history[j] = r <=> j = i

\* A job works on a branch that main was once: on main as it is, if no commit was
\* added since.
WorkingCopies ==
    \A r \in Runs : job[r].at \in {"script", "push"} =>
        /\ Len(job[r].base.commits) =< Len(main.commits)
        /\ Len(job[r].base.commits) = Len(main.commits) => job[r].base = main
        /\ job[r].at = "push" => job[r].base.history # Malformed

InnovationInv ==
    /\ InnovationTypeOK
    /\ WorkingCopies
    /\ Len(main.commits) = published.pushes
    /\ published.runs # {} =>
           /\ main.history \in Seq(Runs) /\ main.history # <<>>
           /\ main.report = Report(main.history[Len(main.history)])
           /\ \A r \in published.runs : OnceIn(main.history, r)

\* What the script writes: the run is at the end, every other one stays once.
LEMMA RecordedOnce ==
    ASSUME NEW history \in Seq(Runs), NEW r \in Runs
    PROVE  /\ Recorded(history, r) \in Seq(Runs)
           /\ Len(Recorded(history, r)) \in Nat \ {0}
           /\ Recorded(history, r)[Len(Recorded(history, r))] = r
           /\ OnceIn(Recorded(history, r), r)
           /\ \A s \in Runs : s # r /\ OnceIn(history, s) => OnceIn(Recorded(history, r), s)
<1> DEFINE others == {i \in DOMAIN history : history[i] # r}
           p == Picked(history, others)
           L == Len(p)
<1>1. p \in Seq(Runs) /\ \E place : Enumerates(place, p, history, others, Len(history))
  <2> HIDE DEF others
  <2> QED BY PickedPlaces
<1>2. PICK place : Enumerates(place, p, history, others, Len(history))
  BY <1>1
<1>3. L \in Nat /\ \A k \in 1 .. L : p[k] \in Runs
  <2> HIDE DEF p
  <2> QED BY <1>1
<1> HIDE DEF others, p, L
<1>4. /\ \A k \in 1 .. L : place[k] \in 1 .. Len(history) /\ history[place[k]] # r
      /\ \A k \in 1 .. L : p[k] = history[place[k]]
      /\ \A j, k \in 1 .. L : j < k => place[j] < place[k]
      /\ \A i \in 1 .. Len(history) : history[i] # r => \E k \in 1 .. L : place[k] = i
  <2>1. others = {i \in 1 .. Len(history) : history[i] # r}
    BY DEF others
  <2> QED BY <1>2, <2>1 DEF Enumerates, L
<1>5. /\ Recorded(history, r) = Append(p, r) /\ Append(p, r) \in Seq(Runs)
      /\ Len(Append(p, r)) = L + 1 /\ Append(p, r)[L + 1] = r
      /\ \A k \in 1 .. L : Append(p, r)[k] = p[k]
  BY <1>1 DEF Recorded, p, others, L
<1>6. OnceIn(Append(p, r), r)
  <2>1. L + 1 \in 1 .. L + 1 /\ \A j \in 1 .. L + 1 : Append(p, r)[j] = r <=> j = L + 1
    BY <1>3, <1>4, <1>5
  <2> QED BY <1>5, <2>1 DEF OnceIn
<1>7. ASSUME NEW s \in Runs, s # r, OnceIn(history, s)
      PROVE  OnceIn(Append(p, r), s)
  <2>1. PICK i \in 1 .. Len(history) :
          \A j \in 1 .. Len(history) : history[j] = s <=> j = i
    BY <1>7 DEF OnceIn
  <2>2. PICK k \in 1 .. L : place[k] = i
    BY <1>4, <1>7, <2>1
  <2>3. ASSUME NEW j \in 1 .. L + 1 PROVE Append(p, r)[j] = s <=> j = k
    <3>1. CASE j = L + 1
      BY <1>3, <1>5, <1>7, <2>2, <3>1
    <3>2. CASE j \in 1 .. L
      <4>1. Append(p, r)[j] = s <=> place[j] = i
        BY <1>4, <1>5, <2>1, <3>2
      <4>2. place[j] = i => j = k
        <5>1. j < k \/ k < j \/ j = k
          BY <1>3, <2>2, <3>2
        <5>2. place[j] \in Nat /\ place[k] \in Nat
          BY <1>4, <3>2
        <5> QED BY <1>4, <2>2, <3>2, <5>1, <5>2
      <4> QED BY <2>2, <4>1, <4>2
    <3>3. j = L + 1 \/ j \in 1 .. L
      BY <1>3
    <3> QED BY <3>1, <3>2, <3>3
  <2>4. k \in 1 .. L + 1
    BY <1>3, <2>2
  <2> QED BY <1>5, <2>3, <2>4 DEF OnceIn
<1> QED BY <1>3, <1>5, <1>6, <1>7

\* A sequence with one more element at its end.
LEMMA OneMore ==
    ASSUME NEW S, NEW s \in Seq(S), NEW x \in S
    PROVE  /\ s \o <<x>> \in Seq(S) /\ Len(s \o <<x>>) = Len(s) + 1
           /\ \A i \in 1 .. Len(s) + 1 :
                  (s \o <<x>>)[i] = IF i =< Len(s) THEN s[i] ELSE x
<1> DEFINE t == <<x>>
<1>1. t \in Seq(S) /\ Len(t) = 1 /\ t[1] = x
  OBVIOUS
<1>2. Len(s) \in Nat
  OBVIOUS
<1> HIDE DEF t
<1>3. /\ s \o t \in Seq(S) /\ Len(s \o t) = Len(s) + Len(t)
      /\ \A i \in 1 .. Len(s) + Len(t) :
             (s \o t)[i] = IF i =< Len(s) THEN s[i] ELSE t[i - Len(s)]
  BY <1>1, ConcatProperties
<1>4. ASSUME NEW i \in 1 .. Len(s) + 1
      PROVE  (s \o t)[i] = IF i =< Len(s) THEN s[i] ELSE x
  <2>1. i > Len(s) => i - Len(s) = 1
    BY <1>2
  <2> QED BY <1>1, <1>2, <1>3, <2>1
<1> QED BY <1>1, <1>3, <1>4 DEF t

\* A report lists a candidate made of the first failure, when there is one.
LEMMA ReportShowsFailure == \A r \in Runs : FailureShown(Report(r)) /\ Report(r).run = r
<1> SUFFICES ASSUME NEW r \in Runs PROVE FailureShown(Report(r)) /\ Report(r).run = r
  OBVIOUS
<1> DEFINE failed == Failures(Experiments)
           new == Candidate("CONTRADICTION", <<failed[1].candidate>>)
<1>1. /\ Report(r).experiments = Experiments /\ Report(r).run = r
      /\ Report(r).candidates = GenerateCandidates(Experiments)
  BY DEF Report
<1>2. ASSUME failed # <<>>
      PROVE  \E i \in DOMAIN GenerateCandidates(Experiments) :
                 GenerateCandidates(Experiments)[i] = new
  <2> DEFINE always ==
               <<Candidate("COMBINE", SubSeq(Architecture, 1, 2)),
                 Candidate("TRANSFER", <<Architecture[1], Architecture[Len(Architecture)]>>),
                 Candidate("EXTEND", <<Architecture[1]>>),
                 Candidate("REVERSE", <<Architecture[1]>>),
                 Candidate("REORDER", SubSeq(Architecture, 1, 3)),
                 Candidate("REMOVE", SubSeq(Architecture, 1, 3))>>
             last == Candidate("EMERGENT", SubSeq(Architecture, 1, 4))
             elements == {always[i] : i \in 1 .. 6} \cup {new, last}
  <2>1. GenerateCandidates(Experiments) = always \o <<new>> \o <<last>>
    BY <1>2 DEF GenerateCandidates
  <2>2. always \in Seq(elements) /\ Len(always) = 6
    OBVIOUS
  <2> HIDE DEF always
  <2>3. new \in elements /\ last \in elements
    OBVIOUS
  <2> HIDE DEF elements, new, last
  <2>4. /\ always \o <<new>> \in Seq(elements) /\ Len(always \o <<new>>) = 7
        /\ (always \o <<new>>)[7] = new
    <3>1. /\ always \o <<new>> \in Seq(elements)
          /\ Len(always \o <<new>>) = Len(always) + 1
          /\ \A i \in 1 .. Len(always) + 1 :
                 (always \o <<new>>)[i] = IF i =< Len(always) THEN always[i] ELSE new
      BY <2>2, <2>3, OneMore
    <3> QED BY <2>2, <3>1
  <2> DEFINE seven == always \o <<new>>
  <2> HIDE DEF seven
  <2>5. /\ seven \o <<last>> \in Seq(elements) /\ Len(seven \o <<last>>) = 8
        /\ (seven \o <<last>>)[7] = new
    <3>1. seven \in Seq(elements) /\ Len(seven) = 7 /\ seven[7] = new
      BY <2>4 DEF seven
    <3>2. /\ seven \o <<last>> \in Seq(elements)
          /\ Len(seven \o <<last>>) = Len(seven) + 1
          /\ \A i \in 1 .. Len(seven) + 1 :
                 (seven \o <<last>>)[i] = IF i =< Len(seven) THEN seven[i] ELSE last
      BY <2>3, <3>1, OneMore
    <3> QED BY <3>1, <3>2
  <2>6. 7 \in DOMAIN (seven \o <<last>>)
    BY <2>5
  <2> QED BY <2>1, <2>5, <2>6 DEF seven
<1> QED BY <1>1, <1>2 DEF FailureShown

\* A job that starts over, ends or has not begun holds no branch.
LEMMA JobKeepsInv ==
    ASSUME InnovationInv, NEW r \in Runs, UNCHANGED <<main, published>>,
           NEW state \in JobStates, job' = [job EXCEPT ![r] = state],
           state.at \in {"script", "push"} =>
               /\ Len(state.base.commits) =< Len(main.commits)
               /\ Len(state.base.commits) = Len(main.commits) => state.base = main
               /\ state.at = "push" => state.base.history # Malformed
    PROVE  InnovationInv'
<1>1. InnovationTypeOK'
  BY DEF InnovationInv, InnovationTypeOK
<1>2. WorkingCopies'
  <2> SUFFICES ASSUME NEW s \in Runs, job'[s].at \in {"script", "push"}
               PROVE  /\ Len(job'[s].base.commits) =< Len(main.commits)
                      /\ Len(job'[s].base.commits) = Len(main.commits) =>
                             job'[s].base = main
                      /\ job'[s].at = "push" => job'[s].base.history # Malformed
    BY DEF WorkingCopies
  <2>1. CASE s = r
    BY <2>1 DEF InnovationInv, InnovationTypeOK
  <2>2. CASE s # r
    BY <2>2 DEF InnovationInv, InnovationTypeOK, WorkingCopies
  <2> QED BY <2>1, <2>2
<1> QED BY <1>1, <1>2 DEF InnovationInv

IdleStates == [at : {"queued", "checkout", "ended"}, attempt : Nat, reruns : Nat]

LEMMA JobFacts ==
    ASSUME InnovationInv, NEW r \in Runs
    PROVE  /\ job[r] \in JobStates /\ job[r].attempt \in Nat /\ job[r].reruns \in Nat
           /\ job[r].at \in {"script", "push"} => job[r].base \in Branches
           /\ job[r].at \notin {"script", "push"} => job[r] \in IdleStates
           /\ Retried(r) \in IdleStates
           /\ [at |-> "ended", attempt |-> job[r].attempt, reruns |-> job[r].reruns]
                  \in IdleStates
<1>1. job[r] \in JobStates
  BY DEF InnovationInv, InnovationTypeOK
<1>2. job[r].attempt \in Nat /\ job[r].reruns \in Nat
  BY <1>1 DEF JobStates
<1>3. /\ job[r].at \in {"script", "push"} => job[r].base \in Branches
      /\ job[r].at \notin {"script", "push"} => job[r] \in IdleStates
  BY <1>1 DEF JobStates, IdleStates
<1> QED BY <1>1, <1>2, <1>3 DEF Retried, IdleStates

LEMMA IdleKeepsInv ==
    ASSUME InnovationInv, NEW r \in Runs, UNCHANGED <<main, published>>,
           NEW state \in IdleStates, job' = [job EXCEPT ![r] = state]
    PROVE  InnovationInv'
<1>1. state \in JobStates /\ state.at \notin {"script", "push"}
  BY DEF IdleStates, JobStates
<1> QED BY <1>1, JobKeepsInv

LEMMA PushKeepsInv ==
    ASSUME InnovationInv, NEW r \in Runs, Push(r)
    PROVE  InnovationInv'
<1> DEFINE base == job[r].base
           next == [commits |-> Append(base.commits, r),
                    history |-> Recorded(base.history, r), report |-> Report(r)]
<1>1. /\ job[r].at = "push" /\ main.commits = base.commits
      /\ main' = next
      /\ published' = [pushes |-> published.pushes + 1, runs |-> published.runs \cup {r}]
      /\ \E state \in IdleStates : job' = [job EXCEPT ![r] = state]
  BY JobFacts DEF Push, FastForward
<1>2. PICK state \in IdleStates : job' = [job EXCEPT ![r] = state]
  BY <1>1
<1>3. base = main /\ main.history # Malformed
  BY <1>1 DEF InnovationInv, WorkingCopies
<1>4. /\ main \in Branches /\ main.history \in Seq(Runs)
      /\ main.commits \in Seq(Runs \cup {"other"}) /\ Len(main.commits) = published.pushes
      /\ published.runs \subseteq Runs /\ published.pushes \in Nat
  BY <1>3 DEF InnovationInv, InnovationTypeOK, Branches
<1>5. /\ Recorded(main.history, r) \in Seq(Runs)
      /\ Len(Recorded(main.history, r)) \in Nat \ {0}
      /\ Recorded(main.history, r)[Len(Recorded(main.history, r))] = r
      /\ OnceIn(Recorded(main.history, r), r)
      /\ \A s \in Runs : s # r /\ OnceIn(main.history, s) =>
             OnceIn(Recorded(main.history, r), s)
  BY <1>4, RecordedOnce
<1>6. /\ main'.commits = Append(main.commits, r)
      /\ main'.history = Recorded(main.history, r) /\ main'.report = Report(r)
      /\ main' = [commits |-> Append(main.commits, r),
                  history |-> Recorded(main.history, r), report |-> Report(r)]
  BY <1>1, <1>3
<1>7. /\ Append(main.commits, r) \in Seq(Runs \cup {"other"})
      /\ Len(main'.commits) = Len(main.commits) + 1
  BY <1>4, <1>6
<1>8. InnovationTypeOK'
  <2>1. main' \in Branches
    BY <1>5, <1>6, <1>7 DEF Branches
  <2>2. job' \in [Runs -> JobStates]
    BY <1>2 DEF InnovationInv, InnovationTypeOK, JobStates, IdleStates
  <2>3. published' \in [pushes : Nat, runs : SUBSET Runs]
    BY <1>1, <1>4
  <2> QED BY <2>1, <2>2, <2>3 DEF InnovationTypeOK
<1>9. WorkingCopies'
  <2> SUFFICES ASSUME NEW s \in Runs, job'[s].at \in {"script", "push"}
               PROVE  /\ Len(job'[s].base.commits) =< Len(main'.commits)
                      /\ Len(job'[s].base.commits) = Len(main'.commits) =>
                             job'[s].base = main'
                      /\ job'[s].at = "push" => job'[s].base.history # Malformed
    BY DEF WorkingCopies
  <2>1. s # r
    BY <1>2 DEF IdleStates, InnovationInv, InnovationTypeOK
  <2>2. job'[s] = job[s]
    BY <1>2, <2>1 DEF InnovationInv, InnovationTypeOK
  <2>3. /\ Len(job[s].base.commits) =< Len(main.commits)
        /\ job[s].at = "push" => job[s].base.history # Malformed
    BY <2>2 DEF InnovationInv, WorkingCopies
  <2>4. Len(job[s].base.commits) \in Nat /\ Len(main.commits) \in Nat
    BY <1>4, <2>2, JobFacts DEF Branches
  <2> QED BY <1>7, <2>2, <2>3, <2>4
<1>10. Len(main'.commits) = published'.pushes
  BY <1>1, <1>4, <1>7
<1>11. /\ main'.history \in Seq(Runs) /\ main'.history # <<>>
       /\ main'.report = Report(main'.history[Len(main'.history)])
  BY <1>5, <1>6
<1>12. \A s \in published'.runs : OnceIn(main'.history, s)
  BY <1>1, <1>4, <1>5, <1>6 DEF InnovationInv
<1> QED BY <1>8, <1>9, <1>10, <1>11, <1>12 DEF InnovationInv

LEMMA InnovationStep == InnovationInv /\ [InnovationNext]_innovationVars => InnovationInv'
<1> SUFFICES ASSUME InnovationInv, [InnovationNext]_innovationVars PROVE InnovationInv'
  OBVIOUS
<1>1. ASSUME NEW r \in Runs, StartJob(r) PROVE InnovationInv'
  <2> DEFINE state == [at |-> "checkout", attempt |-> 1, reruns |-> job[r].reruns]
  <2>1. job[r] \in IdleStates /\ job[r].reruns \in Nat
    BY <1>1, JobFacts DEF StartJob
  <2>2. state \in IdleStates /\ job' = [job EXCEPT ![r] = state]
    BY <1>1, <2>1 DEF StartJob, IdleStates
  <2>3. UNCHANGED <<main, published>>
    BY <1>1 DEF StartJob
  <2> HIDE DEF state
  <2> QED BY <2>2, <2>3, IdleKeepsInv
<1>2. ASSUME NEW r \in Runs, Checkout(r) PROVE InnovationInv'
  <2> DEFINE state == [at |-> "script", attempt |-> job[r].attempt,
                       reruns |-> job[r].reruns, base |-> main]
  <2>1. job' = [job EXCEPT ![r] = state] /\ UNCHANGED <<main, published>>
    BY <1>2 DEF Checkout
  <2>2. state \in JobStates
    BY JobFacts DEF JobStates, InnovationInv, InnovationTypeOK
  <2>3. Len(main.commits) \in Nat
    BY DEF InnovationInv, InnovationTypeOK, Branches
  <2>4. /\ Len(state.base.commits) =< Len(main.commits)
        /\ state.base = main /\ state.at = "script"
    BY <2>3
  <2> HIDE DEF state
  <2> QED BY <2>1, <2>2, <2>3, <2>4, JobKeepsInv
<1>3. ASSUME NEW r \in Runs, RunScript(r) PROVE InnovationInv'
  <2>1. job[r].at = "script" /\ UNCHANGED <<main, published>>
    BY <1>3 DEF RunScript
  <2>2. CASE job[r].base.history = Malformed
    <3> DEFINE state == [at |-> "ended", attempt |-> job[r].attempt,
                         reruns |-> job[r].reruns]
    <3>1. state \in IdleStates /\ job' = [job EXCEPT ![r] = state]
      BY <1>3, <2>2, JobFacts DEF RunScript
    <3> HIDE DEF state
    <3> QED BY <2>1, <3>1, IdleKeepsInv
  <2>3. CASE job[r].base.history # Malformed
    <3> DEFINE state == [job[r] EXCEPT !.at = "push"]
    <3>1. job' = [job EXCEPT ![r] = state]
      BY <1>3, <2>3 DEF RunScript
    <3>2. state \in JobStates /\ state.base = job[r].base
      BY <2>1, JobFacts DEF JobStates
    <3>3. /\ Len(job[r].base.commits) =< Len(main.commits)
          /\ Len(job[r].base.commits) = Len(main.commits) => job[r].base = main
      BY <2>1 DEF InnovationInv, WorkingCopies
    <3> HIDE DEF state
    <3> QED BY <2>1, <2>3, <3>1, <3>2, <3>3, JobKeepsInv
  <2> QED BY <2>2, <2>3
<1>4. ASSUME NEW r \in Runs, Push(r) PROVE InnovationInv'
  BY <1>4, PushKeepsInv
<1>5. ASSUME NEW r \in Runs, PushFails(r) PROVE InnovationInv'
  BY <1>5, JobFacts, IdleKeepsInv DEF PushFails
<1>6. ASSUME NEW r \in Runs, LoseRunner(r) PROVE InnovationInv'
  BY <1>6, JobFacts, IdleKeepsInv DEF LoseRunner
<1>7. ASSUME NEW r \in Runs, Rerun(r) PROVE InnovationInv'
  <2> DEFINE state == [at |-> "queued", attempt |-> 0, reruns |-> job[r].reruns + 1]
  <2>1. state \in IdleStates /\ job' = [job EXCEPT ![r] = state]
    BY <1>7, JobFacts DEF Rerun, IdleStates
  <2>2. UNCHANGED <<main, published>>
    BY <1>7 DEF Rerun
  <2> HIDE DEF state
  <2> QED BY <2>1, <2>2, IdleKeepsInv
<1>8. ASSUME OthersPush PROVE InnovationInv'
  <2>1. /\ main' = [main EXCEPT !.commits = Append(main.commits, "other")]
        /\ published' = [published EXCEPT !.pushes = published.pushes + 1]
        /\ job' = job
    BY <1>8 DEF OthersPush
  <2>2. /\ main \in Branches /\ main.commits \in Seq(Runs \cup {"other"})
        /\ published \in [pushes : Nat, runs : SUBSET Runs]
        /\ Len(main.commits) = published.pushes
    BY DEF InnovationInv, InnovationTypeOK, Branches
  <2>3. /\ Append(main.commits, "other") \in Seq(Runs \cup {"other"})
        /\ Len(Append(main.commits, "other")) = Len(main.commits) + 1
    BY <2>2
  <2>4. /\ main'.commits = Append(main.commits, "other")
        /\ main'.history = main.history /\ main'.report = main.report
        /\ published'.pushes = published.pushes + 1 /\ published'.runs = published.runs
    BY <2>1, <2>2 DEF Branches
  <2>5. InnovationTypeOK'
    <3>1. main' \in Branches
      <4> HIDE DEF Branches
      <4> DEFINE more == Append(main.commits, "other")
      <4> HIDE DEF more
      <4>1. more \in Seq(Runs \cup {"other"}) /\ main' = [main EXCEPT !.commits = more]
        BY <2>1, <2>3 DEF more
      <4> QED BY <2>2, <4>1 DEF Branches
    <3>2. published' \in [pushes : Nat, runs : SUBSET Runs]
      BY <2>1, <2>2
    <3> QED BY <2>1, <3>1, <3>2 DEF InnovationInv, InnovationTypeOK
  <2>6. WorkingCopies'
    <3> SUFFICES ASSUME NEW s \in Runs, job[s].at \in {"script", "push"}
                 PROVE  /\ Len(job[s].base.commits) < Len(main'.commits)
                        /\ job[s].at = "push" => job[s].base.history # Malformed
      BY <2>1, <2>2, <2>3, <2>4, JobFacts DEF WorkingCopies, Branches
    <3>1. /\ Len(job[s].base.commits) =< Len(main.commits)
          /\ job[s].at = "push" => job[s].base.history # Malformed
      BY DEF InnovationInv, WorkingCopies
    <3>2. Len(job[s].base.commits) \in Nat /\ Len(main.commits) \in Nat
      BY <2>2, JobFacts DEF Branches
    <3> QED BY <2>3, <2>4, <3>1, <3>2
  <2> QED BY <2>2, <2>3, <2>4, <2>5, <2>6 DEF InnovationInv
<1>9. ASSUME UNCHANGED innovationVars PROVE InnovationInv'
  BY <1>9 DEF innovationVars, InnovationInv, InnovationTypeOK, WorkingCopies
<1> QED BY <1>1, <1>2, <1>3, <1>4, <1>5, <1>6, <1>7, <1>8, <1>9 DEF InnovationNext

\* For any runs, attempts and other writers, and whatever answer or runner is lost, a
\* published run stays on record (scripts/besaz_innovate.py and its workflow).
THEOREM InnovationStaysOnRecord == InnovationSpec => []RunsStayOnRecord
<1>1. InnovationInit => InnovationInv
  <2> SUFFICES ASSUME InnovationInit PROVE InnovationInv
    OBVIOUS
  <2>1. main \in Branches /\ main.commits = <<>>
    <3>1. <<>> \in Seq(Runs) /\ <<>> \in Seq(Runs \cup {"other"})
      OBVIOUS
    <3>2. main \in [commits : {<<>>}, history : {<<>>, Malformed}, report : {Malformed}]
      BY DEF InnovationInit
    <3> QED BY <3>1, <3>2 DEF Branches
  <2>2. job \in [Runs -> IdleStates]
    BY DEF InnovationInit, IdleStates
  <2>3. published = [pushes |-> 0, runs |-> {}]
    BY DEF InnovationInit
  <2>4. InnovationTypeOK /\ WorkingCopies
    BY <2>1, <2>2, <2>3 DEF InnovationTypeOK, WorkingCopies, JobStates, IdleStates
  <2> QED BY <2>1, <2>3, <2>4 DEF InnovationInv
<1>2. InnovationInv => RunsStayOnRecord
  <2> SUFFICES ASSUME InnovationInv PROVE RunsStayOnRecord
    OBVIOUS
  <2>1. ASSUME NEW r \in published.runs
        PROVE  /\ main.history # Malformed
               /\ Cardinality({i \in DOMAIN main.history : main.history[i] = r}) = 1
    <3>1. main.history \in Seq(Runs) /\ OnceIn(main.history, r)
      BY <2>1 DEF InnovationInv
    <3>2. PICK i \in 1 .. Len(main.history) :
            \A j \in 1 .. Len(main.history) : main.history[j] = r <=> j = i
      BY <3>1 DEF OnceIn
    <3>3. {j \in DOMAIN main.history : main.history[j] = r} = {i}
      BY <3>1, <3>2
    <3> QED BY <3>1, <3>3, FS_Singleton, InnovationAssumption
  <2>2. ASSUME published.runs # {}
        PROVE  /\ main.report.run = main.history[Len(main.history)]
               /\ FailureShown(main.report)
    <3>1. /\ main.history \in Seq(Runs) /\ main.history # <<>>
          /\ main.report = Report(main.history[Len(main.history)])
      BY <2>2 DEF InnovationInv
    <3>2. main.history[Len(main.history)] \in Runs
      BY <3>1
    <3> QED BY <3>1, <3>2, ReportShowsFailure
  <2> QED BY <2>1, <2>2 DEF RunsStayOnRecord, InnovationInv
<1> QED BY <1>1, <1>2, InnovationStep, PTL DEF InnovationSpec
=============================================================================
