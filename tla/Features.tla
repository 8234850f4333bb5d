------------------------------ MODULE Features ------------------------------
(***************************************************************************)
(* The feature engine of the daemon and the handler that feeds it: every   *)
(* durable source fact becomes bounded point-in-time state, from which a   *)
(* decision at a bar boundary reads the latest quote and book, the window  *)
(* of public trades, one context sample per boundary and the last          *)
(* contiguous candles.  Facts come in any order of their times; what a     *)
(* decision may use is settled by exchange time and receipt time.          *)
(*                                                                         *)
(* One authority task runs the handler, so its calls are steps in a fixed  *)
(* order (handling.step) and no other step comes between them: observe,    *)
(* then for a trade the candle aggregator (an instance of Candles) and the *)
(* candles it returns, for a completed candle that candle.  The first call *)
(* that is refused faults the features for good.                           *)
(*                                                                         *)
(* A trade's notional is one unit and the two sides are one sum; prices,   *)
(* context values and the values computed from the inputs are left out.    *)
(*                                                                         *)
(* Translated from crates/trench-core/src/features/common.rs and           *)
(* crates/trenchd/src/app.rs.                                              *)
(***************************************************************************)
EXTENDS Bars, FiniteSetsExt

CONSTANTS Markets,
          Kinds,            \* the kinds of source facts that occur
          Ids,              \* trade ids
          PointIds,         \* sequence numbers of quotes and books
          Times,            \* exchange times
          Receipts,         \* local receipt times
          Micro,            \* the length of a five-minute trade bucket
          EventLimit,       \* TRADE_, SOURCE_, POINT_EVENT_HISTORY by kind
          EventHorizon,     \* FINALIZED_EVENT_ID_HORIZON
          AggregateLimit,   \* TRADE_AGGREGATE_HISTORY
          CandleLimit,      \* candle_history_limit by sleeve
          CandleHorizon,    \* FINALIZED_CANDLE_ID_HORIZON
          SampleLimit,      \* boundary_sample_limit by sleeve
          Lookback,         \* MAX_BAR_LOOKBACK
          MaxMarkets,       \* MAX_MARKETS
          TradeHorizon,     \* FINALIZED_TRADE_ID_HORIZON
          MaxPending,       \* MAX_PENDING_TRADES_PER_MARKET
          Digest(_),        \* canonical_event_id, as a number
          MaxEvents         \* bound: how many different facts occur

AllKinds == {"metadata", "context", "funding", "book", "bbo", "trade", "candle"}
Sampled  == {"context", "funding"}
Points   == {"bbo", "book"}

\* Metadata and completed candles share one history.
Source(kind) == IF kind \in {"metadata", "candle"} THEN "other" ELSE kind

ASSUME FeaturesAssumption ==
  /\ Markets \subseteq Nat /\ Ids \subseteq Nat /\ PointIds \subseteq Nat
  /\ Times \subseteq Nat /\ Receipts \subseteq Nat
  /\ Kinds \subseteq AllKinds
  /\ Micro \in Nat \ {0} /\ Short % Micro = 0 /\ Hour % Micro = 0
  /\ EventLimit \in [Kinds -> Nat \ {0}]
  /\ \A j, k \in Kinds : Source(j) = Source(k) => EventLimit[j] = EventLimit[k]
  /\ CandleLimit \in [Sleeves -> Nat \ {0}] /\ SampleLimit \in [Sleeves -> Nat \ {0}]
  /\ {EventHorizon, AggregateLimit, CandleHorizon, Lookback, MaxMarkets,
      TradeHorizon, MaxPending} \subseteq Nat \ {0}
  /\ MaxEvents \in Nat

VARIABLES seen_events,         \* the facts of every bounded source history
          finalized_events,    \* the newest facts pruned from them
          available_from,      \* the earliest receipt pruned from a point history
          aggregates,          \* trades per market, sleeve, bucket and availability
          aggregates_through,  \* the last bucket pruned from them
          candles,             \* completed candles per market and sleeve
          candles_through,     \* the last close pruned from them
          finalized_candles,   \* the newest candles pruned
          samples,             \* per kind, market and sleeve: boundary -> fact
          trade_ids, closed_ids, pending, gaps, watermark, taken, emitted,
                               \* the candle aggregator
          handling,            \* where the authority is in the handler
          fault,               \* what faulted the features, or Fine
          accepted             \* history: every fact observe has accepted

histories  == <<seen_events, finalized_events, available_from>>
windows    == <<aggregates, aggregates_through>>
shelves    == <<candles, candles_through, finalized_candles>>
aggregator == <<trade_ids, closed_ids, pending, gaps, watermark, taken, emitted>>
vars == <<histories, windows, shelves, samples, aggregator, handling, fault, accepted>>

\* The daemon tells its own aggregator of no gap, so none is ever marked.
Aggregator == INSTANCE Candles WITH
  seen <- trade_ids, finalized <- closed_ids, Prices <- {1},
  FinalizedHorizon <- TradeHorizon, MaxGaps <- 0

Fine == "fine"

----------------------------------------------------------------------------
(* Source facts                                                            *)

\* An identity has the exchange's time, the market, the kind and a number: the
\* trade id, the sequence, the sleeve of a candle.
EventIds(kind) == IF kind = "candle" THEN Sleeves
                  ELSE IF kind = "trade" THEN Ids
                  ELSE IF kind \in Points THEN PointIds ELSE {0}

Event == UNION {[kind : {k}, market : Markets, id : EventIds(k), time : Times,
                 received : Receipts] : k \in Kinds}

\* A fact is not received before it happens; a candle's time is its close.
Possible(e) ==
  /\ e.time <= e.received
  /\ e.kind = "candle" => e.time > 0 /\ e.time % e.id = 0

Identity(e) == <<e.kind, e.market, e.time, e.id>>

\* The digest of an identity is arbitrary, and no two have the same.
ASSUME DigestAssumption ==
  \A e, f \in Event : /\ Digest(Identity(e)) \in Nat
                      /\ Digest(Identity(e)) = Digest(Identity(f)) =>
                           Identity(e) = Identity(f)

\* The canonical order: exchange time, receipt time, then the digest.
Before(e, f) ==
  \/ e.time < f.time
  \/ e.time = f.time /\ e.received < f.received
  \/ /\ e.time = f.time /\ e.received = f.received
     /\ Digest(Identity(e)) < Digest(Identity(f))

\* The candidate bug: a fact counts from its exchange time on.
AvailableVariant(e, time) == e.time <= time

Available(e, time) == e.time <= time /\ e.received <= time

\* The latest of a set in an order, as a set that has at most one member.
Latest(S, Precedes(_, _)) == {x \in S : \A y \in S \ {x} : Precedes(y, x)}

Max2(x, y) == IF x > y THEN x ELSE y
Min2(x, y) == IF x < y THEN x ELSE y

----------------------------------------------------------------------------
(* The bounded histories                                                   *)

History(market, kind) ==
  {e \in seen_events : e.market = market /\ Source(e.kind) = Source(kind)}

\* Facts of the market that make room for one more.
Oldest(facts) == {e \in facts : \A f \in facts \ {e} : Before(e, f)}

Accepts(e) ==
  LET history == History(e.market, e.kind)
  IN  \/ Cardinality(history) < EventLimit[e.kind]
      \/ \E first \in Oldest(history) : Before(first, e)

\* The candidate bug: a full history gives up its newest fact.
PrunedVariant(e) ==
  LET history == History(e.market, e.kind) \cup {e}
  IN  IF Cardinality(history) > EventLimit[e.kind] THEN Latest(history, Before) ELSE {}

\* What the history gives up for the fact.
Pruned(e) ==
  LET history == History(e.market, e.kind) \cup {e}
  IN  IF Cardinality(history) > EventLimit[e.kind] THEN Oldest(history) ELSE {}

\* The candidate bug: the horizon is not enforced.
NewestVariant(facts) == facts

\* The newest facts, as many as the horizon keeps, of all markets and kinds.
Newest(facts) ==
  {e \in facts : Cardinality({f \in facts : Before(e, f)}) < EventHorizon}

\* The candidate bug: the receipt of the last fact pruned is kept.
AvailableFromVariant(pruned) ==
  [key \in DOMAIN available_from |->
     IF \E e \in pruned : key = <<e.market, e.kind>>
     THEN (CHOOSE e \in pruned : TRUE).received
     ELSE available_from[key]]

\* From when on a point history may lack the fact a decision would have read.
AvailableFrom(pruned) ==
  [key \in DOMAIN available_from |->
     LET receipts == {e.received : e \in {e \in pruned : key = <<e.market, e.kind>>}}
     IN  IF receipts = {} THEN available_from[key]
         ELSE LET receipt == CHOOSE r \in receipts : TRUE
              IN  IF available_from[key] = None THEN receipt
                  ELSE Min2(available_from[key], receipt)]

----------------------------------------------------------------------------
(* Trade aggregates                                                        *)

BucketClose(time, length) == time + (length - (time % length))

\* The candidate bug: a trade counts as available when it happened.
AggregateKeyVariant(e, sleeve) ==
  <<BucketClose(e.time, Micro), BucketClose(e.time, sleeve)>>

AggregateKey(e, sleeve) == <<BucketClose(e.time, Micro), BucketClose(e.received, sleeve)>>

KeyBefore(j, k) == j[1] < k[1] \/ (j[1] = k[1] /\ j[2] < k[2])

\* A bucket that is new to a full window must be newer than its first.
HasRoom(e, sleeve) ==
  LET window == aggregates[<<e.market, sleeve>>]
      key    == AggregateKey(e, sleeve)
  IN  \/ key \in DOMAIN window
      \/ Cardinality(DOMAIN window) < AggregateLimit
      \/ \E j \in DOMAIN window : KeyBefore(j, key)

Counted(window, key) ==
  [k \in DOMAIN window \cup {key} |->
     (IF k \in DOMAIN window THEN window[k] ELSE 0) + (IF k = key THEN 1 ELSE 0)]

\* The bucket a window that is too long gives up.
Excess(window) ==
  IF Cardinality(DOMAIN window) <= AggregateLimit THEN {}
  ELSE {k \in DOMAIN window : \A j \in DOMAIN window \ {k} : KeyBefore(k, j)}

CommitTrade(e) ==
  LET longer(sleeve) == Counted(aggregates[<<e.market, sleeve>>], AggregateKey(e, sleeve))
      kept(sleeve)   == LET w == longer(sleeve)
                        IN  [k \in DOMAIN w \ Excess(w) |-> w[k]]
  IN  /\ aggregates' = [key \in DOMAIN aggregates |->
                          IF key[1] = e.market THEN kept(key[2]) ELSE aggregates[key]]
      /\ aggregates_through' =
           [key \in DOMAIN aggregates_through |->
              IF key[1] = e.market /\ Excess(longer(key[2])) # {}
              THEN Max2(aggregates_through[key],
                        (CHOOSE k \in Excess(longer(key[2])) : TRUE)[1])
              ELSE aggregates_through[key]]

----------------------------------------------------------------------------
(* Boundary samples                                                        *)

\* The candidate bug: a boundary takes any fact that was there in time.
RefreshedVariant(e) ==
  [key \in DOMAIN samples |->
     IF key[1] = e.kind /\ key[2] = e.market
     THEN [b \in DOMAIN samples[key] |->
             IF Available(e, b) THEN e ELSE samples[key][b]]
     ELSE samples[key]]

\* A boundary that is sampled takes a later fact that was there in time.
Refreshed(e) ==
  [key \in DOMAIN samples |->
     IF key[1] = e.kind /\ key[2] = e.market
     THEN [b \in DOMAIN samples[key] |->
             IF Before(samples[key][b], e) /\ Available(e, b) THEN e ELSE samples[key][b]]
     ELSE samples[key]]

\* A sample of one boundary more, at most as many as the sleeve keeps.
Sampling(sample, sleeve, boundary, e) ==
  LET longer == [b \in DOMAIN sample \cup {boundary} |->
                   IF b = boundary THEN e ELSE sample[b]]
      first  == IF Cardinality(DOMAIN longer) > SampleLimit[sleeve]
                THEN {b \in DOMAIN longer : \A c \in DOMAIN longer : b <= c}
                ELSE {}
  IN  IF boundary \in DOMAIN sample /\ ~Before(sample[boundary], e) THEN sample
      ELSE [b \in DOMAIN longer \ first |-> longer[b]]

\* A candle's close samples the latest context and funding that were there.
Resampled(c) ==
  [key \in DOMAIN samples |->
     LET latest == Latest({e \in History(c.market, key[1]) : Available(e, c.close)}, Before)
     IN  IF key[2] = c.market /\ key[3] = c.sleeve /\ latest # {}
         THEN Sampling(samples[key], c.sleeve, c.close, CHOOSE e \in latest : TRUE)
         ELSE samples[key]]

----------------------------------------------------------------------------
(* observe                                                                 *)

Idle == handling.step = "idle" /\ fault = Fine

NothingHandled == [step |-> "idle"]

Handle(e, step, completed) ==
  handling' = [step |-> step, event |-> e, completed |-> completed]

\* The candle of an official completed-candle fact, available at its receipt.
Official(e) == [market |-> e.market, sleeve |-> e.id, close |-> e.time,
                available |-> e.received, source |-> "official"]

\* What the handler does after observe has returned.
Continue(e) ==
  CASE e.kind = "trade"  -> Handle(e, "ingest", {})
    [] e.kind = "candle" -> Handle(e, "candles", {Official(e)})
    [] OTHER             -> handling' = NothingHandled

Known(e) == \E k \in seen_events \cup finalized_events : Identity(k) = Identity(e)

\* Markets that hold any state.
Held == {e.market : e \in accepted}

\* The source store is fenced: a fact with a stored identity is that fact.
\* Receipts come in any order, as a start replays the store by event time.
Offered(e) ==
  /\ Possible(e)
  /\ \A f \in accepted : Identity(f) = Identity(e) => f = e
  /\ e \notin accepted => Cardinality(accepted) < MaxEvents

\* Every check comes before the first change.
Admissible(e) ==
  /\ e.market \in Held \/ Cardinality(Held) < MaxMarkets
  /\ Accepts(e)
  /\ e.kind = "trade" => \A sleeve \in Sleeves : HasRoom(e, sleeve)

Observe(e) ==
  /\ Idle /\ Offered(e) /\ ~Known(e) /\ Admissible(e)
  /\ LET pruned == Pruned(e)
     IN  /\ seen_events' = (seen_events \cup {e}) \ pruned
         /\ available_from' = AvailableFrom(pruned)
         /\ finalized_events' = Newest(finalized_events \cup pruned)
  /\ IF e.kind = "trade" THEN CommitTrade(e) ELSE UNCHANGED windows
  /\ samples' = IF e.kind \in Sampled THEN Refreshed(e) ELSE samples
  /\ accepted' = accepted \cup {e}
  /\ Continue(e)
  /\ UNCHANGED <<shelves, aggregator, fault>>

\* An exact replay that is still remembered.
ObserveAgain(e) ==
  /\ Idle /\ Offered(e) /\ Known(e)
  /\ Continue(e)
  /\ UNCHANGED <<histories, windows, shelves, samples, aggregator, fault, accepted>>

\* A fact behind what is retained, whether it is new or a replay.
Refuse(e) ==
  /\ Idle /\ Offered(e) /\ ~Known(e) /\ ~Admissible(e)
  /\ fault' = "event"
  /\ UNCHANGED <<histories, windows, shelves, samples, aggregator, handling, accepted>>

----------------------------------------------------------------------------
(* The candle aggregator                                                   *)

Trade(e) == [id |-> e.id, market |-> e.market, time |-> e.time,
             received |-> e.received, price |-> 1]

Handling(step) == handling.step = step /\ fault = Fine

\* The handler goes on with the candles, or is done.
WithCandles(completed) ==
  IF completed = {} THEN handling' = NothingHandled
  ELSE Handle(handling.event, "candles", completed)

Ingest ==
  /\ Handling("ingest")
  /\ Aggregator!Ingest(Trade(handling.event))
  /\ Handle(handling.event, "complete", {})
  /\ UNCHANGED <<histories, windows, shelves, samples, fault, accepted>>

IngestAgain ==
  /\ Handling("ingest")
  /\ Aggregator!Known(Trade(handling.event))
  /\ Handle(handling.event, "complete", {})
  /\ UNCHANGED <<histories, windows, shelves, samples, aggregator, fault, accepted>>

\* A late trade is kept as a source and revises no candle.
IngestLate ==
  /\ Handling("ingest")
  /\ LET p == Trade(handling.event)
     IN  /\ ~Aggregator!Known(p)
         /\ Cardinality({q \in trade_ids : q.market = p.market}) < MaxPending
         /\ Aggregator!Late(p)
  /\ Cardinality(closed_ids) < TradeHorizon
  /\ handling' = NothingHandled
  /\ UNCHANGED <<histories, windows, shelves, samples, aggregator, fault, accepted>>

\* With its horizon full the aggregator cannot tell a late trade from a replay.
IngestRefused ==
  /\ Handling("ingest")
  /\ LET p == Trade(handling.event)
     IN  /\ ~Aggregator!Known(p)
         /\ \/ Aggregator!Late(p) /\ Cardinality(closed_ids) = TradeHorizon
            \/ Cardinality({q \in trade_ids : q.market = p.market}) = MaxPending
  /\ fault' = "aggregator"
  /\ UNCHANGED <<histories, windows, shelves, samples, aggregator, handling, accepted>>

\* A candle the aggregator returned, available with the last of its trades.
Derived(d) == [market |-> d.key.market, sleeve |-> d.key.bar.sleeve,
               close |-> Close(d.key.bar), available |-> d.total.available,
               source |-> "derived"]

\* By market, then sleeve, then bar.
CandleOrder(c, d) ==
  \/ c.market < d.market
  \/ c.market = d.market /\ c.sleeve < d.sleeve
  \/ c.market = d.market /\ c.sleeve = d.sleeve /\ c.close < d.close

\* The one that is ingested next, as a set that has at most one member.
NextCandle == {c \in handling.completed :
                 \A d \in handling.completed \ {c} : CandleOrder(c, d)}

Complete ==
  /\ Handling("complete")
  /\ Aggregator!CompleteThrough(handling.event.time)
  /\ WithCandles({Derived(d) : d \in emitted' \ emitted})
  /\ UNCHANGED <<histories, windows, shelves, samples, fault, accepted>>

\* A watermark that would go back is ignored, for every market.
CompleteBackward ==
  /\ Handling("complete")
  /\ \E market \in Markets : handling.event.time < watermark[market]
  /\ WithCandles({})
  /\ UNCHANGED <<histories, windows, shelves, samples, aggregator, fault, accepted>>

----------------------------------------------------------------------------
(* ingest_candle                                                           *)

SameBar(c, d) == c.market = d.market /\ c.sleeve = d.sleeve /\ c.close = d.close

Closed(c, d) == c.close < d.close

\* The newest candles pruned, as many as the horizon keeps.
NewestCandles(shelf) ==
  {c \in shelf : Cardinality({d \in shelf :
     \/ d.close - d.sleeve > c.close - c.sleeve
     \/ d.close - d.sleeve = c.close - c.sleeve /\ d.market > c.market
     \/ d.close - d.sleeve = c.close - c.sleeve /\ d.market = c.market
          /\ d.sleeve > c.sleeve}) < CandleHorizon}

Stored(c) == {d \in finalized_candles \cup candles[<<c.market, c.sleeve>>] : SameBar(c, d)}

\* A bar not newer than the first of a full history.
Outside(c) ==
  LET shelf == candles[<<c.market, c.sleeve>>]
  IN  /\ Cardinality(shelf) = CandleLimit[c.sleeve]
      /\ \A d \in shelf : c.close <= d.close

\* The candle a history that is too long gives up.
Surplus(shelf, sleeve) ==
  IF Cardinality(shelf) > CandleLimit[sleeve]
  THEN {d \in shelf : \A x \in shelf \ {d} : Closed(d, x)} ELSE {}

IngestCandle ==
  /\ Handling("candles")
  /\ \E c \in NextCandle :
       LET key   == <<c.market, c.sleeve>>
           shelf == candles[key] \cup {c}
           first == Surplus(shelf, c.sleeve)
       IN  /\ Stored(c) = {} /\ ~Outside(c)
           /\ candles' = [candles EXCEPT ![key] = shelf \ first]
           /\ candles_through' =
                [candles_through EXCEPT ![key] =
                   IF first = {} THEN @ ELSE Max2(@, (CHOOSE d \in first : TRUE).close)]
           /\ finalized_candles' = NewestCandles(finalized_candles \cup first)
           /\ samples' = Resampled(c)
           /\ WithCandles(handling.completed \ {c})
  /\ UNCHANGED <<histories, windows, aggregator, fault, accepted>>

IngestCandleAgain ==
  /\ Handling("candles")
  /\ \E c \in NextCandle :
       c \in Stored(c) /\ WithCandles(handling.completed \ {c})
  /\ UNCHANGED <<histories, windows, shelves, samples, aggregator, fault, accepted>>

\* A stored bar is never revised: another candle of it, be it the exchange's
\* for one derived from trades, faults the features.
RefuseCandle ==
  /\ Handling("candles")
  /\ \E c \in NextCandle :
       \/ \E d \in Stored(c) : d # c
       \/ Stored(c) = {} /\ Outside(c)
  /\ fault' = "candle"
  /\ UNCHANGED <<histories, windows, shelves, samples, aggregator, handling, accepted>>

----------------------------------------------------------------------------
(* What a decision reads                                                   *)

\* The trades of the window that ends at the decision, or None.
TradeWindow(market, sleeve, decision, length) ==
  LET key    == <<market, sleeve>>
      start  == decision - length
      inside == {k \in DOMAIN aggregates[key] :
                   k[1] > start /\ k[1] <= decision /\ k[2] <= decision}
  IN  IF start < 0 \/ aggregates_through[key] > start \/ inside = {} THEN None
      ELSE MapThenSumSet(LAMBDA k : aggregates[key][k], inside)

\* The latest quote or book that was there, as a set of at most one.
LatestPoint(market, kind, decision) ==
  Latest({e \in History(market, kind) : Available(e, decision)}, Before)

\* The sample of a boundary, as a set of at most one.
SampleAt(kind, market, sleeve, boundary) ==
  LET sample == samples[<<kind, market, sleeve>>]
  IN  {sample[b] : b \in {b \in DOMAIN sample : b = boundary /\ Available(sample[b], b)}}

\* The last candles up to the decision, or {} unless they are as many as the
\* indicators look back on, one after the other, the last one of the decision.
CandleTail(market, sleeve, decision) ==
  LET history == {c \in candles[<<market, sleeve>>] :
                    c.close <= decision /\ c.available <= decision}
      tail    == {c \in history : Cardinality({d \in history : Closed(c, d)}) < Lookback}
  IN  IF \A n \in 0 .. Lookback - 1 : \E c \in tail : c.close = decision - n * sleeve
      THEN tail ELSE {}

----------------------------------------------------------------------------
Init ==
  /\ seen_events = {} /\ finalized_events = {}
  /\ available_from = [key \in Markets \X Points |-> None]
  /\ aggregates = [key \in Markets \X Sleeves |-> [k \in {} |-> 0]]
  /\ aggregates_through = [key \in Markets \X Sleeves |-> None]
  /\ candles = [key \in Markets \X Sleeves |-> {}]
  /\ candles_through = [key \in Markets \X Sleeves |-> None]
  /\ finalized_candles = {}
  /\ samples = [key \in Sampled \X Markets \X Sleeves |-> [b \in {} |-> 0]]
  /\ Aggregator!Init
  /\ handling = NothingHandled
  /\ fault = Fine
  /\ accepted = {}

Next == \/ \E e \in Event : Observe(e) \/ ObserveAgain(e) \/ Refuse(e)
        \/ Ingest \/ IngestAgain \/ IngestLate \/ IngestRefused
        \/ Complete \/ CompleteBackward
        \/ IngestCandle \/ IngestCandleAgain \/ RefuseCandle

Spec == Init /\ [][Next]_vars
=============================================================================
