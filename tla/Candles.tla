------------------------------ MODULE Candles ------------------------------
(***************************************************************************)
(* The candle aggregator: public trades, in any order, become one          *)
(* immutable candle per market, sleeve and bar once the caller's watermark *)
(* passes the bar's close.  A bar that an unavailable span touches never   *)
(* yields a candle.                                                        *)
(*                                                                         *)
(* A call that is refused changes nothing and is not a step: a known       *)
(* identity (equal or conflicting), a trade inside an unavailable span,    *)
(* one of a closed bar, one past a capacity, a backward watermark, a span  *)
(* that begins before the watermark.                                       *)
(*                                                                         *)
(* Prices stand for everything a candle sums or compares: the high and the *)
(* low are kept as they are, and the volume and the notionals, which are   *)
(* sums over the same trades, by the number of trades summed.              *)
(*                                                                         *)
(* Translated from crates/trench-core/src/candle.rs.                       *)
(***************************************************************************)
EXTENDS Bars, FiniteSets

CONSTANTS Markets,
          Ids,                \* trade identities
          Times,              \* exchange times
          Receipts,           \* local receipt times
          Prices,
          FinalizedHorizon,   \* FINALIZED_TRADE_ID_HORIZON
          MaxPending,         \* MAX_PENDING_TRADES_PER_MARKET
          MaxGaps             \* MAX_UNAVAILABLE_GAP_SPANS

ASSUME CandlesAssumption == /\ Ids \subseteq Nat
                            /\ Times \subseteq Nat
                            /\ Receipts \subseteq Nat
                            /\ Prices \subseteq Nat
                            /\ FinalizedHorizon \in Nat
                            /\ MaxPending \in Nat
                            /\ MaxGaps \in Nat

VARIABLES seen,        \* trades whose hour is not closed
          finalized,   \* the newest trades of closed hours
          pending,     \* the running aggregate of every open bar that has a trade
          gaps,        \* unavailable spans of each market
          watermark,   \* how far each market is closed, or None
          taken,       \* history: every trade ever accepted
          emitted      \* history: every candle ever returned

vars == <<seen, finalized, pending, gaps, watermark, taken, emitted>>

Point == [id : Ids, market : Markets, time : Times, received : Receipts,
          price : Prices]

\* The canonical order of trades.
Before(p, q) ==
  \/ p.time < q.time
  \/ p.time = q.time /\ p.received < q.received
  \/ p.time = q.time /\ p.received = q.received /\ p.id < q.id

Key == [market : Markets, bar : Bar]
KeyOf(p, sleeve) == [market |-> p.market, bar |-> BarAt(p.time, sleeve)]
Keys(p) == {KeyOf(p, sleeve) : sleeve \in Sleeves}

----------------------------------------------------------------------------
(* The running aggregate of a bar                                          *)

Aggregate == [first : Point, last : Point, high : Prices, low : Prices,
              available : Receipts, count : Nat]

FromTrade(p) ==
  [first |-> p, last |-> p, high |-> p.price, low |-> p.price,
   available |-> p.received, count |-> 1]

\* The candidate bug: the last price is the one that arrived last.
WithTradeVariant(a, p) ==
  [first |-> IF Before(p, a.first) THEN p ELSE a.first,
   last  |-> p,
   high  |-> IF p.price > a.high THEN p.price ELSE a.high,
   low   |-> IF p.price < a.low THEN p.price ELSE a.low,
   available |-> IF p.received > a.available THEN p.received ELSE a.available,
   count |-> a.count + 1]

WithTrade(a, p) ==
  [first |-> IF Before(p, a.first) THEN p ELSE a.first,
   last  |-> IF Before(a.last, p) THEN p ELSE a.last,
   high  |-> IF p.price > a.high THEN p.price ELSE a.high,
   low   |-> IF p.price < a.low THEN p.price ELSE a.low,
   available |-> IF p.received > a.available THEN p.received ELSE a.available,
   count |-> a.count + 1]

----------------------------------------------------------------------------
(* Ingesting a trade                                                       *)

Known(p) == \E q \in seen \cup finalized : q.id = p.id

Closed(key) == watermark[key.market] # None /\ Close(key.bar) <= watermark[key.market]

\* The candidate bug: only the hour's close is compared with the watermark.
LateVariant(p) == Closed(KeyOf(p, Hour))
Late(p) == \E key \in Keys(p) : Closed(key)

Ingest(p) ==
  /\ ~Known(p)
  /\ \A gap \in gaps[p.market] : ~Within(gap, p.time)
  /\ Cardinality({q \in seen : q.market = p.market}) < MaxPending
  /\ ~Late(p)
  /\ seen' = seen \cup {p}
  /\ pending' = [key \in DOMAIN pending \cup Keys(p) |->
                   IF key \notin Keys(p) THEN pending[key]
                   ELSE IF key \in DOMAIN pending THEN WithTrade(pending[key], p)
                   ELSE FromTrade(p)]
  /\ taken' = taken \cup {p}
  /\ UNCHANGED <<finalized, gaps, watermark, emitted>>

----------------------------------------------------------------------------
(* Marking a span unavailable                                              *)

\* The candidate bug: only a span that ends behind the watermark is refused.
RevisesVariant(market, gap) ==
  watermark[market] # None /\ gap.end <= watermark[market]

\* A span may not reach behind what is already final.
Revises(market, gap) ==
  /\ watermark[market] # None
  /\ gap.start = None \/ gap.start < watermark[market]

MarkGapUnavailable(market, gap) ==
  /\ gap.start # None => gap.start < gap.end
  /\ ~Revises(market, gap)
  /\ gap \notin gaps[market]
  /\ Cardinality(UNION {{<<m, g>> : g \in gaps[m]} : m \in Markets}) < MaxGaps
  /\ gaps' = [gaps EXCEPT ![market] = @ \cup {gap}]
  /\ UNCHANGED <<seen, finalized, pending, watermark, taken, emitted>>

----------------------------------------------------------------------------
(* Closing bars                                                            *)

Suppressed(key) == \E gap \in gaps[key.market] : Overlaps(gap, key.bar)

\* The newest of a set of trades, as many as the horizon keeps.
Newest(points) ==
  {p \in points : Cardinality({q \in points : Before(p, q)}) < FinalizedHorizon}

\* The identities that are forgotten once their hour is closed.
Done(closing) == {p \in seen : KeyOf(p, Hour) \in closing}

CompleteMarketsThrough(markets, time) ==
  LET closing == {key \in DOMAIN pending :
                    key.market \in markets /\ Close(key.bar) <= time}
      done    == Done(closing)
  IN  /\ \A market \in markets : time >= watermark[market]
      /\ pending' = [key \in DOMAIN pending \ closing |-> pending[key]]
      /\ seen' = seen \ done
      /\ finalized' = Newest(finalized \cup done)
      /\ watermark' = [market \in Markets |->
                         IF market \in markets THEN time ELSE watermark[market]]
      /\ emitted' = emitted \cup
           {[key |-> key, total |-> pending[key]] :
              key \in {k \in closing : ~Suppressed(k)}}
      /\ UNCHANGED <<gaps, taken>>

\* One watermark for every market that has a trade or a watermark: how the
\* daemon follows the live feed.
CompleteThrough(time) ==
  CompleteMarketsThrough({key.market : key \in DOMAIN pending}
                           \cup {m \in Markets : watermark[m] # None}, time)

\* One market alone: how a recovered gap is reconciled.
CompleteMarketThrough(market, time) == CompleteMarketsThrough({market}, time)

----------------------------------------------------------------------------
Init == /\ seen = {}
        /\ finalized = {}
        /\ pending = [key \in {} |-> {}]
        /\ gaps = [m \in Markets |-> {}]
        /\ watermark = [m \in Markets |-> None]
        /\ taken = {}
        /\ emitted = {}

Next == \/ \E p \in Point : Ingest(p)
        \/ \E m \in Markets, start \in Times \cup {None}, end \in Times :
             MarkGapUnavailable(m, [start |-> start, end |-> end])
        \/ \E time \in Times : CompleteThrough(time)
        \/ \E m \in Markets, time \in Times : CompleteMarketThrough(m, time)

Spec == Init /\ [][Next]_vars
============================================================================
