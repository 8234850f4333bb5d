-------------------------- MODULE CandlesProperties --------------------------
(***************************************************************************)
(* What the candle aggregator promises the strategy that reads its candles *)
(* and the recovery that compares them with the exchange's.                *)
(***************************************************************************)
EXTENDS Candles, TLC

\* The markets are treated alike.
Symmetry == Permutations(Markets)

\* Type invariant.
CandlesTypeOK ==
  /\ seen \subseteq Point
  /\ finalized \subseteq Point
  /\ DOMAIN pending \subseteq Key
  /\ \A key \in DOMAIN pending : pending[key] \in Aggregate
  /\ gaps \in [Markets -> SUBSET Gap]
  /\ watermark \in [Markets -> Times \cup {None}]
  /\ taken \subseteq Point
  /\ emitted \subseteq [key : Key, total : Aggregate]

TradesOf(key) == {p \in taken : key \in Keys(p)}

\* An aggregate describes a set of trades, whatever order they came in.
Summarises(a, points) ==
  /\ a.first \in points /\ \A q \in points : ~Before(q, a.first)
  /\ a.last \in points /\ \A q \in points : ~Before(a.last, q)
  /\ \E q \in points : a.high = q.price
  /\ \A q \in points : q.price <= a.high
  /\ \E q \in points : a.low = q.price
  /\ \A q \in points : q.price >= a.low
  /\ \E q \in points : a.available = q.received
  /\ \A q \in points : q.received <= a.available
  /\ a.count = Cardinality(points)

\* Every candle ever returned still describes all the trades that were ever
\* accepted in its bar: a replay, a late arrival, an evicted identity or an
\* arrival order can neither revise a returned candle nor make one that
\* misses or repeats a trade (ingest and complete_markets_through).
CandlesAreTheirTrades ==
  \A candle \in emitted : Summarises(candle.total, TradesOf(candle.key))

\* No candle was returned for a bar that an unavailable span touches, whether
\* the span was marked before the candle or after it (mark_gap_unavailable
\* and the filter of complete_markets_through).
NoCandleOverAGap ==
  \A candle \in emitted : ~Suppressed(candle.key)

\* A bar is returned at most once, and once it is returned no trade of it is
\* accepted any more.
ReturnedOnceAndForAll ==
  [][/\ \A candle \in emitted' \ emitted, old \in emitted : candle.key # old.key
     /\ \A p \in taken' \ taken, old \in emitted : old.key \notin Keys(p)]_vars

\* A trade waits in the identity map exactly as long as its hour is open, so a
\* replay of it is recognised until then (seen and hourly_trade_ids).
SeenUntilTheHourCloses ==
  seen = {p \in taken : ~Closed(KeyOf(p, Hour))}
============================================================================
