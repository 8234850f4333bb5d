-------------------------- MODULE MarketDataProofs --------------------------
(***************************************************************************)
(* Proofs about the two components that turn what the venue publishes into *)
(* data of the daemon, which share no state: the candle aggregator, and    *)
(* after it the schedule of context captures.                              *)
(*                                                                         *)
(* The aggregator, for every set of trades, every bar length and every     *)
(* capacity: the heart of it is that a bar is either pending, and then its *)
(* aggregate describes every trade ever accepted in it, or closed, and     *)
(* then nothing is accepted in it any more.                                *)
(*                                                                         *)
(* The schedule of captures: its properties are one inductive invariant,   *)
(* with one fact more about the worker: what it holds captured has the     *)
(* details of the whole batch, once stopped it leaves no request behind,   *)
(* and results are only closed once it has stopped.                        *)
(***************************************************************************)
EXTENDS CandlesProperties, CaptureProperties, FiniteSetTheorems, TLAPS

\* A trade is remembered until its hour closes.
Remembered == /\ seen \subseteq taken
              /\ \A p \in taken : p \in seen \/ Closed(KeyOf(p, Hour))
              /\ \A p \in seen : KeyOf(p, Hour) \in DOMAIN pending

\* A bar that has a trade is open and pending, or closed.
Tracked == /\ \A p \in taken : \A key \in Keys(p) :
                key \in DOMAIN pending \/ Closed(key)
           /\ \A key \in DOMAIN pending : ~Closed(key)
           /\ \A candle \in emitted : Closed(candle.key)

Exact == /\ IsFiniteSet(taken)
         /\ \A key \in DOMAIN pending : Summarises(pending[key], TradesOf(key))
         /\ CandlesAreTheirTrades

IInv == CandlesTypeOK /\ Remembered /\ Tracked /\ Exact /\ NoCandleOverAGap

----------------------------------------------------------------------------
(* The keys of a trade                                                     *)

LEMMA KeyFacts ==
  ASSUME NEW p \in Point, NEW sleeve \in Sleeves
  PROVE  /\ KeyOf(p, sleeve) \in Key
         /\ KeyOf(p, sleeve).market = p.market
         /\ KeyOf(p, sleeve).bar.sleeve = sleeve
         /\ KeyOf(p, sleeve) \in Keys(p)
<1>1. p.time \in Nat /\ p.market \in Markets
  BY CandlesAssumption DEF Point
<1>2. sleeve \in Nat \ {0}
  BY BarsAssumption DEF Sleeves
<1>3. (p.time \div sleeve) * sleeve \in Nat
  <2>1. p.time \div sleeve \in Nat
    BY <1>1, <1>2
  <2> QED BY <2>1, <1>2
<1> QED
  BY <1>1, <1>3 DEF KeyOf, Keys, Key, Bar, BarAt

LEMMA KeysAreKeys ==
  ASSUME NEW p \in Point
  PROVE  /\ Keys(p) \subseteq Key
         /\ \A key \in Keys(p) : key.market = p.market
         /\ KeyOf(p, Hour) \in Keys(p)
  BY KeyFacts DEF Keys, Sleeves

LEMMA CloseIsNat == ASSUME NEW key \in Key PROVE Close(key.bar) \in Nat
  BY BarsAssumption DEF Key, Bar, Close, Sleeves

----------------------------------------------------------------------------
(* Adding one trade to an aggregate                                        *)

LEMMA BeforeIsAnOrder ==
  ASSUME NEW p \in Point, NEW q \in Point, NEW r \in Point
  PROVE  /\ ~Before(p, p)
         /\ Before(p, q) /\ Before(q, r) => Before(p, r)
<1>1. \A x \in {p, q, r} :
         x.time \in Nat /\ x.received \in Nat /\ x.id \in Nat
  <2>1. p.time \in Nat /\ p.received \in Nat /\ p.id \in Nat
    BY CandlesAssumption DEF Point
  <2>2. q.time \in Nat /\ q.received \in Nat /\ q.id \in Nat
    BY CandlesAssumption DEF Point
  <2>3. r.time \in Nat /\ r.received \in Nat /\ r.id \in Nat
    BY CandlesAssumption DEF Point
  <2> QED BY <2>1, <2>2, <2>3
<1> QED BY <1>1 DEF Before

LEMMA AggregateFacts ==
  ASSUME NEW p \in Point
  PROVE  /\ FromTrade(p) \in Aggregate
         /\ \A a \in Aggregate : WithTrade(a, p) \in Aggregate
         /\ Summarises(FromTrade(p), {p})
<1>1. /\ p.price \in Prices /\ p.price \in Nat
      /\ p.received \in Receipts
  BY CandlesAssumption DEF Point
<1>2. FromTrade(p) \in Aggregate
  BY <1>1 DEF FromTrade, Aggregate
<1>3. \A a \in Aggregate : WithTrade(a, p) \in Aggregate
  BY <1>1 DEF WithTrade, Aggregate
<1>4. ~Before(p, p)
  BY BeforeIsAnOrder
<1>5. Cardinality({p}) = 1
  BY FS_Singleton
<1>6. p.received \in Nat
  BY CandlesAssumption DEF Point
<1> QED
  BY <1>1, <1>2, <1>3, <1>4, <1>5, <1>6 DEF Summarises, FromTrade

LEMMA OneMoreTrade ==
  ASSUME NEW points \in SUBSET Point, IsFiniteSet(points),
         NEW p \in Point, p \notin points,
         NEW a \in Aggregate, Summarises(a, points)
  PROVE  Summarises(WithTrade(a, p), points \cup {p})
<1> DEFINE b == WithTrade(a, p)
<1>0. /\ a.first \in Point /\ a.last \in Point
      /\ a.high \in Nat /\ a.low \in Nat /\ p.price \in Nat
      /\ a.available \in Nat /\ p.received \in Nat
      /\ \A q \in points : q.price \in Nat /\ q.received \in Nat
  BY CandlesAssumption DEF Aggregate, Point
<1>1. b.first \in points \cup {p} /\ \A q \in points \cup {p} : ~Before(q, b.first)
  <2>1. CASE Before(p, a.first)
    <3>1. b.first = p
      BY <2>1 DEF WithTrade
    <3>2. ASSUME NEW q \in points PROVE ~Before(q, p)
      BY <2>1, <1>0, BeforeIsAnOrder DEF Summarises
    <3> QED BY <3>1, <3>2, BeforeIsAnOrder
  <2>2. CASE ~Before(p, a.first)
    <3>1. b.first = a.first
      BY <2>2 DEF WithTrade
    <3> QED BY <3>1, <2>2 DEF Summarises
  <2> QED BY <2>1, <2>2
<1>2. b.last \in points \cup {p} /\ \A q \in points \cup {p} : ~Before(b.last, q)
  <2>1. CASE Before(a.last, p)
    <3>1. b.last = p
      BY <2>1 DEF WithTrade
    <3>2. ASSUME NEW q \in points PROVE ~Before(p, q)
      BY <2>1, <1>0, BeforeIsAnOrder DEF Summarises
    <3> QED BY <3>1, <3>2, BeforeIsAnOrder
  <2>2. CASE ~Before(a.last, p)
    <3>1. b.last = a.last
      BY <2>2 DEF WithTrade
    <3> QED BY <3>1, <2>2 DEF Summarises
  <2> QED BY <2>1, <2>2
<1>3. /\ \E q \in points \cup {p} : b.high = q.price
      /\ \A q \in points \cup {p} : q.price <= b.high
  BY <1>0 DEF Summarises, WithTrade
<1>4. /\ \E q \in points \cup {p} : b.low = q.price
      /\ \A q \in points \cup {p} : q.price >= b.low
  BY <1>0 DEF Summarises, WithTrade
<1>5. b.count = Cardinality(points \cup {p})
  <2>1. Cardinality(points \cup {p}) = Cardinality(points) + 1
    BY FS_AddElement
  <2> QED BY <2>1 DEF Summarises, WithTrade
<1>6. /\ \E q \in points \cup {p} : b.available = q.received
      /\ \A q \in points \cup {p} : q.received <= b.available
  BY <1>0 DEF Summarises, WithTrade
<1> HIDE DEF b
<1>7. Summarises(b, points \cup {p})
  BY <1>1, <1>2, <1>3, <1>4, <1>5, <1>6 DEF Summarises
<1> QED BY <1>7 DEF b

----------------------------------------------------------------------------
(* The initial state                                                       *)

LEMMA InitEstablishes == Init => IInv
<1> SUFFICES ASSUME Init PROVE IInv
  OBVIOUS
<1>1. DOMAIN pending = {}
  BY DEF Init
<1>2. CandlesTypeOK
  BY <1>1 DEF Init, CandlesTypeOK, None
<1>3. Remembered /\ Tracked
  BY <1>1 DEF Init, Remembered, Tracked
<1>4. Exact
  BY <1>1, FS_EmptySet DEF Init, Exact, CandlesAreTheirTrades
<1>5. NoCandleOverAGap
  BY DEF Init, NoCandleOverAGap
<1> QED BY <1>2, <1>3, <1>4, <1>5 DEF IInv

----------------------------------------------------------------------------
(* Ingesting a trade                                                       *)

LEMMA IngestPreserves ==
  ASSUME IInv, NEW p \in Point, Ingest(p)
  PROVE  IInv'
<1> USE DEF Ingest
<1>a. /\ Keys(p) \subseteq Key
      /\ KeyOf(p, Hour) \in Keys(p)
      /\ \A q \in Point : Keys(q) \subseteq Key /\ KeyOf(q, Hour) \in Keys(q)
  BY KeysAreKeys
<1>b. \A key : Closed(key)' <=> Closed(key)
  BY DEF Closed
<1>c. \A key \in Keys(p) : ~Closed(key)
  BY DEF Late
<1>d. p \notin taken
  BY <1>a, <1>c DEF IInv, Remembered, Known
<1>e. \A key \in Keys(p) : key \notin DOMAIN pending => TradesOf(key) = {}
  BY <1>c DEF IInv, Tracked, TradesOf
<1>f. \A key : TradesOf(key)' = IF key \in Keys(p) THEN TradesOf(key) \cup {p}
                                ELSE TradesOf(key)
  BY DEF TradesOf
<1>g. \A key : TradesOf(key) \in SUBSET Point /\ IsFiniteSet(TradesOf(key))
                /\ p \notin TradesOf(key)
  <2> TAKE key
  <2>1. TradesOf(key) \subseteq taken
    BY DEF TradesOf
  <2>2. taken \subseteq Point /\ IsFiniteSet(taken)
    BY DEF IInv, CandlesTypeOK, Exact
  <2> QED BY <2>1, <2>2, <1>d, FS_Subset
<1>h. DOMAIN pending' = DOMAIN pending \cup Keys(p)
  OBVIOUS
<1>i. \A key \in DOMAIN pending' :
        pending'[key] = IF key \notin Keys(p) THEN pending[key]
                        ELSE IF key \in DOMAIN pending THEN WithTrade(pending[key], p)
                        ELSE FromTrade(p)
  OBVIOUS
<1>j. \A key \in DOMAIN pending : pending[key] \in Aggregate
  BY DEF IInv, CandlesTypeOK
<1>1. CandlesTypeOK'
  <2>1. \A key \in DOMAIN pending' : pending'[key] \in Aggregate
    BY <1>h, <1>i, <1>j, AggregateFacts
  <2>2. DOMAIN pending' \subseteq Key
    BY <1>a, <1>h DEF IInv, CandlesTypeOK
  <2> QED BY <2>1, <2>2 DEF IInv, CandlesTypeOK
<1>2. Remembered'
  BY <1>a, <1>b, <1>h DEF IInv, Remembered
<1>3. Tracked'
  BY <1>b, <1>c, <1>h DEF IInv, Tracked
<1>4. \A key \in DOMAIN pending' : Summarises(pending[key], TradesOf(key))'
  <2> TAKE key \in DOMAIN pending'
  <2>1. CASE key \notin Keys(p)
    <3>1. key \in DOMAIN pending /\ pending'[key] = pending[key]
      BY <2>1, <1>h, <1>i
    <3>2. TradesOf(key)' = TradesOf(key)
      BY <2>1, <1>f
    <3> QED BY <3>1, <3>2 DEF IInv, Exact, Summarises
  <2>2. CASE key \in Keys(p) /\ key \in DOMAIN pending
    <3>1. pending'[key] = WithTrade(pending[key], p)
      BY <2>2, <1>h, <1>i
    <3>2. TradesOf(key)' = TradesOf(key) \cup {p}
      BY <2>2, <1>f
    <3>3. Summarises(pending[key], TradesOf(key))
      BY <2>2 DEF IInv, Exact
    <3>4. Summarises(WithTrade(pending[key], p), TradesOf(key) \cup {p})
      BY <2>2, <3>3, <1>g, <1>j, OneMoreTrade
    <3> QED BY <3>1, <3>2, <3>4 DEF Summarises
  <2>3. CASE key \in Keys(p) /\ key \notin DOMAIN pending
    <3>1. pending'[key] = FromTrade(p)
      BY <2>3, <1>h, <1>i
    <3>2. TradesOf(key)' = {p}
      BY <2>3, <1>e, <1>f
    <3> QED BY <3>1, <3>2, AggregateFacts DEF Summarises
  <2> QED BY <2>1, <2>2, <2>3
<1>5. CandlesAreTheirTrades'
  <2> SUFFICES ASSUME NEW candle \in emitted
               PROVE  Summarises(candle.total, TradesOf(candle.key))'
    BY DEF CandlesAreTheirTrades
  <2>1. candle.key \notin Keys(p)
    BY <1>c DEF IInv, Tracked
  <2>2. TradesOf(candle.key)' = TradesOf(candle.key)
    BY <2>1, <1>f
  <2>3. Summarises(candle.total, TradesOf(candle.key))
    BY DEF IInv, Exact, CandlesAreTheirTrades
  <2> QED BY <2>2, <2>3 DEF Summarises
<1>6. IsFiniteSet(taken')
  BY FS_AddElement DEF IInv, Exact
<1>7. NoCandleOverAGap'
  BY DEF IInv, NoCandleOverAGap, Suppressed
<1> QED
  BY <1>1, <1>2, <1>3, <1>4, <1>5, <1>6, <1>7 DEF IInv, Exact

----------------------------------------------------------------------------
(* Marking a span                                                          *)

LEMMA MarkPreserves ==
  ASSUME IInv, NEW market \in Markets, NEW gap \in Gap,
         MarkGapUnavailable(market, gap)
  PROVE  IInv'
<1> USE DEF MarkGapUnavailable
<1>1. CandlesTypeOK'
  BY DEF IInv, CandlesTypeOK
<1>2. Remembered'
  BY DEF IInv, Remembered, Closed
<1>3. Tracked'
  BY DEF IInv, Tracked, Closed
<1>4. Exact'
  BY DEF IInv, Exact, CandlesAreTheirTrades, TradesOf, Summarises
<1>5. NoCandleOverAGap'
  <2> SUFFICES ASSUME NEW candle \in emitted,
                      NEW span \in gaps'[candle.key.market]
               PROVE  ~Overlaps(span, candle.key.bar)
    BY DEF NoCandleOverAGap, Suppressed
  <2>1. candle.key \in Key /\ Closed(candle.key)
    BY DEF IInv, CandlesTypeOK, Tracked
  <2>2. CASE span \in gaps[candle.key.market]
    BY <2>2 DEF IInv, NoCandleOverAGap, Suppressed
  <2>3. CASE span \notin gaps[candle.key.market]
    <3>1. candle.key.market = market /\ span = gap
      BY <2>1, <2>3 DEF Key, IInv, CandlesTypeOK
    <3>2. /\ watermark[market] # None /\ Close(candle.key.bar) <= watermark[market]
          /\ gap.start # None /\ ~(gap.start < watermark[market])
      BY <2>1, <3>1 DEF Closed, Revises
    <3>3. /\ watermark[market] \in Nat /\ gap.start \in Nat
          /\ Close(candle.key.bar) \in Nat
      BY <2>1, <3>2, CloseIsNat, CandlesAssumption
         DEF IInv, CandlesTypeOK, Gap, None
    <3>4. ~(Close(candle.key.bar) > gap.start)
      BY <3>2, <3>3
    <3> QED BY <3>1, <3>2, <3>4 DEF Overlaps
  <2> QED BY <2>2, <2>3
<1> QED BY <1>1, <1>2, <1>3, <1>4, <1>5 DEF IInv

----------------------------------------------------------------------------
(* Closing bars                                                            *)

LEMMA CompletePreserves ==
  ASSUME IInv, NEW closed \in SUBSET Markets, NEW time \in Times,
         CompleteMarketsThrough(closed, time)
  PROVE  IInv' /\ \A candle \in emitted' \ emitted :
                    candle.key \in DOMAIN pending
<1> DEFINE closing == {key \in DOMAIN pending :
                         key.market \in closed /\ Close(key.bar) <= time}
           returned == {[key |-> key, total |-> pending[key]] :
                          key \in {k \in closing : ~Suppressed(k)}}
<1>a. /\ pending' = [key \in DOMAIN pending \ closing |-> pending[key]]
      /\ seen' = seen \ Done(closing)
      /\ finalized' = Newest(finalized \cup Done(closing))
      /\ watermark' = [market \in Markets |->
                          IF market \in closed THEN time ELSE watermark[market]]
      /\ emitted' = emitted \cup returned
      /\ gaps' = gaps /\ taken' = taken
      /\ \A market \in closed : time >= watermark[market]
  BY DEF CompleteMarketsThrough
<1>b. time \in Nat /\ time # None
  BY CandlesAssumption DEF None
<1>c. closing \subseteq DOMAIN pending /\ DOMAIN pending \subseteq Key
  BY DEF IInv, CandlesTypeOK
<1>d. \A key : TradesOf(key)' = TradesOf(key)
  BY <1>a DEF TradesOf
<1>e. \A m \in Markets : watermark[m] \in Nat \cup {None}
  BY CandlesAssumption DEF IInv, CandlesTypeOK
\* A closed bar stays closed, and a bar this call closes is closed after it.
<1>f. \A key \in Key : Closed(key) => Closed(key)'
  <2> TAKE key \in Key
  <2>1. key.market \in Markets /\ Close(key.bar) \in Nat
    BY CloseIsNat DEF Key
  <2> QED BY <2>1, <1>a, <1>b, <1>e DEF Closed
<1>g. \A key \in closing : Closed(key)'
  BY <1>a, <1>b, <1>c DEF Closed, Key
<1>h. \A key \in DOMAIN pending \ closing : ~Closed(key)'
  <2> TAKE key \in DOMAIN pending \ closing
  <2>1. key \in Key /\ key.market \in Markets /\ Close(key.bar) \in Nat
    BY <1>c, CloseIsNat DEF Key
  <2>2. ~Closed(key)
    BY DEF IInv, Tracked
  <2>3. CASE key.market \in closed
    BY <2>1, <2>3, <1>a DEF Closed
  <2>4. CASE key.market \notin closed
    BY <2>1, <2>2, <2>4, <1>a DEF Closed
  <2> QED BY <2>3, <2>4
<1>i. \A candle \in returned : /\ candle.key \in closing
                              /\ ~Suppressed(candle.key)
                              /\ candle.total = pending[candle.key]
                              /\ candle \in [key : Key, total : Aggregate]
  BY <1>c DEF IInv, CandlesTypeOK
<1> HIDE DEF closing, returned
<1>j. DOMAIN pending' = DOMAIN pending \ closing
      /\ \A key \in DOMAIN pending' : pending'[key] = pending[key]
  BY <1>a
<1>k. \A p \in Point : Keys(p) \subseteq Key /\ KeyOf(p, Hour) \in Keys(p)
  BY KeysAreKeys
<1>l. Done(closing) \subseteq seen /\ \A p \in seen :
        p \in Done(closing) <=> KeyOf(p, Hour) \in closing
  BY DEF Done
<1>1. CandlesTypeOK'
  <2>1. finalized' \subseteq Point /\ seen' \subseteq Point
    BY <1>a, <1>l DEF Newest, IInv, CandlesTypeOK
  <2>2. DOMAIN pending' \subseteq Key /\ \A key \in DOMAIN pending' : pending'[key] \in Aggregate
    BY <1>j DEF IInv, CandlesTypeOK
  <2>3. watermark' \in [Markets -> Times \cup {None}]
    BY <1>a DEF IInv, CandlesTypeOK
  <2>4. emitted' \subseteq [key : Key, total : Aggregate]
    BY <1>a, <1>i DEF IInv, CandlesTypeOK
  <2> QED BY <2>1, <2>2, <2>3, <2>4, <1>a DEF IInv, CandlesTypeOK
<1>2. Remembered'
  <2>1. seen' \subseteq taken'
    BY <1>a DEF IInv, Remembered
  <2>2. ASSUME NEW p \in taken'
        PROVE  p \in seen' \/ Closed(KeyOf(p, Hour))'
    <3>1. p \in Point /\ KeyOf(p, Hour) \in Key
      BY <1>a, <1>k DEF IInv, CandlesTypeOK
    <3>2. p \in seen \/ Closed(KeyOf(p, Hour))
      BY <1>a DEF IInv, Remembered
    <3>3. CASE Closed(KeyOf(p, Hour))
      BY <3>1, <3>3, <1>f
    <3>4. CASE p \in seen /\ KeyOf(p, Hour) \in closing
      BY <3>4, <1>g
    <3>5. CASE p \in seen /\ KeyOf(p, Hour) \notin closing
      BY <3>5, <1>a, <1>l
    <3> QED BY <3>2, <3>3, <3>4, <3>5
  <2>3. \A p \in seen' : KeyOf(p, Hour) \in DOMAIN pending'
    BY <1>a, <1>j, <1>l DEF IInv, Remembered
  <2>4. \A p, s : KeyOf(p, s)' = KeyOf(p, s)
    BY DEF KeyOf
  <2> QED BY <2>1, <2>2, <2>3, <2>4 DEF Remembered
<1>3. Tracked'
  <2>1. ASSUME NEW p \in taken, NEW key \in Keys(p)
        PROVE  key \in DOMAIN pending' \/ Closed(key)'
    <3>1. key \in Key
      BY <1>k DEF IInv, CandlesTypeOK
    <3>2. key \in DOMAIN pending \/ Closed(key)
      BY DEF IInv, Tracked
    <3> QED BY <3>1, <3>2, <1>f, <1>g, <1>j
  <2>2. \A key \in DOMAIN pending' : ~Closed(key)'
    BY <1>h, <1>j
  <2>3. ASSUME NEW candle \in emitted' PROVE Closed(candle.key)'
    <3>1. CASE candle \in emitted
      <4>1. candle.key \in Key /\ Closed(candle.key)
        BY <3>1 DEF IInv, CandlesTypeOK, Tracked
      <4> QED BY <4>1, <1>f
    <3>2. CASE candle \in returned
      BY <3>2, <1>g, <1>i
    <3> QED BY <3>1, <3>2, <1>a
  <2> QED BY <2>1, <2>2, <2>3, <1>a DEF Tracked
<1>4. Exact'
  <2>1. \A key \in DOMAIN pending' : Summarises(pending[key], TradesOf(key))'
    <3> TAKE key \in DOMAIN pending'
    <3>1. Summarises(pending[key], TradesOf(key)) /\ pending'[key] = pending[key]
      BY <1>j DEF IInv, Exact
    <3> QED BY <3>1, <1>d DEF Summarises
  <2>2. ASSUME NEW candle \in emitted'
        PROVE  Summarises(candle.total, TradesOf(candle.key))'
    <3>1. Summarises(candle.total, TradesOf(candle.key))
      <4>1. CASE candle \in emitted
        BY <4>1 DEF IInv, Exact, CandlesAreTheirTrades
      <4>2. CASE candle \in returned
        BY <4>2, <1>c, <1>i DEF IInv, Exact
      <4> QED BY <4>1, <4>2, <1>a
    <3> QED BY <3>1, <1>d DEF Summarises
  <2> QED BY <2>1, <2>2, <1>a DEF IInv, Exact, CandlesAreTheirTrades
<1>5. NoCandleOverAGap'
  <2>1. \A key : Suppressed(key)' <=> Suppressed(key)
    BY <1>a DEF Suppressed
  <2> QED BY <2>1, <1>a, <1>i DEF IInv, NoCandleOverAGap
<1>6. \A candle \in emitted' \ emitted : candle.key \in DOMAIN pending
  BY <1>a, <1>c, <1>i
<1> QED BY <1>1, <1>2, <1>3, <1>4, <1>5, <1>6 DEF IInv

----------------------------------------------------------------------------
(* Every step                                                              *)

LEMMA MarketsOfCalls ==
  ASSUME IInv
  PROVE  {key.market : key \in DOMAIN pending}
           \cup {m \in Markets : watermark[m] # None} \subseteq Markets
  BY DEF IInv, CandlesTypeOK, Key

LEMMA StepPreserves == IInv /\ [Next]_vars => IInv'
<1> SUFFICES ASSUME IInv, [Next]_vars PROVE IInv'
  OBVIOUS
<1>1. CASE \E p \in Point : Ingest(p)
  BY <1>1, IngestPreserves
<1>2. CASE \E m \in Markets, start \in Times \cup {None}, end \in Times :
             MarkGapUnavailable(m, [start |-> start, end |-> end])
  <2> PICK m \in Markets, start \in Times \cup {None}, end \in Times :
             MarkGapUnavailable(m, [start |-> start, end |-> end])
    BY <1>2
  <2>1. [start |-> start, end |-> end] \in Gap
    BY CandlesAssumption DEF Gap
  <2> QED BY <2>1, MarkPreserves
<1>3. CASE \E time \in Times : CompleteThrough(time)
  BY <1>3, MarketsOfCalls, CompletePreserves DEF CompleteThrough
<1>4. CASE \E m \in Markets, time \in Times : CompleteMarketThrough(m, time)
  <2> PICK m \in Markets, time \in Times : CompleteMarketsThrough({m}, time)
    BY <1>4 DEF CompleteMarketThrough
  <2> QED BY CompletePreserves
<1>5. CASE UNCHANGED vars
  <2>1. UNCHANGED <<seen, finalized, pending, gaps, watermark, taken, emitted>>
    BY <1>5 DEF vars
  <2>2. CandlesTypeOK'
    BY <2>1 DEF IInv, CandlesTypeOK
  <2>3. Remembered' /\ Tracked'
    BY <2>1 DEF IInv, Remembered, Tracked, Closed
  <2>4. Exact' /\ NoCandleOverAGap'
    BY <2>1 DEF IInv, Exact, CandlesAreTheirTrades, NoCandleOverAGap, Suppressed,
                Summarises, TradesOf
  <2> QED BY <2>2, <2>3, <2>4 DEF IInv
<1> QED BY <1>1, <1>2, <1>3, <1>4, <1>5 DEF Next

THEOREM CandlesInvariant == Spec => []IInv
<1> QED BY InitEstablishes, StepPreserves, PTL DEF Spec

(* Every reachable state has the declared types, whatever the sets of      *)
(* trades and the bar lengths are (the fields of CandleAggregator).        *)
THEOREM CandlesTyped == Spec => []CandlesTypeOK
<1>1. IInv => CandlesTypeOK
  BY DEF IInv
<1> QED BY <1>1, CandlesInvariant, PTL

(* Every candle ever returned describes exactly the trades ever accepted   *)
(* in its bar (ingest, complete_markets_through).                          *)
THEOREM CandlesExact == Spec => []CandlesAreTheirTrades
<1>1. IInv => CandlesAreTheirTrades
  BY DEF IInv, Exact
<1> QED BY <1>1, CandlesInvariant, PTL

(* No returned candle has its bar touched by an unavailable span, marked   *)
(* before or after it (mark_gap_unavailable).                              *)
THEOREM CandlesAvoidGaps == Spec => []NoCandleOverAGap
<1>1. IInv => NoCandleOverAGap
  BY DEF IInv
<1> QED BY <1>1, CandlesInvariant, PTL

(* A trade is in the identity map exactly while its hour is open.          *)
THEOREM CandlesRemember == Spec => []SeenUntilTheHourCloses
<1>1. IInv => SeenUntilTheHourCloses
  BY DEF IInv, Remembered, Tracked, SeenUntilTheHourCloses
<1> QED BY <1>1, CandlesInvariant, PTL

(* A bar is returned once, and nothing is accepted in it afterwards.       *)
THEOREM CandlesFinal == Spec => ReturnedOnceAndForAll
<1> DEFINE Once == /\ \A candle \in emitted' \ emitted, old \in emitted : candle.key # old.key
                   /\ \A p \in taken' \ taken, old \in emitted : old.key \notin Keys(p)
<1>1. IInv /\ [Next]_vars => [Once]_vars
  <2> SUFFICES ASSUME IInv, Next PROVE Once
    OBVIOUS
  <2>1. CASE \E p \in Point : Ingest(p)
    <3> PICK p \in Point : Ingest(p)
      BY <2>1
    <3>1. emitted' = emitted /\ taken' \ taken \subseteq {p}
      BY DEF Ingest
    <3>2. \A old \in emitted : old.key \notin Keys(p)
      BY DEF Ingest, Late, IInv, Tracked
    <3> QED BY <3>1, <3>2
  <2>2. CASE \E m \in Markets, start \in Times \cup {None}, end \in Times :
               MarkGapUnavailable(m, [start |-> start, end |-> end])
    BY <2>2 DEF MarkGapUnavailable
  <2>3. ASSUME NEW closed \in SUBSET Markets, NEW time \in Times,
               CompleteMarketsThrough(closed, time)
        PROVE  Once
    <3>1. taken' = taken
      BY <2>3 DEF CompleteMarketsThrough
    <3>2. \A candle \in emitted' \ emitted : candle.key \in DOMAIN pending
      BY <2>3, CompletePreserves
    <3>3. \A candle \in emitted' \ emitted, old \in emitted : candle.key # old.key
      BY <3>2 DEF IInv, Tracked
    <3> QED BY <3>1, <3>3
  <2>4. CASE \E time \in Times : CompleteThrough(time)
    BY <2>3, <2>4, MarketsOfCalls DEF CompleteThrough
  <2>5. CASE \E m \in Markets, time \in Times : CompleteMarketThrough(m, time)
    <3> PICK m \in Markets, time \in Times : CompleteMarketsThrough({m}, time)
      BY <2>5 DEF CompleteMarketThrough
    <3> QED BY <2>3
  <2> QED BY <2>1, <2>2, <2>4, <2>5 DEF Next
<1> QED BY <1>1, CandlesInvariant, PTL DEF Spec, ReturnedOnceAndForAll

----------------------------------------------------------------------------
(* The schedule of context captures                                        *)

WorkerIsWhole == /\ worker.phase = "captured" => worker.done = worker.batch
                 /\ worker.phase = "stopped" => requests = <<>>
                 /\ worker.phase # "stopped" => open

CaptureInv == CaptureTypeOK /\ SingleFlight /\ ScopeIsScheduled /\ WorkerIsWhole

(* A batch is a set of markets of the scope; its size is a number. *)
LEMMA BatchIsFinite ==
  ASSUME NEW set \in SUBSET VenueMarkets, NEW from \in Nat
  PROVE  /\ Batch(set, from) \in SUBSET VenueMarkets
         /\ Cardinality(Batch(set, from)) \in Nat
<1>1. Batch(set, from) \subseteq VenueMarkets  BY DEF Batch
<1>2. IsFiniteSet(Batch(set, from))
      BY <1>1, CaptureAssumption, FS_Subset
<1> QED  BY <1>1, <1>2, FS_CardinalityType

LEMMA EmptyIsNil ==
  ASSUME NEW S, NEW s \in Seq(S), Len(s) = 0
  PROVE  s = <<>>
OBVIOUS

(* A scope that is not empty has a positive size. *)
LEMMA ScopeSize ==
  ASSUME NEW set \in SUBSET VenueMarkets
  PROVE  /\ Cardinality(set) \in Nat
         /\ set # {} => Cardinality(set) > 0
<1>1. IsFiniteSet(set)  BY CaptureAssumption, FS_Subset
<1>2. Cardinality(set) \in Nat  BY <1>1, FS_CardinalityType
<1>3. set # {} => Cardinality(set) # 0  BY <1>1, FS_EmptySet
<1> QED  BY <1>2, <1>3

(* The scheduler's cursor stays inside its scope, whether a batch succeeds or
   fails. *)
LEMMA CursorInScope ==
  ASSUME CaptureTypeOK, NEW persisted \in BOOLEAN
  PROVE  /\ NextAfter(persisted) \in Nat
         /\ NextAfter(persisted) = 0 \/ NextAfter(persisted) < Cardinality(markets)
<1>1. Cardinality(markets) \in Nat /\ (markets # {} => Cardinality(markets) > 0)
      BY ScopeSize DEF CaptureTypeOK
<1>2. CASE persisted /\ inFlight # NoBatch /\ markets # {}
      <2>1. inFlight \in Nat /\ next \in Nat  BY <1>2 DEF CaptureTypeOK
      <2>2. NextAfter(persisted) = (next + inFlight) % Cardinality(markets)
            BY <1>2 DEF NextAfter
      <2>3. (next + inFlight) % Cardinality(markets) \in 0 .. Cardinality(markets) - 1
            BY <1>1, <1>2, <2>1
      <2> QED  BY <2>2, <2>3, <1>1
<1>3. CASE ~(persisted /\ inFlight # NoBatch /\ markets # {})
      BY <1>3 DEF NextAfter, CaptureTypeOK
<1> QED  BY <1>2, <1>3

(* What is selected are markets. *)
LEMMA SelectionIsMarkets ==
  ASSUME NEW listings \in SUBSET (VenueMarkets \X (0 .. MaxVolume))
  PROVE  Selected(listings) \in SUBSET VenueMarkets
BY DEF Selected

USE DEF Phases, NoBatch, Idle, Stopped, Job

LEMMA InitCaptureInv == CaptureInit => CaptureInv
<1> SUFFICES ASSUME CaptureInit PROVE CaptureInv  OBVIOUS
<1>1. CaptureTypeOK
      <2>1. volume \in [VenueMarkets -> 0 .. MaxVolume]  BY CaptureAssumption DEF CaptureInit
      <2>2. worker \in Jobs  BY DEF CaptureInit, Jobs
      <2>3. requests \in Seq(SUBSET VenueMarkets) /\ results \in Seq(Jobs)  BY DEF CaptureInit
      <2>4. /\ listed \subseteq VenueMarkets /\ whole \subseteq VenueMarkets
            /\ markets = {} /\ next = 0 /\ inFlight = -1
            /\ scope = {} /\ registered = {} /\ freshBooks = {} /\ stored = {}
            /\ open = TRUE /\ metadataCurrent = FALSE /\ captureCurrent = FALSE
            /\ faults \in 0 .. MaxFaults
            BY CaptureAssumption DEF CaptureInit
      <2> QED  BY <2>1, <2>2, <2>3, <2>4 DEF CaptureTypeOK
<1>2. Carried = 0 /\ ~Working  BY DEF CaptureInit, Carried, Working
<1>3. SingleFlight  BY <1>2 DEF CaptureInit, SingleFlight
<1> QED  BY <1>1, <1>3 DEF CaptureInit, CaptureInv, ScopeIsScheduled, WorkerIsWhole

LEMMA AtMostOne ==
  ASSUME NEW a \in Nat, NEW b \in Nat, a + 0 + b <= 1
  PROVE  /\ a > 0 => a = 1 /\ b = 0
         /\ b > 0 => a = 0 /\ b = 1
OBVIOUS

(* One batch is carried at most, wherever it is. *)
LEMMA OneCarried ==
  ASSUME CaptureInv
  PROVE  /\ Len(requests) \in Nat /\ Len(results) \in Nat
         /\ Working => Len(requests) = 0 /\ Len(results) = 0
         /\ Len(requests) > 0 => ~Working /\ Len(requests) = 1 /\ Len(results) = 0
         /\ Len(results) > 0 => ~Working /\ Len(requests) = 0 /\ Len(results) = 1
<1>1. requests \in Seq(SUBSET VenueMarkets) /\ results \in Seq(Jobs)
      BY DEF CaptureInv, CaptureTypeOK
<1>2. Len(requests) \in Nat /\ Len(results) \in Nat  BY <1>1
<1>3. Carried <= 1  BY DEF CaptureInv, SingleFlight
<1>4. CASE Working
      <2>1. Len(requests) + 1 + Len(results) <= 1  BY <1>3, <1>4 DEF Carried
      <2>2. Len(requests) = 0 /\ Len(results) = 0  BY <1>2, <2>1
      <2> QED  BY <1>2, <1>4, <2>2
<1>5. CASE ~Working
      <2>1. Len(requests) + 0 + Len(results) <= 1  BY <1>3, <1>5 DEF Carried
      <2>2. /\ Len(requests) > 0 => Len(requests) = 1 /\ Len(results) = 0
            /\ Len(results) > 0 => Len(requests) = 0 /\ Len(results) = 1
            BY <1>2, <2>1, AtMostOne
      <2> QED  BY <1>2, <1>5, <2>2
<1> QED  BY <1>4, <1>5

LEMMA TickKeeps == CaptureInv /\ Tick => CaptureInv'
<1> SUFFICES ASSUME CaptureInv, Tick PROVE CaptureInv'  OBVIOUS
<1> DEFINE due == Batch(markets, next)
<1>1. due \in SUBSET VenueMarkets /\ Cardinality(due) \in Nat
      BY BatchIsFinite DEF CaptureInv, CaptureTypeOK
<1>2. Len(requests) \in Nat /\ Len(results) \in Nat
      BY DEF CaptureInv, CaptureTypeOK
<1>3. Carried = 0
      <2>1. Carried <= 1 /\ (Carried = 1 => inFlight = Cardinality(due))
            BY DEF CaptureInv, SingleFlight
      <2>2. inFlight = NoBatch  BY DEF Tick, Dispatchable
      <2>3. Carried \in Nat  BY <1>2 DEF Carried
      <2> QED  BY <1>1, <2>1, <2>2, <2>3
<1>4. requests = <<>> /\ results = <<>> /\ ~Working
      <2>1. Len(requests) = 0 /\ Len(results) = 0 /\ ~Working
            BY <1>2, <1>3 DEF Carried
      <2>2. requests \in Seq(SUBSET VenueMarkets) /\ results \in Seq(Jobs)
            BY DEF CaptureInv, CaptureTypeOK
      <2> QED  BY <2>1, <2>2
<1>5. CASE worker.phase # "stopped" /\ Len(requests) < RequestCapacity
      <2>1. /\ requests' = <<due>> /\ inFlight' = Cardinality(due)
            /\ UNCHANGED <<markets, next, open, captureCurrent, worker, results>>
            BY <1>4, <1>5 DEF Tick
      <2>2. Carried' = 1  BY <1>4, <2>1 DEF Carried, Working
      <2>3. CaptureTypeOK'
            BY <1>1, <2>1 DEF CaptureInv, CaptureTypeOK, Tick, venue, Jobs
      <2>4. SingleFlight'
            BY <1>4, <2>1, <2>2 DEF SingleFlight, Working
      <2> QED  BY <2>1, <2>3, <2>4 DEF CaptureInv, ScopeIsScheduled, WorkerIsWhole, Tick
<1>6. CASE ~(worker.phase # "stopped" /\ Len(requests) < RequestCapacity)
      <2>1. /\ captureCurrent' = FALSE /\ open' \in BOOLEAN
            /\ UNCHANGED <<markets, next, inFlight, requests, worker, results>>
            BY <1>6 DEF Tick, scheduler
      <2>2. Carried' = 0  BY <1>3, <2>1 DEF Carried, Working
      <2>3. CaptureTypeOK'
            BY <2>1 DEF CaptureInv, CaptureTypeOK, Tick, venue, Jobs
      <2>4. SingleFlight'
            BY <1>4, <2>1, <2>2 DEF SingleFlight, Working, Tick, Dispatchable
      <2> QED  BY <2>1, <2>3, <2>4 DEF CaptureInv, ScopeIsScheduled, WorkerIsWhole, Tick
<1> QED  BY <1>5, <1>6

(* The steps of the worker hand the same batch on. *)
LEMMA WorkerStepsKeep == CaptureInv /\ WorkerSteps => CaptureInv'
<1> SUFFICES ASSUME CaptureInv, WorkerSteps PROVE CaptureInv'  OBVIOUS
<1> DEFINE due == Batch(markets, next)
<1>0. /\ Len(requests) \in Nat /\ Len(results) \in Nat
      /\ requests \in Seq(SUBSET VenueMarkets) /\ results \in Seq(Jobs)
      /\ worker \in Jobs
      BY DEF CaptureInv, CaptureTypeOK
<1>a. UNCHANGED <<markets, next, inFlight, open, scope, registered, freshBooks,
                  metadataCurrent, captureCurrent, stored, faults,
                  listed, whole, volume>>
      BY DEF WorkerSteps, WorkerTakes, ReadMetadata, ReadDetail, DetailsRead,
             WorkerAnswers, authority, venue, scheduler, readiness
<1>c. open /\ open'
      <2>1. worker.phase # "stopped"
            BY DEF WorkerSteps, WorkerTakes, ReadMetadata, ReadDetail, DetailsRead,
                   WorkerAnswers
      <2> QED  BY <1>a, <2>1 DEF CaptureInv, WorkerIsWhole
<1>b. ASSUME CaptureTypeOK', SingleFlight', WorkerIsWhole' PROVE CaptureInv'
      BY <1>a, <1>b DEF CaptureInv, ScopeIsScheduled
<1>1. CASE WorkerTakes
      <2>0. worker.phase = "idle" /\ Len(requests) > 0
            BY <1>0, <1>1 DEF WorkerTakes
      <2>1. ~Working /\ Len(requests) = 1 /\ Len(results) = 0
            BY <2>0, OneCarried
      <2>2. requests' = <<>> /\ results' = results /\ Head(requests) = due
            BY <1>0, <1>1, <2>1 DEF WorkerTakes, CaptureInv, SingleFlight
      <2>a. worker' = [phase |-> "metadata", batch |-> Head(requests),
                       seen |-> {}, done |-> {}]
            BY <1>1 DEF WorkerTakes
      <2>3. worker' = [phase |-> "metadata", batch |-> due, seen |-> {}, done |-> {}]
            BY <2>a, <2>2
      <2>4. Carried' = 1 /\ Working' /\ Carried = 1
            BY <2>1, <2>2, <2>3 DEF Carried, Working
      <2>5. due \in SUBSET VenueMarkets  BY <1>0, <2>1, <2>2
      <2>6. CaptureTypeOK'
            BY <1>a, <2>2, <2>3, <2>5 DEF CaptureInv, CaptureTypeOK, Jobs
      <2>7. SingleFlight'
            BY <1>a, <2>1, <2>2, <2>3, <2>4 DEF CaptureInv, SingleFlight
      <2> QED  BY <1>b, <1>c, <2>3, <2>6, <2>7 DEF WorkerIsWhole
<1>2. ASSUME /\ Working /\ UNCHANGED <<requests, results>>
             /\ worker' \in Jobs /\ Working'
             /\ worker'.batch = worker.batch
             /\ worker'.phase = "captured" => worker'.done = worker'.batch
             /\ worker'.phase # "stopped"
      PROVE  CaptureInv'
      <2>1. Carried' = Carried  BY <1>2 DEF Carried
      <2>2. CaptureTypeOK'  BY <1>a, <1>2 DEF CaptureInv, CaptureTypeOK
      <2>3. SingleFlight'
            BY <1>a, <1>0, <1>2, <2>1 DEF CaptureInv, SingleFlight, Working
      <2> QED  BY <1>b, <1>c, <1>2, <2>2, <2>3 DEF WorkerIsWhole
<1>3. CASE ReadMetadata
      <2>1. volume \in [VenueMarkets -> 0 .. MaxVolume] /\ listed \subseteq VenueMarkets
            BY DEF CaptureInv, CaptureTypeOK
      <2>2. {<<m, volume[m]>> : m \in listed} \subseteq VenueMarkets \X (0 .. MaxVolume)
            BY <2>1
      <2>3. worker' \in Jobs  BY <1>0, <1>3, <2>2 DEF ReadMetadata, Jobs
      <2> QED  BY <1>0, <1>2, <1>3, <2>3 DEF ReadMetadata, Working, Jobs
<1>4. ASSUME NEW m \in VenueMarkets, ReadDetail(m) PROVE CaptureInv'
      <2>1. worker' \in Jobs  BY <1>0, <1>4 DEF ReadDetail, Jobs
      <2> QED  BY <1>0, <1>2, <1>4, <2>1 DEF ReadDetail, Working, Jobs
<1>5. CASE DetailsRead
      <2>1. worker' \in Jobs  BY <1>0, <1>5 DEF DetailsRead, Jobs
      <2> QED  BY <1>0, <1>2, <1>5, <2>1 DEF DetailsRead, Working, Jobs
<1>6. CASE WorkerAnswers
      <2>1. Working /\ Len(requests) = 0 /\ Len(results) = 0
            <3>1. Working  BY <1>6 DEF WorkerAnswers, Working
            <3> QED  BY <3>1, OneCarried
      <2>2. /\ results = <<>> /\ requests' = requests
            /\ results' = <<worker>> /\ worker' = Idle
            BY <1>0, <1>6, <2>1 DEF WorkerAnswers
      <2>3. Carried' = 1 /\ Carried = 1 /\ ~Working'
            BY <2>1, <2>2 DEF Carried, Working
      <2>4. CaptureTypeOK'
            BY <1>a, <1>0, <2>2 DEF CaptureInv, CaptureTypeOK, Jobs
      <2>5. \A i \in DOMAIN requests' : requests'[i] = due
            BY <2>2 DEF CaptureInv, SingleFlight
      <2>6. \A i \in DOMAIN results' :
              /\ results'[i].batch = due
              /\ results'[i].phase \in {"rejected", "captured"}
              /\ results'[i].phase = "captured" => results'[i].done = due
            BY <1>6, <2>1, <2>2 DEF CaptureInv, SingleFlight, WorkerAnswers, WorkerIsWhole
      <2>7. SingleFlight'
            BY <1>a, <2>1, <2>3, <2>5, <2>6 DEF CaptureInv, SingleFlight
      <2> QED  BY <1>b, <1>c, <2>2, <2>4, <2>7 DEF WorkerIsWhole
<1> QED  BY <1>1, <1>3, <1>4, <1>5, <1>6 DEF WorkerSteps

(* The authority's answer is the only thing in flight. *)
LEMMA AnswerIsAlone ==
  ASSUME CaptureInv, results # <<>>
  PROVE  /\ requests = <<>> /\ ~Working /\ Len(results) = 1
         /\ Tail(results) = <<>> /\ Head(results) \in Jobs
         /\ Head(results).phase = "captured" => Head(results).done = Batch(markets, next)
<1>1. requests \in Seq(SUBSET VenueMarkets) /\ results \in Seq(Jobs)
      BY DEF CaptureInv, CaptureTypeOK
<1>2. Len(results) > 0  BY <1>1
<1>3. Len(results) = 1 /\ Len(requests) = 0 /\ ~Working  BY <1>2, OneCarried
<1>4. requests = <<>>  BY <1>1, <1>3
<1>6. Head(results) = results[1] /\ 1 \in DOMAIN results  BY <1>1, <1>3
<1>5. Head(results) \in Jobs /\ Tail(results) = <<>>
      <2>1. results[1] \in Jobs  BY <1>1, <1>6
      <2>2. Tail(results) \in Seq(Jobs) /\ Len(Tail(results)) = 0
            BY <1>1, <1>3
      <2>3. Tail(results) = <<>>  BY <2>2, EmptyIsNil
      <2> QED  BY <1>6, <2>1, <2>3
<1>7. results[1].phase = "captured" => results[1].done = Batch(markets, next)
      BY <1>6 DEF CaptureInv, SingleFlight
<1> QED  BY <1>3, <1>4, <1>5, <1>6, <1>7

LEMMA AdmitCapturedKeeps == CaptureInv /\ AdmitCaptured => CaptureInv'
<1> SUFFICES ASSUME CaptureInv, AdmitCaptured PROVE CaptureInv'  OBVIOUS
<1> DEFINE selection == Selected(Head(results).seen)
<1>1. /\ results # <<>> /\ open /\ results' = Tail(results)
      /\ UNCHANGED <<requests, worker, open, faults, listed, whole, volume>>
      /\ markets' = selection /\ inFlight' = NoBatch
      /\ next' = IF selection # markets THEN 0 ELSE NextAfter(TRUE)
      /\ scope' = selection /\ freshBooks' = selection
      /\ registered' = registered \cup selection
      /\ stored' = stored \cup Head(results).done
      /\ metadataCurrent' = TRUE /\ captureCurrent' = TRUE
      BY DEF AdmitCaptured, Rescheduled, venue
<1>2. /\ requests = <<>> /\ ~Working /\ Tail(results) = <<>>
      /\ Head(results) \in Jobs
      BY <1>1, AnswerIsAlone
<1>3. selection \in SUBSET VenueMarkets  BY <1>2, SelectionIsMarkets DEF Jobs
<1>4. next' \in Nat /\ (next' = 0 \/ next' < Cardinality(markets'))
      BY <1>1, CursorInScope DEF CaptureInv
<1>5. Head(results).done \subseteq VenueMarkets  BY <1>2 DEF Jobs
<1>6. requests' = <<>> /\ results' = <<>>  BY <1>1, <1>2
<1>7. CaptureTypeOK'
      <2>1. CaptureTypeOK  BY DEF CaptureInv
      <2>2. /\ worker' \in Jobs /\ open' \in BOOLEAN /\ faults' \in 0 .. MaxFaults
            /\ listed' \subseteq VenueMarkets /\ whole' \subseteq VenueMarkets
            /\ volume' \in [VenueMarkets -> 0 .. MaxVolume]
            BY <1>1, <2>1 DEF CaptureTypeOK
      <2>3. registered' \subseteq VenueMarkets /\ stored' \subseteq VenueMarkets
            BY <1>1, <1>3, <1>5, <2>1 DEF CaptureTypeOK
      <2>4. requests' \in Seq(SUBSET VenueMarkets) /\ results' \in Seq(Jobs)
            BY <1>6
      <2> HIDE DEF selection
      <2>5. /\ markets' \subseteq VenueMarkets /\ scope' \subseteq VenueMarkets
            /\ freshBooks' \subseteq VenueMarkets
            /\ metadataCurrent' \in BOOLEAN /\ captureCurrent' \in BOOLEAN
            /\ inFlight' \in {NoBatch} \cup Nat
            BY <1>1, <1>3
      <2> QED  BY <1>4, <2>2, <2>3, <2>4, <2>5 DEF CaptureTypeOK
<1>8. worker' = worker /\ worker.phase \in {"idle", "stopped"}
      BY <1>1, <1>2 DEF Working
<1>9. SingleFlight' /\ WorkerIsWhole'
      <2>1. ~Working' /\ Carried' = 0  BY <1>6, <1>8 DEF Working, Carried
      <2>2. inFlight' = NoBatch /\ worker'.phase \in {"idle", "stopped"} /\ open'
            BY <1>1, <1>8
      <2> QED  BY <1>6, <2>1, <2>2 DEF SingleFlight, WorkerIsWhole
<1> QED  BY <1>1, <1>7, <1>9 DEF CaptureInv, ScopeIsScheduled

(* A rejection, and the end of the results, leave the scope as it is. *)
LEMMA ResolveKeeps == CaptureInv /\ (AdmitRejected \/ ResultsClosed) => CaptureInv'
<1> SUFFICES ASSUME CaptureInv, AdmitRejected \/ ResultsClosed PROVE CaptureInv'  OBVIOUS
<1>1. /\ UNCHANGED <<requests, worker, scope, registered, freshBooks,
                     metadataCurrent, stored, faults, listed, whole, volume>>
      /\ markets' = markets /\ inFlight' = NoBatch /\ next' = NextAfter(FALSE)
      /\ captureCurrent' = FALSE /\ open' \in BOOLEAN
      BY DEF AdmitRejected, ResultsClosed, Complete, venue, CaptureInv, CaptureTypeOK
<1>2. /\ requests' = <<>> /\ results' = <<>>
      /\ worker.phase \in {"idle", "stopped"}
      <2>1. CASE AdmitRejected
            BY <1>1, <2>1, AnswerIsAlone DEF AdmitRejected, Working
      <2>2. CASE ResultsClosed
            <3>1. requests = <<>>  BY <2>2 DEF CaptureInv, WorkerIsWhole, ResultsClosed
            <3> QED  BY <1>1, <2>2, <3>1 DEF ResultsClosed
      <2> QED  BY <2>1, <2>2
<1>3. next' \in Nat /\ (next' = 0 \/ next' < Cardinality(markets'))
      BY <1>1, CursorInScope DEF CaptureInv
<1>4. CaptureTypeOK'
      <2>1. CaptureTypeOK  BY DEF CaptureInv
      <2>2. requests' \in Seq(SUBSET VenueMarkets) /\ results' \in Seq(Jobs)
            BY <1>2
      <2>3. inFlight' \in {NoBatch} \cup Nat /\ captureCurrent' \in BOOLEAN
            BY <1>1
      <2> QED  BY <1>1, <1>3, <2>1, <2>2, <2>3 DEF CaptureTypeOK
<1>5. SingleFlight' /\ WorkerIsWhole'
      <2>1. ~Working' /\ Carried' = 0  BY <1>1, <1>2 DEF Working, Carried
      <2>2. /\ inFlight' = NoBatch /\ worker'.phase \in {"idle", "stopped"}
            /\ worker'.phase # "stopped" => open'
            <3>1. worker' = worker  BY <1>1
            <3>2. CASE AdmitRejected
                  <4>1. open'  BY <3>2 DEF AdmitRejected
                  <4> QED  BY <1>1, <1>2, <3>1, <4>1
            <3>3. CASE ResultsClosed
                  <4>1. worker.phase = "stopped"  BY <3>3 DEF ResultsClosed
                  <4> QED  BY <1>1, <1>2, <3>1, <4>1
            <3> QED  BY <3>2, <3>3
      <2> QED  BY <1>2, <2>1, <2>2 DEF SingleFlight, WorkerIsWhole
<1> QED  BY <1>1, <1>4, <1>5 DEF CaptureInv, ScopeIsScheduled

(* The venue's changes touch nothing of the daemon. *)
LEMMA VenueKeeps ==
  CaptureInv /\ (\E m \in VenueMarkets : ListingChanges(m) \/ HistoryChanges(m) \/ VolumeChanges(m))
    => CaptureInv'
<1> SUFFICES ASSUME CaptureInv, NEW m \in VenueMarkets,
                    ListingChanges(m) \/ HistoryChanges(m) \/ VolumeChanges(m)
             PROVE  CaptureInv'
    OBVIOUS
<1>1. /\ UNCHANGED <<markets, next, inFlight, requests, worker, results, open,
                     scope, registered, freshBooks, metadataCurrent,
                     captureCurrent, stored>>
      BY DEF ListingChanges, HistoryChanges, VolumeChanges, Daemon, scheduler, readiness
<1>2. /\ listed' \subseteq VenueMarkets /\ whole' \subseteq VenueMarkets
      /\ volume' \in [VenueMarkets -> 0 .. MaxVolume] /\ faults' \in 0 .. MaxFaults
      <2>1. /\ listed \subseteq VenueMarkets /\ whole \subseteq VenueMarkets
            /\ volume \in [VenueMarkets -> 0 .. MaxVolume] /\ faults \in 0 .. MaxFaults
            BY DEF CaptureInv, CaptureTypeOK
      <2>2. faults' \in 0 .. MaxFaults
            BY <2>1, CaptureAssumption
            DEF ListingChanges, HistoryChanges, VolumeChanges, Fault
      <2> QED  BY <2>1, <2>2 DEF ListingChanges, HistoryChanges, VolumeChanges
<1>3. CaptureTypeOK'  BY <1>1, <1>2 DEF CaptureInv, CaptureTypeOK
<1>4. Carried' = Carried /\ (Working' <=> Working)  BY <1>1 DEF Carried, Working
<1>5. SingleFlight'  BY <1>1, <1>4 DEF CaptureInv, SingleFlight, Working
<1> QED  BY <1>1, <1>3, <1>5 DEF CaptureInv, ScopeIsScheduled, WorkerIsWhole

(* A failed request, an ended worker and a restart drop what they carried. *)
LEMMA FaultsKeep == CaptureInv /\ (RequestFails \/ WorkerStops \/ Restart) => CaptureInv'
<1> SUFFICES ASSUME CaptureInv, RequestFails \/ WorkerStops \/ Restart PROVE CaptureInv'
    OBVIOUS
<1>0. CaptureTypeOK /\ worker \in Jobs  BY DEF CaptureInv, CaptureTypeOK
<1>1. faults' \in 0 .. MaxFaults /\ UNCHANGED <<listed, whole, volume>>
      BY <1>0, CaptureAssumption
      DEF CaptureTypeOK, RequestFails, WorkerStops, Restart, Fault, venue
<1>2. CASE RequestFails
      <2>1. /\ UNCHANGED <<markets, next, inFlight, requests, results, open, scope,
                           registered, freshBooks, metadataCurrent,
                           captureCurrent, stored>>
            /\ worker' = [worker EXCEPT !.phase = "rejected"]
            /\ worker.phase \in {"metadata", "details"}
            BY <1>2 DEF RequestFails, scheduler, readiness
      <2>2. worker' \in Jobs /\ worker'.phase = "rejected" /\ worker'.batch = worker.batch
            BY <1>0, <2>1 DEF Jobs
      <2>3. Working /\ Working'  BY <2>1, <2>2 DEF Working
      <2>4. Carried' = Carried  BY <2>1, <2>3 DEF Carried
      <2> HIDE <1>2
      <2>a. worker' \in Jobs  BY <2>2
      <2>5. CaptureTypeOK'
            <3> HIDE <2>2
            <3>1. UNCHANGED <<listed, whole, volume, markets, next, inFlight,
                              requests, results, open, scope, registered,
                              freshBooks, metadataCurrent, captureCurrent, stored>>
                  BY <1>1, <2>1
            <3> QED  BY <1>0, <1>1, <2>a, <3>1 DEF CaptureTypeOK
      <2>6. SingleFlight'
            BY <2>1, <2>2, <2>3, <2>4 DEF CaptureInv, SingleFlight
      <2> QED  BY <2>1, <2>2, <2>5, <2>6 DEF CaptureInv, ScopeIsScheduled, WorkerIsWhole
<1>3. CASE WorkerStops
      <2>1. /\ UNCHANGED <<markets, next, inFlight, results, open, scope,
                           registered, freshBooks, metadataCurrent,
                           captureCurrent, stored>>
            /\ worker' = [phase |-> "stopped", batch |-> {}, seen |-> {}, done |-> {}]
            /\ requests' = <<>> /\ worker.phase # "stopped"
            BY <1>3 DEF WorkerStops, scheduler, readiness
      <2>2. worker' \in Jobs /\ ~Working'  BY <2>1 DEF Jobs, Working
      <2>3. CaptureTypeOK'  BY <1>0, <1>1, <2>1, <2>2 DEF CaptureTypeOK
      <2>4. Carried' = Len(results) /\ Len(results) <= 1
            <3>1. Len(results) \in Nat  BY OneCarried
            <3>2. Carried' = Len(results)  BY <2>1, <2>2, <3>1 DEF Carried
            <3> QED  BY <3>1, <3>2, OneCarried
      <2>5. Len(results) = 1 => Carried = 1
            <3>1. Len(results) > 0 => ~Working /\ Len(requests) = 0 /\ Len(results) = 1
                  BY OneCarried
            <3> QED  BY <3>1 DEF Carried
      <2>6. inFlight # NoBatch => open
            <3>1. inFlight # NoBatch => Carried = 1 \/ (worker.phase = "stopped" /\ open)
                  BY DEF CaptureInv, SingleFlight
            <3> QED  BY <2>1, <3>1 DEF CaptureInv, WorkerIsWhole
      <2>7. SingleFlight'
            BY <2>1, <2>2, <2>4, <2>5, <2>6 DEF CaptureInv, SingleFlight
      <2> QED  BY <2>1, <2>2, <2>3, <2>7 DEF CaptureInv, ScopeIsScheduled, WorkerIsWhole
<1>4. CASE Restart
      <2>1. /\ markets' = {} /\ next' = 0 /\ inFlight' = NoBatch
            /\ requests' = <<>> /\ results' = <<>> /\ open' = TRUE
            /\ worker' = [phase |-> "idle", batch |-> {}, seen |-> {}, done |-> {}]
            /\ scope' = {} /\ registered' = {} /\ freshBooks' = {}
            /\ metadataCurrent' = FALSE /\ captureCurrent' = FALSE
            BY <1>4 DEF Restart
      <2>2. worker' \in Jobs  BY <2>1 DEF Jobs
      <2>3. stored' \subseteq VenueMarkets
            <3>1. \A i \in DOMAIN results : results[i] \in Jobs
                  BY <1>0 DEF CaptureTypeOK
            <3>2. \A i \in DOMAIN results : results[i].done \subseteq VenueMarkets
                  BY <3>1 DEF Jobs
            <3> QED  BY <1>0, <1>4, <3>2 DEF Restart, CaptureTypeOK
      <2>4. CaptureTypeOK'
            <3>1. requests' \in Seq(SUBSET VenueMarkets) /\ results' \in Seq(Jobs)
                  BY <2>1
            <3>2. /\ listed' \subseteq VenueMarkets /\ whole' \subseteq VenueMarkets
                  /\ volume' \in [VenueMarkets -> 0 .. MaxVolume]
                  BY <1>0, <1>1 DEF CaptureTypeOK
            <3> QED  BY <1>1, <2>1, <2>2, <2>3, <3>1, <3>2 DEF CaptureTypeOK
      <2>5. ~Working' /\ Carried' = 0  BY <2>1 DEF Working, Carried
      <2>6. SingleFlight'  BY <2>1, <2>5 DEF SingleFlight
      <2> QED  BY <2>1, <2>4, <2>6 DEF CaptureInv, ScopeIsScheduled, WorkerIsWhole
<1> QED  BY <1>2, <1>3, <1>4

THEOREM Invariance == CaptureSpec => []CaptureInv
<1>1. CaptureInv /\ [CaptureNext]_captureVars => CaptureInv'
      <2> SUFFICES ASSUME CaptureInv, [CaptureNext]_captureVars PROVE CaptureInv'  OBVIOUS
      <2>1. CASE Tick  BY <2>1, TickKeeps
      <2>2. CASE WorkerSteps  BY <2>2, WorkerStepsKeep
      <2>3. CASE AdmitCaptured  BY <2>3, AdmitCapturedKeeps
      <2>4. CASE AdmitRejected \/ ResultsClosed  BY <2>4, ResolveKeeps
      <2>5. CASE \E m \in VenueMarkets :
                   ListingChanges(m) \/ HistoryChanges(m) \/ VolumeChanges(m)
            BY <2>5, VenueKeeps
      <2>6. CASE RequestFails \/ WorkerStops \/ Restart  BY <2>6, FaultsKeep
      <2>7. CASE UNCHANGED captureVars
            <3>1. UNCHANGED <<listed, whole, volume, markets, next, inFlight,
                              requests, worker, results, open, scope, registered,
                              freshBooks, metadataCurrent, captureCurrent,
                              stored, faults>>
                  BY <2>7 DEF captureVars, venue, scheduler, readiness
            <3> QED  BY <3>1 DEF CaptureInv, CaptureTypeOK, SingleFlight, Carried, Working,
                             ScopeIsScheduled, WorkerIsWhole
      <2> QED  BY <2>1, <2>2, <2>3, <2>4, <2>5, <2>6, <2>7 DEF CaptureNext, AuthoritySteps
<1> QED  BY InitCaptureInv, <1>1, PTL DEF CaptureSpec

(* The types of the capture's state. *)
THEOREM CaptureTypeCorrect == CaptureSpec => []CaptureTypeOK
<1>1. CaptureInv => CaptureTypeOK  BY DEF CaptureInv
<1> QED  BY <1>1, Invariance, PTL

(* One capture in flight at most, and it is the batch that is due. *)
THEOREM CaptureIsSingleFlight == CaptureSpec => []SingleFlight
<1>1. CaptureInv => SingleFlight  BY DEF CaptureInv
<1> QED  BY <1>1, Invariance, PTL

(* The schedule, the stream and the book gate have the same scope. *)
THEOREM ScopesAgree == CaptureSpec => []ScopeIsScheduled
<1>1. CaptureInv => ScopeIsScheduled  BY DEF CaptureInv
<1> QED  BY <1>1, Invariance, PTL

(* The scheduler only turns away from a batch that is stored. *)
THEOREM Rotation == CaptureSpec => RotatesOnlyOnStored
<1>1. ASSUME CaptureInv, [CaptureNext]_captureVars, markets' = markets, next' # next
      PROVE  Batch(markets, next) \subseteq stored'
      <2>1. CASE AdmitCaptured
            <3>1. Head(results).done \subseteq stored' /\ results # <<>>
                  /\ Head(results).phase = "captured"
                  BY <2>1 DEF AdmitCaptured
            <3> QED  BY <1>1, <3>1, AnswerIsAlone
      <2>2. CASE Restart
            <3>1. markets = {} /\ next' = 0 /\ next # 0  BY <1>1, <2>2 DEF Restart
            <3> QED  BY <3>1 DEF Batch
      <2>3. CASE Tick  BY <1>1, <2>3 DEF Tick, scheduler
      <2>4. CASE WorkerSteps
            BY <1>1, <2>4 DEF WorkerSteps, WorkerTakes, ReadMetadata, ReadDetail,
                            DetailsRead, WorkerAnswers, authority, scheduler
      <2>5. CASE AdmitRejected \/ ResultsClosed
            BY <1>1, <2>5 DEF AdmitRejected, ResultsClosed, Complete, NextAfter
      <2>6. CASE (\E m \in VenueMarkets :
                   ListingChanges(m) \/ HistoryChanges(m) \/ VolumeChanges(m))
                 \/ RequestFails \/ WorkerStops
            BY <1>1, <2>6 DEF ListingChanges, HistoryChanges, VolumeChanges,
                            RequestFails, WorkerStops, Daemon, scheduler
      <2>7. CASE UNCHANGED captureVars  BY <1>1, <2>7 DEF captureVars, scheduler
      <2> QED  BY <1>1, <2>1, <2>2, <2>3, <2>4, <2>5, <2>6, <2>7
               DEF CaptureNext, AuthoritySteps
<1>2. CaptureInv /\ [CaptureNext]_captureVars =>
        [(markets' = markets /\ next' # next) => Batch(markets, next) \subseteq stored']_captureVars
      BY <1>1
<1> QED  BY <1>2, Invariance, PTL DEF CaptureSpec, RotatesOnlyOnStored
=============================================================================
