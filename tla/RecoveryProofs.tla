--------------------------- MODULE RecoveryProofs ---------------------------
(***************************************************************************)
(* Proofs about gap recovery for every number of markets, every channel    *)
(* and memory capacity, and every exchange.  The inputs on their way to    *)
(* the worker stand in three places one behind the other: what a handler   *)
(* still has to offer, what waits, and what is in the channel.  An offer   *)
(* moves an input along and changes nothing else, so the order of the      *)
(* requests is a property of the three places and of the worker's queue.   *)
(* A turn of the worker absorbs an input, and then it goes on waiting,     *)
(* starts to fetch, fails, or answers the head of its queue; what it does  *)
(* to the worker's state comes first, then what it does to the line.       *)
(***************************************************************************)
EXTENDS RecoveryProperties, FiniteSetTheorems, SequenceTheorems, TLAPS

----------------------------------------------------------------------------
(* Types                                                                   *)

Causes == {"request refused", "trade refused", "gap before watermark"}
Reasons == {"no predecessor", "capacity", "no candles", "conflict"}

Reply == [kind : {"answer"}, number : 1 .. MaxRequests, market : Markets,
          status : Reasons \cup {"reconciled"},
          bars : SUBSET Bar, local : SUBSET Trade]
Failure == [kind : {"failed"}, market : Markets, cause : Causes]
Result == Reply \cup Failure

Evidence == [trades : SUBSET Trade, through : Int, exhausted : BOOLEAN]
CandleState == [trades : SUBSET Trade, gaps : SUBSET Gap, watermark : Nat \cup {None}]

Worker == [phase : {"waiting", "fetching", "sending", "ended"},
           queue : Seq(Request), answer : Result \cup {NoAnswer},
           lastGeneration : [Markets -> Nat],
           evidence : [Markets -> Evidence], candles : [Markets -> CandleState]]

\* A memory of at most as many trades as are retained.
Bounded(e) == IsFiniteSet(e.trades) /\ Cardinality(e.trades) <= RetainedTrades

Phased(w) == /\ w.phase = "fetching" => w.queue # <<>>
             /\ w.phase = "sending" <=> w.answer # NoAnswer
             /\ \A m \in Markets : Bounded(w.evidence[m])

----------------------------------------------------------------------------
(* What a turn of the worker does                                          *)

\* Nothing but the phase and the answer, which is a failure.
Fails(w, v) ==
  /\ v \in Worker
  /\ v.phase = "sending" /\ v.answer.kind = "failed"
  /\ v.queue = w.queue /\ v.evidence = w.evidence /\ v.candles = w.candles

\* The head leaves the queue, and the evidence it alone needed goes with it.
Leaves(w, v) ==
  /\ w.queue # <<>> /\ v.queue = Tail(w.queue)
  /\ v.phase = "sending" /\ v.answer \in Reply
  /\ v.answer.number = Head(w.queue).number
  /\ v.answer.market = Head(w.queue).market
  /\ \A m \in Markets :
       /\ v.evidence[m].trades \subseteq w.evidence[m].trades
       /\ \A r \in Waiting(v, m) :
            /\ v.evidence[m].exhausted = w.evidence[m].exhausted
            /\ \A trade \in w.evidence[m].trades :
                 trade.market = m /\ After(r, trade) => trade \in v.evidence[m].trades

\* A span is unavailable from now on.
Misses(w, v) ==
  LET r == Head(w.queue)
  IN  /\ v.answer.status # "reconciled" /\ v.answer.bars = {}
      /\ ~Revises(w, r)
      /\ Span(r) \in v.candles[r.market].gaps
      /\ \A m \in Markets :
           /\ v.candles[m].watermark = w.candles[m].watermark
           /\ w.candles[m].gaps \subseteq v.candles[m].gaps

\* Bars behind the watermark and up to the boundary become final.
Matches(w, v) ==
  LET r         == Head(w.queue)
      watermark == w.candles[r.market].watermark
  IN  /\ v.answer.status = "reconciled"
      /\ v.candles[r.market].watermark = NextBoundary(r.snapshot)
      /\ \A bar \in v.answer.bars :
           /\ Close(bar) <= NextBoundary(r.snapshot)
           /\ watermark = None \/ Close(bar) > watermark
           /\ \A gap \in w.candles[r.market].gaps : ~Overlaps(gap, bar)
      /\ \A m \in Markets :
           /\ v.candles[m].gaps = w.candles[m].gaps
           /\ m # r.market => v.candles[m].watermark = w.candles[m].watermark

Replies(w, v) == v \in Worker /\ Leaves(w, v) /\ (Misses(w, v) \/ Matches(w, v))

Fetches(w, v) == /\ v \in Worker /\ w.queue # <<>>
                 /\ v.phase = "fetching" /\ v.answer = w.answer
                 /\ v.queue = w.queue /\ v.evidence = w.evidence
                 /\ v.candles = w.candles

Turn(w, v) == v = w \/ Fetches(w, v) \/ Fails(w, v) \/ Replies(w, v)

----------------------------------------------------------------------------
LEMMA BoundaryType ==
  ASSUME NEW t \in Nat
  PROVE  NextBoundary(t) \in Nat
<1>1. Hour \in Nat \ {0}
  BY BarsAssumption
<1>2. (t + Hour - 1) \div Hour \in Nat
  BY <1>1
<1>3. \A n \in Nat : n * Hour \in Nat
  BY <1>1
<1> QED
  BY <1>2, <1>3 DEF NextBoundary

LEMMA HeadOfQueue ==
  ASSUME NEW w \in Worker, w.queue # <<>>
  PROVE  /\ Head(w.queue) \in Request
         /\ Head(w.queue).market \in Markets
         /\ Tail(w.queue) \in Seq(Request)
<1>1. w.queue \in Seq(Request)
  BY DEF Worker
<1>2. Head(w.queue) \in Request /\ Tail(w.queue) \in Seq(Request)
  BY <1>1, HeadTailProperties
<1> QED
  BY <1>2 DEF Request

LEMMA FailedFails ==
  ASSUME NEW w \in Worker, NEW m \in Markets, NEW cause \in Causes
  PROVE  Fails(w, Failed(w, m, cause))
BY DEF Fails, Failed, Worker, Result, Failure

\* What Cleaned keeps for the requests that wait.
LEMMA CleanedKeeps ==
  ASSUME NEW w \in Worker, NEW m \in Markets
  PROVE  /\ Cleaned(w, m) \in Evidence
         /\ Cleaned(w, m).trades \subseteq w.evidence[m].trades
         /\ \A r \in Waiting(w, m) :
              /\ Cleaned(w, m).exhausted = w.evidence[m].exhausted
              /\ \A trade \in w.evidence[m].trades :
                   trade.market = m /\ After(r, trade) => trade \in Cleaned(w, m).trades
<1>1. w.evidence[m] \in Evidence
  BY DEF Worker
<1>2. CASE Waiting(w, m) = {}
  BY <1>1, <1>2 DEF Cleaned, NoEvidence, Evidence, None
<1>3. CASE Waiting(w, m) # {}
  <2>1. Cleaned(w, m) = [w.evidence[m] EXCEPT !.trades = {trade \in @ : Needed(w, trade)}]
    BY <1>3 DEF Cleaned
  <2>2. /\ Cleaned(w, m) \in Evidence
        /\ Cleaned(w, m).trades = {trade \in w.evidence[m].trades : Needed(w, trade)}
        /\ Cleaned(w, m).exhausted = w.evidence[m].exhausted
    BY <1>1, <2>1 DEF Evidence
  <2> QED
    BY <2>2 DEF Needed
<1> QED
  BY <1>2, <1>3

\* An answer to the head, whatever became of its candles.
LEMMA AnsweredLeaves ==
  ASSUME NEW w \in Worker, w.queue # <<>>,
         NEW u \in Worker, u.queue = w.queue, u.evidence = w.evidence,
         NEW answer \in Reply,
         answer.number = Head(w.queue).number, answer.market = Head(w.queue).market
  PROVE  /\ Answered(u, answer) \in Worker
         /\ Leaves(w, Answered(u, answer))
         /\ Answered(u, answer).answer = answer
         /\ Answered(u, answer).candles = u.candles
<1> DEFINE rest == [u EXCEPT !.queue = Tail(@)]
           m == answer.market
           v == Answered(u, answer)
<1>1. Tail(w.queue) \in Seq(Request) /\ m \in Markets
  BY HeadOfQueue
<1>2. rest \in Worker /\ rest.evidence = w.evidence /\ rest.queue = Tail(w.queue)
  BY <1>1 DEF Worker
<1>3. Cleaned(rest, m) \in Evidence
  BY <1>1, <1>2, CleanedKeeps
<1>4. v = [rest EXCEPT !.phase = "sending", !.answer = answer,
                       !.evidence[m] = Cleaned(rest, m)]
  BY DEF Answered
<1>5. /\ v.queue = rest.queue /\ v.phase = "sending" /\ v.answer = answer
      /\ v.candles = u.candles
      /\ v.evidence = [rest.evidence EXCEPT ![m] = Cleaned(rest, m)]
      /\ v.lastGeneration = u.lastGeneration
      /\ DOMAIN v = DOMAIN rest
  BY <1>2, <1>4 DEF Worker
<1>6. v \in Worker
  <2>1. v.evidence \in [Markets -> Evidence]
    BY <1>1, <1>2, <1>3, <1>5 DEF Worker
  <2>2. /\ v.queue \in Seq(Request) /\ v.answer \in Result
        /\ v.lastGeneration \in [Markets -> Nat]
        /\ v.candles \in [Markets -> CandleState]
    BY <1>1, <1>2, <1>5 DEF Worker, Result
  <2>3. v = [phase |-> v.phase, queue |-> v.queue, answer |-> v.answer,
             lastGeneration |-> v.lastGeneration, evidence |-> v.evidence,
             candles |-> v.candles]
    BY <1>2, <1>4 DEF Worker
  <2> QED
    BY <1>5, <2>1, <2>2, <2>3 DEF Worker
<1>7. \A n \in Markets : Waiting(v, n) = Waiting(rest, n)
  BY <1>5 DEF Waiting, Queued
<1>8. ASSUME NEW n \in Markets
      PROVE  /\ v.evidence[n].trades \subseteq w.evidence[n].trades
             /\ \A r \in Waiting(v, n) :
                  /\ v.evidence[n].exhausted = w.evidence[n].exhausted
                  /\ \A trade \in w.evidence[n].trades :
                       trade.market = n /\ After(r, trade) => trade \in v.evidence[n].trades
  <2>1. CASE n = m
    <3>1. v.evidence[n] = Cleaned(rest, n)
      BY <1>1, <1>2, <1>5, <2>1 DEF Worker
    <3> QED
      BY <1>2, <1>7, <3>1, CleanedKeeps
  <2>2. CASE n # m
    <3>1. v.evidence[n] = w.evidence[n]
      BY <1>2, <1>5, <2>2 DEF Worker
    <3> QED
      BY <3>1
  <2> QED
    BY <2>1, <2>2
<1> QED
  BY <1>2, <1>5, <1>6, <1>8 DEF Leaves

LEMMA SpanIsGap == ASSUME NEW r \in Request PROVE Span(r) \in Gap
<1>1. Times \subseteq Nat
  BY RecoveryAssumption DEF Times
<1> QED
  BY <1>1 DEF Span, Gap, Request

LEMMA UnavailableTurns ==
  ASSUME NEW w \in Worker, w.queue # <<>>, NEW reason \in Reasons
  PROVE  LET v == CompleteUnavailable(w, reason)
         IN  \/ Fails(w, v)
             \/ Replies(w, v) /\ Misses(w, v)
<1> DEFINE r == Head(w.queue)
           u == [w EXCEPT !.candles[r.market].gaps = @ \cup {Span(r)}]
           answer == [kind |-> "answer", number |-> r.number, market |-> r.market,
                      status |-> reason, bars |-> {}, local |-> {}]
           v == CompleteUnavailable(w, reason)
<1>1. r \in Request /\ r.market \in Markets /\ r.number \in 1 .. MaxRequests
  BY HeadOfQueue, RecoveryAssumption DEF Request
<1>2. CASE Revises(w, r)
  <2>1. v = Failed(w, r.market, "gap before watermark")
    BY <1>2 DEF CompleteUnavailable
  <2>2. Fails(w, Failed(w, r.market, "gap before watermark"))
    <3>1. "gap before watermark" \in Causes
      BY DEF Causes
    <3> QED
      BY <1>1, <3>1, FailedFails
  <2> QED
    BY <2>1, <2>2
<1>3. CASE ~Revises(w, r)
  <2>1. v = Answered(u, answer)
    BY <1>3 DEF CompleteUnavailable
  <2>2. /\ u.candles = [w.candles EXCEPT ![r.market] =
                          [w.candles[r.market] EXCEPT !.gaps = @ \cup {Span(r)}]]
        /\ u.queue = w.queue /\ u.evidence = w.evidence
        /\ u.phase = w.phase /\ u.answer = w.answer
        /\ u.lastGeneration = w.lastGeneration
    BY DEF Worker
  <2>3. Span(r) \in Gap
    BY <1>1, SpanIsGap
  <2>4. /\ u.candles \in [Markets -> CandleState]
        /\ Span(r) \in u.candles[r.market].gaps
        /\ \A m \in Markets :
             /\ u.candles[m].watermark = w.candles[m].watermark
             /\ w.candles[m].gaps \subseteq u.candles[m].gaps
    <3> DEFINE c == w.candles
    <3>1. c \in [Markets -> CandleState] /\ r.market \in Markets
      BY <1>1 DEF Worker
    <3>2. u.candles = [c EXCEPT ![r.market] = [c[r.market] EXCEPT !.gaps = @ \cup {Span(r)}]]
      BY <2>2
    <3> HIDE DEF c, u, r
    <3>3. [c[r.market] EXCEPT !.gaps = @ \cup {Span(r)}] \in CandleState
      BY <2>3, <3>1 DEF CandleState
    <3>4. u.candles \in [Markets -> CandleState] /\ Span(r) \in u.candles[r.market].gaps
      BY <3>1, <3>2, <3>3 DEF CandleState
    <3>5. \A m \in Markets : /\ u.candles[m].watermark = c[m].watermark
                             /\ c[m].gaps \subseteq u.candles[m].gaps
      BY <3>1, <3>2 DEF CandleState
    <3> QED
      BY <3>4, <3>5 DEF c
  <2>5. u \in Worker
    BY <2>4 DEF Worker
  <2>6. /\ answer \in Reply
        /\ answer.number = Head(w.queue).number
        /\ answer.market = Head(w.queue).market
    BY <1>1 DEF Reply
  <2>7. v \in Worker /\ Leaves(w, v) /\ v.answer = answer /\ v.candles = u.candles
    <3> HIDE DEF r, u, answer
    <3> QED
      BY <2>1, <2>2, <2>5, <2>6, AnsweredLeaves
  <2>8. Misses(w, v)
    <3>1. reason # "reconciled"
      BY DEF Reasons
    <3>2. answer.status = reason /\ answer.bars = {}
      OBVIOUS
    <3> HIDE DEF v, answer, u
    <3>3. v.answer.status # "reconciled" /\ v.answer.bars = {}
      BY <2>7, <3>1, <3>2
    <3> QED
      BY <1>3, <2>4, <2>7, <3>3 DEF Misses
  <2> QED
    BY <2>7, <2>8 DEF Replies
<1> QED
  BY <1>2, <1>3

LEMMA BarsOfTrades ==
  ASSUME NEW time \in Nat, NEW sleeve \in Sleeves
  PROVE  BarAt(time, sleeve) \in Bar
<1>1. sleeve \in Nat \ {0}
  BY BarsAssumption DEF Sleeves
<1>2. time \div sleeve \in Nat
  BY <1>1
<1>3. (time \div sleeve) * sleeve \in Nat
  BY <1>1, <1>2
<1> QED
  BY <1>1, <1>3 DEF BarAt, Bar

\* The evidence that a conflict reports changes nothing else.
LEMMA LocalTrades ==
  ASSUME NEW w \in Worker, NEW u, Replies(w, u), Misses(w, u),
         NEW local \in SUBSET Trade
  PROVE  LET v == [u EXCEPT !.answer.local = local]
         IN  Replies(w, v) /\ Misses(w, v)
<1> DEFINE v == [u EXCEPT !.answer.local = local]
<1>1. u \in Worker /\ u.answer \in Reply
  BY DEF Replies, Leaves
<1>2. /\ v.answer = [u.answer EXCEPT !.local = local]
      /\ v.queue = u.queue /\ v.evidence = u.evidence /\ v.candles = u.candles
      /\ v.phase = u.phase /\ v.lastGeneration = u.lastGeneration
  BY <1>1 DEF Worker
<1>3. /\ v.answer \in Reply /\ v.answer.number = u.answer.number
      /\ v.answer.market = u.answer.market /\ v.answer.status = u.answer.status
      /\ v.answer.bars = u.answer.bars
  BY <1>1, <1>2 DEF Reply
<1>4. v \in Worker
  <2>0. v = [u EXCEPT !.answer.local = local]
    OBVIOUS
  <2> HIDE DEF v
  <2>1. v = [phase |-> u.phase, queue |-> u.queue, answer |-> v.answer,
             lastGeneration |-> u.lastGeneration, evidence |-> u.evidence,
             candles |-> u.candles]
    BY <1>1, <2>0 DEF Worker
  <2>2. v.answer \in Result \cup {NoAnswer}
    BY <1>3 DEF Result
  <2> QED
    BY <1>1, <2>1, <2>2 DEF Worker
<1>5. \A m \in Markets : Waiting(v, m) = Waiting(u, m)
  BY <1>2 DEF Waiting, Queued
<1>6. Leaves(w, v)
  BY <1>2, <1>3, <1>5 DEF Replies, Leaves
<1>7. Misses(w, v)
  BY <1>2, <1>3 DEF Misses
<1> QED
  BY <1>4, <1>6, <1>7 DEF Replies

\* Candles that match leave the bars they make final behind the watermark.
LEMMA MatchTurns ==
  ASSUME NEW w \in Worker, w.queue # <<>>,
         NEW total \in SUBSET Trade, NEW local \in SUBSET Trade,
         NEW derived \in SUBSET Bar, NEW boundary \in Nat,
         boundary = NextBoundary(Head(w.queue).snapshot),
         NEW watermark, watermark = w.candles[Head(w.queue).market].watermark,
         \A bar \in derived :
            /\ Close(bar) <= boundary
            /\ watermark = None \/ Close(bar) > watermark
            /\ \A gap \in w.candles[Head(w.queue).market].gaps : ~Overlaps(gap, bar)
  PROVE  Replies(w, Answered([w EXCEPT !.candles[Head(w.queue).market] =
                                [@ EXCEPT !.trades = total, !.watermark = boundary]],
                             [kind |-> "answer", number |-> Head(w.queue).number,
                              market |-> Head(w.queue).market,
                              status |-> "reconciled", bars |-> derived,
                              local |-> local]))
<1> DEFINE r == Head(w.queue)
           u == [w EXCEPT !.candles[r.market] =
                   [@ EXCEPT !.trades = total, !.watermark = boundary]]
           answer == [kind |-> "answer", number |-> r.number, market |-> r.market,
                      status |-> "reconciled", bars |-> derived, local |-> local]
           v == Answered(u, answer)
<1>1. r \in Request /\ r.market \in Markets /\ r.number \in 1 .. MaxRequests
  BY HeadOfQueue DEF Request
<1>2. /\ u.candles = [w.candles EXCEPT ![r.market] =
                        [w.candles[r.market] EXCEPT !.trades = total,
                                                    !.watermark = boundary]]
      /\ u = [phase |-> w.phase, queue |-> w.queue, answer |-> w.answer,
              lastGeneration |-> w.lastGeneration, evidence |-> w.evidence,
              candles |-> u.candles]
  <2> DEFINE c == [w.candles EXCEPT ![r.market] =
                     [w.candles[r.market] EXCEPT !.trades = total,
                                                 !.watermark = boundary]]
  <2>1. u = [w EXCEPT !.candles = c]
    BY DEF u
  <2> HIDE DEF c, u
  <2>2. /\ u.candles = c
        /\ u = [phase |-> w.phase, queue |-> w.queue, answer |-> w.answer,
                lastGeneration |-> w.lastGeneration, evidence |-> w.evidence,
                candles |-> c]
    BY <2>1 DEF Worker
  <2> QED
    BY <2>2 DEF c
<1>3. /\ answer \in Reply
      /\ answer.number = r.number /\ answer.market = r.market
      /\ answer.status = "reconciled" /\ answer.bars = derived
  BY <1>1 DEF Reply
<1> HIDE DEF r, u, answer
<1>5. /\ u.candles \in [Markets -> CandleState]
      /\ u.candles[r.market].watermark = boundary
      /\ \A m \in Markets :
           /\ u.candles[m].gaps = w.candles[m].gaps
           /\ m # r.market => u.candles[m].watermark = w.candles[m].watermark
  <2>1. w.candles \in [Markets -> CandleState]
    BY DEF Worker
  <2>2. u.candles = [w.candles EXCEPT ![r.market] =
                       [w.candles[r.market] EXCEPT !.trades = total,
                                                   !.watermark = boundary]]
    BY <1>2
  <2> DEFINE c == w.candles
             d == u.candles
  <2> HIDE DEF c, d
  <2>3. c \in [Markets -> CandleState]
    BY <2>1 DEF c
  <2>4. d = [c EXCEPT ![r.market] =
               [c[r.market] EXCEPT !.trades = total, !.watermark = boundary]]
    BY <2>2 DEF c, d
  <2> DEFINE state == [c[r.market] EXCEPT !.trades = total, !.watermark = boundary]
  <2>5. /\ state \in CandleState /\ state.watermark = boundary
        /\ state.gaps = c[r.market].gaps
    <3>1. c[r.market] \in CandleState
      BY <1>1, <2>3
    <3> QED
      BY <3>1 DEF CandleState
  <2>6. d = [c EXCEPT ![r.market] = state]
    BY <2>4
  <2> HIDE DEF state
  <2>7. /\ d \in [Markets -> CandleState]
        /\ d[r.market].watermark = boundary
        /\ \A m \in Markets :
             /\ d[m].gaps = c[m].gaps
             /\ m # r.market => d[m].watermark = c[m].watermark
    BY <1>1, <2>3, <2>5, <2>6
  <2> QED
    BY <2>7 DEF c, d
<1>6. u \in Worker /\ u.queue = w.queue /\ u.evidence = w.evidence
  BY <1>2, <1>5 DEF Worker
<1>7. v \in Worker /\ Leaves(w, v) /\ v.answer = answer /\ v.candles = u.candles
  BY <1>3, <1>6, AnsweredLeaves DEF r
<1> HIDE DEF v
<1>8. Matches(w, v)
  BY <1>3, <1>5, <1>7 DEF Matches, r
<1>9. Replies(w, v)
  BY <1>7, <1>8 DEF Replies
<1> QED
  BY <1>9 DEF v, u, answer, r

LEMMA ReconciledTurns ==
  ASSUME NEW w \in Worker, w.queue # <<>>
  PROVE  Fails(w, Reconciled(w)) \/ Replies(w, Reconciled(w))
<1> DEFINE r        == Head(w.queue)
           candles  == w.candles[r.market]
           boundary == NextBoundary(r.snapshot)
           local    == {trade \in w.evidence[r.market].trades :
                          After(r, trade) /\ trade.time < boundary}
           total    == candles.trades \cup local
           late(bar)    == candles.watermark # None /\ Close(bar) <= candles.watermark
           refused  == \E trade \in local \ candles.trades :
                         \/ \E gap \in candles.gaps : Within(gap, trade.time)
                         \/ \E s \in Sleeves : late(BarAt(trade.time, s))
           derived  == {bar \in {BarAt(trade.time, s) : trade \in total, s \in Sleeves} :
                          /\ Close(bar) <= boundary /\ ~late(bar)
                          /\ \A gap \in candles.gaps : ~Overlaps(gap, bar)}
           conflict == CompleteUnavailable(w, "conflict")
           matched  == CandlesMatch(r, boundary, derived, total)
           match == Answered([w EXCEPT !.candles[r.market] =
                                [@ EXCEPT !.trades = total, !.watermark = boundary]],
                             [kind |-> "answer", number |-> r.number,
                              market |-> r.market, status |-> "reconciled",
                              bars |-> derived, local |-> local])
           told  == [conflict EXCEPT !.answer.local = local]
           fail  == Failed(w, r.market, "trade refused")
           v == Reconciled(w)
<1>1. r \in Request /\ r.market \in Markets /\ r.snapshot \in Nat
  BY HeadOfQueue, RecoveryAssumption DEF Request, Times
<1>2. /\ candles \in CandleState /\ w.evidence[r.market] \in Evidence
      /\ boundary \in Nat
  BY <1>1, BoundaryType DEF Worker
<1>3. local \in SUBSET Trade /\ total \in SUBSET Trade
  BY <1>2 DEF CandleState, Evidence
<1>4. derived \in SUBSET Bar
  <2>1. \A trade \in total : trade.time \in Nat
    <3> HIDE DEF total
    <3> QED
      BY <1>3, RecoveryAssumption DEF Trade, Times
  <2> HIDE DEF total, candles, boundary
  <2> QED
    BY <2>1, BarsOfTrades
<1>5. \A bar \in derived :
        /\ Close(bar) <= boundary
        /\ candles.watermark = None \/ Close(bar) > candles.watermark
        /\ \A gap \in candles.gaps : ~Overlaps(gap, bar)
  <2>1. \A bar \in derived : Close(bar) \in Nat
    <3> HIDE DEF derived
    <3> QED
      BY <1>4, BarsAssumption DEF Bar, Close, Sleeves
  <2>2. candles.watermark = None \/ candles.watermark \in Nat
    BY <1>2 DEF CandleState
  <2> HIDE DEF total, candles, boundary
  <2> QED
    BY <2>1, <2>2
<1>6. v = fail \/ v = match \/ v = conflict \/ (v = told /\ conflict.answer.kind # "failed")
  <2>1. v = IF refused THEN fail
            ELSE IF matched THEN match
            ELSE IF conflict.answer.kind = "failed" THEN conflict ELSE told
    BY DEF Reconciled
  <2> HIDE DEF v, refused, fail, matched, match, conflict, told
  <2> QED
    BY <2>1
<1>8. Fails(w, fail)
  <2>1. "trade refused" \in Causes
    BY DEF Causes
  <2> HIDE DEF r
  <2> QED
    BY <1>1, <2>1, FailedFails
<1>9. Replies(w, match)
  <2> DEFINE mark == candles.watermark
  <2>1. mark = w.candles[Head(w.queue).market].watermark
    OBVIOUS
  <2>2. boundary = NextBoundary(Head(w.queue).snapshot)
    OBVIOUS
  <2>3. \A bar \in derived :
          /\ Close(bar) <= boundary
          /\ mark = None \/ Close(bar) > mark
          /\ \A gap \in w.candles[Head(w.queue).market].gaps : ~Overlaps(gap, bar)
    BY <1>5
  <2> HIDE DEF total, local, derived, boundary, mark, candles
  <2> QED
    BY <1>2, <1>3, <1>4, <2>1, <2>2, <2>3, MatchTurns
<1>10. \/ Fails(w, conflict)
       \/ Replies(w, conflict) /\ Misses(w, conflict)
  <2>1. "conflict" \in Reasons
    BY DEF Reasons
  <2> QED
    BY <2>1, UnavailableTurns
<1>11. ASSUME v = told, conflict.answer.kind # "failed"
       PROVE  Replies(w, v)
  <2> HIDE DEF conflict, local, v
  <2>1. Replies(w, conflict) /\ Misses(w, conflict)
    BY <1>10, <1>11 DEF Fails
  <2>2. Replies(w, told)
    BY <1>3, <2>1, LocalTrades
  <2> QED
    BY <1>11, <2>2
<1> HIDE DEF v, fail, match, conflict, told
<1>12. Fails(w, v) \/ Replies(w, v)
  BY <1>6, <1>8, <1>9, <1>10, <1>11
<1> QED
  BY <1>12 DEF v

LEMMA ProcessedTurns ==
  ASSUME NEW w \in Worker
  PROVE  Turn(w, Processed(w))
<1> DEFINE v == Processed(w)
           u == [w EXCEPT !.phase = "fetching"]
<1>1. \/ v = w
      \/ w.queue # <<>> /\ \E reason \in Reasons : v = CompleteUnavailable(w, reason)
      \/ w.queue # <<>> /\ v = u
  <2>1. "no predecessor" \in Reasons /\ "capacity" \in Reasons
    BY DEF Reasons
  <2> QED
    BY <2>1 DEF Processed
<1>2. w.queue # <<>> => Fetches(w, u)
  <2>1. /\ u.phase = "fetching" /\ u.queue = w.queue /\ u.answer = w.answer
        /\ u.evidence = w.evidence /\ u.candles = w.candles /\ u \in Worker
    BY DEF Worker
  <2> HIDE DEF u
  <2> QED
    BY <2>1 DEF Fetches
<1>3. ASSUME w.queue # <<>>, \E reason \in Reasons : v = CompleteUnavailable(w, reason)
      PROVE  Turn(w, v)
  <2>1. PICK reason \in Reasons : v = CompleteUnavailable(w, reason)
    BY <1>3
  <2> HIDE DEF v
  <2>2. \/ Fails(w, v)
        \/ Replies(w, v) /\ Misses(w, v)
    BY <1>3, <2>1, UnavailableTurns
  <2> QED
    BY <2>2 DEF Turn
<1> HIDE DEF v, u
<1>4. Turn(w, v)
  BY <1>1, <1>2, <1>3 DEF Turn
<1> QED
  BY <1>4 DEF v

----------------------------------------------------------------------------
(* What an input does                                                      *)

\* Evidence only grows, and nothing else but the queue changes.
Absorbs(w, v) ==
  /\ v \in Worker
  /\ v.phase = w.phase /\ v.answer = w.answer /\ v.candles = w.candles
  /\ \A m \in Markets :
       /\ w.evidence[m].trades \subseteq v.evidence[m].trades
       /\ w.evidence[m].exhausted => v.evidence[m].exhausted
       /\ Bounded(w.evidence[m]) => Bounded(v.evidence[m])

LEMMA RetainedAbsorbs ==
  ASSUME NEW w \in Worker, NEW trade \in Trade
  PROVE  LET v == RetainCommittedSource(w, trade)
         IN  /\ Absorbs(w, v) /\ v.queue = w.queue
             /\ \A r \in Waiting(w, trade.market) : After(r, trade) =>
                  \/ trade \in v.evidence[trade.market].trades
                  \/ v.evidence[trade.market].exhausted
<1> DEFINE m == trade.market
           e == w.evidence[m]
           fresh == Needed(w, trade) /\ trade \notin e.trades /\ ~e.exhausted
           full  == Cardinality(e.trades) = RetainedTrades
           kept == [trades    |-> IF fresh /\ ~full THEN e.trades \cup {trade}
                                  ELSE e.trades,
                    through   |-> Later(e.through, trade.time),
                    exhausted |-> e.exhausted \/ (fresh /\ full)]
           v == RetainCommittedSource(w, trade)
<1>1. m \in Markets /\ trade.time \in Nat
  BY RecoveryAssumption DEF Trade, Times
<1>2. e \in Evidence
  BY <1>1 DEF Worker
<1>3. CASE Waiting(w, m) = {}
  <2>1. v = w
    BY <1>3 DEF RetainCommittedSource
  <2> HIDE DEF v
  <2>2. Absorbs(w, v) /\ v.queue = w.queue
    BY <2>1 DEF Absorbs
  <2> QED
    BY <1>3, <2>2 DEF v
<1>4. CASE Waiting(w, m) # {}
  <2>1. v = [w EXCEPT !.evidence[m] = kept]
    BY <1>4 DEF RetainCommittedSource
  <2>2. kept \in Evidence
    <3>1. Later(e.through, trade.time) \in Int
      BY <1>1, <1>2 DEF Later, Evidence
    <3> QED
      BY <1>2, <3>1 DEF Evidence
  <2>3. /\ e.trades \subseteq kept.trades
        /\ e.exhausted => kept.exhausted
    OBVIOUS
  <2>4. Bounded(e) => Bounded(kept)
    <3> SUFFICES ASSUME Bounded(e) PROVE Bounded(kept)
      OBVIOUS
    <3>1. CASE fresh /\ ~full
      <4>1. kept.trades = e.trades \cup {trade}
        BY <3>1
      <4>2. IsFiniteSet(e.trades) /\ Cardinality(e.trades) <= RetainedTrades
        BY DEF Bounded
      <4>3. /\ IsFiniteSet(e.trades \cup {trade})
            /\ Cardinality(e.trades \cup {trade}) = Cardinality(e.trades) + 1
        BY <3>1, <4>2, FS_AddElement
      <4>4. Cardinality(e.trades) \in Nat
        BY <4>2, FS_CardinalityType
      <4> HIDE DEF e, kept
      <4> QED
        BY <3>1, <4>1, <4>2, <4>3, <4>4, RecoveryAssumption DEF Bounded
    <3>2. CASE ~(fresh /\ ~full)
      BY <3>2 DEF Bounded
    <3> QED
      BY <3>1, <3>2
  <2>5. \A r \in Waiting(w, m) : After(r, trade) =>
          trade \in kept.trades \/ kept.exhausted
    BY DEF Needed
  <2> HIDE DEF kept, e, v
  <2>6. /\ v.evidence = [w.evidence EXCEPT ![m] = kept]
        /\ v.queue = w.queue /\ v.phase = w.phase /\ v.answer = w.answer
        /\ v.candles = w.candles /\ v.lastGeneration = w.lastGeneration
    BY <2>1 DEF Worker
  <2>7. v.evidence \in [Markets -> Evidence]
    BY <1>1, <2>2, <2>6 DEF Worker
  <2>8. v = [phase |-> w.phase, queue |-> w.queue, answer |-> w.answer,
             lastGeneration |-> w.lastGeneration, evidence |-> v.evidence,
             candles |-> w.candles]
    BY <2>1 DEF Worker
  <2>9. v \in Worker
    BY <2>7, <2>8 DEF Worker
  <2>10. /\ v.evidence[m] = kept
         /\ \A n \in Markets : n # m => v.evidence[n] = w.evidence[n]
    BY <1>1, <2>6 DEF Worker
  <2>11. \A n \in Markets :
           /\ w.evidence[n].trades \subseteq v.evidence[n].trades
           /\ w.evidence[n].exhausted => v.evidence[n].exhausted
           /\ Bounded(w.evidence[n]) => Bounded(v.evidence[n])
    BY <2>3, <2>4, <2>10 DEF e
  <2>12. Absorbs(w, v)
    BY <2>6, <2>9, <2>11 DEF Absorbs
  <2> QED
    BY <2>5, <2>6, <2>10, <2>12 DEF v
<1> QED
  BY <1>3, <1>4

LEMMA ThroughAbsorbs ==
  ASSUME NEW w \in Worker, NEW m \in Markets, NEW at \in Int, NEW e, NEW v,
         e = [w.evidence[m] EXCEPT !.through = Later(@, at)],
         v = [w EXCEPT !.evidence[m] = e]
  PROVE  Absorbs(w, v) /\ v.queue = w.queue /\ v.lastGeneration = w.lastGeneration
<1>1. w.evidence[m] \in Evidence
  BY DEF Worker
<1>2. Later(w.evidence[m].through, at) \in Int
  BY <1>1 DEF Later, Evidence
<1>3. /\ e \in Evidence /\ e.trades = w.evidence[m].trades
      /\ e.exhausted = w.evidence[m].exhausted
  BY <1>1, <1>2 DEF Evidence
<1>4. /\ v.evidence = [w.evidence EXCEPT ![m] = e]
      /\ v.queue = w.queue /\ v.phase = w.phase /\ v.answer = w.answer
      /\ v.candles = w.candles /\ v.lastGeneration = w.lastGeneration
      /\ v = [phase |-> w.phase, queue |-> w.queue, answer |-> w.answer,
              lastGeneration |-> w.lastGeneration, evidence |-> v.evidence,
              candles |-> w.candles]
  BY DEF Worker
<1>5. v.evidence \in [Markets -> Evidence]
  BY <1>3, <1>4 DEF Worker
<1>6. v \in Worker
  BY <1>4, <1>5 DEF Worker
<1>7. v.evidence[m] = e /\ \A n \in Markets : n # m => v.evidence[n] = w.evidence[n]
  BY <1>4 DEF Worker
<1>8. \A n \in Markets : /\ v.evidence[n].trades = w.evidence[n].trades
                         /\ v.evidence[n].exhausted = w.evidence[n].exhausted
  BY <1>3, <1>7
<1> QED
  BY <1>4, <1>6, <1>8 DEF Absorbs, Bounded

LEMMA TimeAbsorbs ==
  ASSUME NEW w \in Worker, NEW m \in Markets, NEW at \in Times
  PROVE  Absorbs(w, AdvanceTime(w, m, at)) /\ AdvanceTime(w, m, at).queue = w.queue
<1> DEFINE v == AdvanceTime(w, m, at)
           e == [w.evidence[m] EXCEPT !.through = Later(@, at)]
<1>1. at \in Int
  BY RecoveryAssumption DEF Times
<1>2. v = w \/ v = [w EXCEPT !.evidence[m] = e]
  BY DEF AdvanceTime
<1>3. e = [w.evidence[m] EXCEPT !.through = Later(@, at)]
  OBVIOUS
<1> HIDE DEF v, e
<1>4. Absorbs(w, v) /\ v.queue = w.queue
  BY <1>1, <1>2, <1>3, ThroughAbsorbs DEF Absorbs
<1> QED
  BY <1>4 DEF v

LEMMA RequestAbsorbs ==
  ASSUME NEW w \in Worker, NEW r \in Request
  PROVE  /\ Absorbs(w, EnqueueRequest(w, r))
         /\ EnqueueRequest(w, r).queue = Append(w.queue, r)
<1> DEFINE e == [w.evidence[r.market] EXCEPT !.through = Later(@, r.snapshot)]
           u == [w EXCEPT !.evidence[r.market] = e]
           v == EnqueueRequest(w, r)
<1>1. r.market \in Markets /\ r.generation \in Nat /\ r.snapshot \in Int
  BY RecoveryAssumption DEF Request, Times
<1>2. v = [w EXCEPT !.queue = Append(@, r),
                    !.lastGeneration[r.market] = r.generation,
                    !.evidence[r.market] = e]
  BY DEF EnqueueRequest
<1>3. /\ u = [w EXCEPT !.evidence[r.market] = e]
      /\ e = [w.evidence[r.market] EXCEPT !.through = Later(@, r.snapshot)]
  OBVIOUS
<1>4. /\ v.queue = Append(w.queue, r) /\ v.evidence = u.evidence
      /\ v.lastGeneration = [w.lastGeneration EXCEPT ![r.market] = r.generation]
      /\ v.phase = w.phase /\ v.answer = w.answer /\ v.candles = w.candles
  <2> HIDE DEF e, u, v
  <2>1. u.evidence = [w.evidence EXCEPT ![r.market] = e]
    BY <1>3 DEF Worker
  <2>2. v.evidence = [w.evidence EXCEPT ![r.market] = e]
    BY <1>2 DEF Worker
  <2>3. /\ v.queue = Append(w.queue, r)
        /\ v.lastGeneration = [w.lastGeneration EXCEPT ![r.market] = r.generation]
        /\ v.phase = w.phase /\ v.answer = w.answer /\ v.candles = w.candles
    BY <1>2 DEF Worker
  <2> QED
    BY <2>1, <2>2, <2>3
<1>5. Absorbs(w, u)
  <2> HIDE DEF e, u
  <2> QED
    BY <1>1, <1>3, ThroughAbsorbs
<1> HIDE DEF e, u, v
<1>6. w.queue \in Seq(Request)
  BY DEF Worker
<1>7. Append(w.queue, r) \in Seq(Request)
  BY <1>6, AppendProperties
<1>8. v.lastGeneration \in [Markets -> Nat]
  BY <1>1, <1>4 DEF Worker
<1>9. v = [phase |-> w.phase, queue |-> v.queue, answer |-> w.answer,
           lastGeneration |-> v.lastGeneration, evidence |-> v.evidence,
           candles |-> w.candles]
  BY <1>2 DEF Worker
<1>10. v.evidence \in [Markets -> Evidence]
  BY <1>4, <1>5 DEF Absorbs, Worker
<1>11. v \in Worker
  BY <1>4, <1>7, <1>8, <1>9, <1>10 DEF Worker
<1>12. Absorbs(w, v)
  BY <1>4, <1>5, <1>11 DEF Absorbs
<1> QED
  BY <1>4, <1>12 DEF v

----------------------------------------------------------------------------
(* Types                                                                   *)

Authority == [available : BOOLEAN, markets : SUBSET Markets,
              pending : Seq(Input), handler : Seq(Input)]

Client == [generation : Nat, epoch : Nat,
           gaps : [Markets -> [generation : Nat, predecessor : Times \cup {None}]],
           cursor : [Markets -> Times \cup {None}]]

History == [asked : Seq(Request), answered : Seq(Nat), given : Seq(Result),
            heard : [1 .. MaxRequests -> SUBSET Trade]]

OutsideTyped == /\ now \in Times /\ venue \subseteq Trade /\ live \in Seq(Trade)
                /\ client \in Client

LineTyped == /\ authority \in Authority /\ IsFiniteSet(authority.markets)
             /\ channel \in Seq(Input) /\ Len(channel) <= ChannelCapacity
             /\ Len(authority.pending) <= PendingCapacity

WorkerTyped == worker \in Worker /\ Phased(worker)

BackTyped == /\ results \in Seq(Result) /\ Len(results) <= ResultCapacity
             /\ history \in History /\ Len(history.asked) <= MaxRequests

Typed == OutsideTyped /\ LineTyped /\ WorkerTyped /\ BackTyped

----------------------------------------------------------------------------
(* What a step along the line does                                         *)

\* The oldest input of the handler goes into the channel, waits, or is dropped
\* with everything that waits.
Moves ==
  /\ authority.handler # <<>>
  /\ authority'.handler = Tail(authority.handler)
  /\ authority'.markets = authority.markets
  /\ \/ /\ channel' = Append(channel, Head(authority.handler))
        /\ Len(channel) < ChannelCapacity
        /\ authority.pending = <<>> /\ authority'.pending = <<>>
        /\ authority'.available = authority.available
     \/ /\ channel' = channel
        /\ Len(authority.pending) < PendingCapacity
        /\ authority'.pending = Append(authority.pending, Head(authority.handler))
        /\ authority'.available = authority.available
     \/ /\ channel' = channel
        /\ authority'.pending = authority.pending \/ authority'.pending = <<>>
        /\ ~authority'.available

\* What waits longest goes into the channel, or all of it is dropped.
Flushes ==
  /\ authority.handler = <<>> /\ authority.pending # <<>>
  /\ authority'.handler = authority.handler
  /\ authority'.markets = authority.markets
  /\ \/ /\ channel' = Append(channel, Head(authority.pending))
        /\ Len(channel) < ChannelCapacity
        /\ authority'.pending = Tail(authority.pending)
        /\ authority'.available = authority.available
     \/ /\ channel' = channel
        /\ authority'.pending = <<>>
        /\ ~authority'.available

LEMMA FencedType ==
  ASSUME NEW a \in Authority
  PROVE  /\ Fenced(a) \in Authority
         /\ Fenced(a).handler = a.handler /\ Fenced(a).markets = a.markets
         /\ Fenced(a).pending = <<>> /\ ~Fenced(a).available
<1> DEFINE f == Fenced(a)
<1>1. f = [a EXCEPT !.available = FALSE, !.pending = <<>>]
  BY DEF Fenced
<1> HIDE DEF f
<1>2. /\ f.handler = a.handler /\ f.markets = a.markets
      /\ f.pending = <<>> /\ f.available = FALSE
  BY <1>1 DEF Authority
<1>3. f = [available |-> f.available, markets |-> f.markets,
           pending |-> f.pending, handler |-> f.handler]
  BY <1>1 DEF Authority
<1>4. f \in Authority
  <2>1. f.pending \in Seq(Input) /\ f.handler \in Seq(Input)
    BY <1>2 DEF Authority
  <2>2. f.available \in BOOLEAN /\ f.markets \in SUBSET Markets
    BY <1>2 DEF Authority
  <2> QED
    BY <1>3, <2>1, <2>2 DEF Authority
<1> QED
  BY <1>2, <1>4 DEF f

LEMMA EnqueueMoves ==
  ASSUME Typed, EnqueueRecoveryInput
  PROVE  Moves /\ authority' \in Authority
<1> DEFINE input == Head(authority.handler)
           a == [authority EXCEPT !.handler = Tail(@)]
<1>1. /\ authority \in Authority /\ authority.handler # <<>>
      /\ authority.handler \in Seq(Input) /\ authority.pending \in Seq(Input)
  BY DEF Typed, LineTyped, Authority, EnqueueRecoveryInput
<1>2. input \in Input /\ Tail(authority.handler) \in Seq(Input)
  BY <1>1, HeadTailProperties
<1>3. /\ a \in Authority
      /\ a.handler = Tail(authority.handler) /\ a.markets = authority.markets
      /\ a.pending = authority.pending /\ a.available = authority.available
  BY <1>1, <1>2 DEF Authority
<1>4. \/ /\ ~a.available
         /\ authority' = a /\ channel' = channel
      \/ authority' = Fenced(a) /\ channel' = channel
      \/ /\ SentDirectly(a)
         /\ channel' = Append(channel, input) /\ authority' = a
      \/ authority' = Offered(a, input) /\ channel' = channel
  BY DEF EnqueueRecoveryInput
<1> HIDE DEF a, input
<1>5. ASSUME authority' = Fenced(a), channel' = channel
      PROVE  Moves /\ authority' \in Authority
  <2>1. /\ authority' \in Authority
        /\ authority'.handler = a.handler /\ authority'.markets = a.markets
        /\ authority'.pending = <<>> /\ ~authority'.available
    BY <1>3, <1>5, FencedType
  <2>2. /\ authority'.handler = Tail(authority.handler)
        /\ authority'.markets = authority.markets
    BY <1>3, <2>1
  <2> QED
    BY <1>1, <1>5, <2>1, <2>2 DEF Moves
<1>6. CASE ~a.available /\ authority' = a /\ channel' = channel
  BY <1>1, <1>3, <1>6 DEF Moves
<1>7. CASE SentDirectly(a) /\ channel' = Append(channel, input) /\ authority' = a
  BY <1>1, <1>3, <1>7 DEF Moves, SentDirectly, input
<1>8. ASSUME authority' = [a EXCEPT !.pending = Append(@, input)],
             Len(a.pending) # PendingCapacity, channel' = channel
      PROVE  Moves /\ authority' \in Authority
  <2>1. Append(a.pending, input) \in Seq(Input)
    BY <1>1, <1>2, <1>3, AppendProperties
  <2>2. /\ authority' \in Authority
        /\ authority'.handler = a.handler /\ authority'.markets = a.markets
        /\ authority'.pending = Append(a.pending, input)
        /\ authority'.available = a.available
    BY <1>3, <1>8, <2>1 DEF Authority
  <2>3. Len(authority.pending) < PendingCapacity
    <3>1. Len(authority.pending) \in Nat /\ Len(authority.pending) <= PendingCapacity
      BY <1>1, LenProperties DEF Typed, LineTyped
    <3> QED
      BY <1>3, <1>8, <3>1, RecoveryAssumption
  <2> QED
    BY <1>1, <1>3, <1>8, <2>2, <2>3 DEF Moves, input
<1> QED
  BY <1>4, <1>5, <1>6, <1>7, <1>8 DEF Offered

LEMMA FlushMoves ==
  ASSUME Typed, FlushRecoveryInputs
  PROVE  Flushes /\ authority' \in Authority
<1>1. /\ authority \in Authority /\ authority.pending # <<>>
      /\ authority.handler = <<>>
      /\ authority.handler \in Seq(Input) /\ authority.pending \in Seq(Input)
  BY DEF Typed, LineTyped, Authority, FlushRecoveryInputs
<1>2. Tail(authority.pending) \in Seq(Input)
  BY <1>1, HeadTailProperties
<1>3. CASE authority' = Fenced(authority) /\ channel' = channel
  <2>1. /\ authority' \in Authority
        /\ authority'.handler = authority.handler
        /\ authority'.markets = authority.markets
        /\ authority'.pending = <<>> /\ ~authority'.available
    BY <1>1, <1>3 DEF Fenced, Authority
  <2> QED
    BY <1>1, <1>3, <2>1 DEF Flushes
<1>4. CASE /\ Len(channel) < ChannelCapacity
           /\ channel' = Append(channel, Head(authority.pending))
           /\ authority' = [authority EXCEPT !.pending = Tail(@)]
  <2>1. /\ authority' \in Authority
        /\ authority'.handler = authority.handler
        /\ authority'.markets = authority.markets
        /\ authority'.pending = Tail(authority.pending)
        /\ authority'.available = authority.available
    BY <1>1, <1>2, <1>4 DEF Authority
  <2> QED
    BY <1>1, <1>4, <2>1 DEF Flushes
<1> QED
  BY <1>3, <1>4 DEF FlushRecoveryInputs

LEMMA MovesTyped ==
  ASSUME Typed, Moves \/ Flushes, authority' \in Authority
  PROVE  LineTyped'
<1>1. /\ authority.handler \in Seq(Input) /\ authority.pending \in Seq(Input)
      /\ channel \in Seq(Input) /\ Len(channel) <= ChannelCapacity
      /\ Len(authority.pending) <= PendingCapacity
      /\ IsFiniteSet(authority.markets)
  BY DEF Typed, LineTyped, Authority
<1>2. IsFiniteSet(authority'.markets)
  BY <1>1 DEF Moves, Flushes
<1>3. channel' \in Seq(Input) /\ Len(channel') <= ChannelCapacity
  <2>1. CASE channel' = channel
    BY <1>1, <2>1
  <2>2. ASSUME NEW input \in Input, channel' = Append(channel, input),
               Len(channel) < ChannelCapacity
        PROVE  channel' \in Seq(Input) /\ Len(channel') <= ChannelCapacity
    <3>1. /\ Append(channel, input) \in Seq(Input)
          /\ Len(Append(channel, input)) = Len(channel) + 1
          /\ Len(channel) \in Nat
      BY <1>1, AppendProperties, LenProperties
    <3> QED
      BY <2>2, <3>1, RecoveryAssumption
  <2>3. /\ authority.handler # <<>> => Head(authority.handler) \in Input
        /\ authority.pending # <<>> => Head(authority.pending) \in Input
    BY <1>1, HeadTailProperties
  <2> QED
    BY <2>1, <2>2, <2>3 DEF Moves, Flushes
<1>4. Len(authority'.pending) <= PendingCapacity
  <2>1. Len(<<>>) = 0 /\ PendingCapacity \in Nat
    BY RecoveryAssumption
  <2>2. authority.pending # <<>> =>
          /\ Len(Tail(authority.pending)) = Len(authority.pending) - 1
          /\ Len(authority.pending) \in Nat
    BY <1>1, HeadTailProperties, LenProperties
  <2>3. authority.handler # <<>> =>
          /\ Len(authority.pending) \in Nat
          /\ Len(Append(authority.pending, Head(authority.handler)))
               = Len(authority.pending) + 1
    BY <1>1, HeadTailProperties, AppendProperties, LenProperties
  <2>4. \/ authority'.pending = authority.pending
        \/ authority'.pending = <<>>
        \/ authority.handler # <<>> /\ Len(authority.pending) < PendingCapacity
           /\ authority'.pending = Append(authority.pending, Head(authority.handler))
        \/ authority.pending # <<>> /\ authority'.pending = Tail(authority.pending)
    BY DEF Moves, Flushes
  <2> DEFINE p == authority.pending
             q == authority'.pending
             x == Head(authority.handler)
  <2> HIDE DEF p, q, x
  <2>5. \/ q = p \/ q = <<>>
        \/ authority.handler # <<>> /\ Len(p) < PendingCapacity /\ q = Append(p, x)
        \/ p # <<>> /\ q = Tail(p)
    BY <2>4 DEF p, q, x
  <2>6. Len(q) <= PendingCapacity
    BY <1>1, <2>1, <2>2, <2>3, <2>5 DEF p, x
  <2> QED
    BY <2>6 DEF q
<1> QED
  BY <1>2, <1>3, <1>4 DEF LineTyped

----------------------------------------------------------------------------
(* What an arm of the loop does                                            *)

Asking(input) == input.kind = "request"

\* An arm leaves inputs in the handler that ask for nothing.
Offers ==
  /\ authority.handler = <<>>
  /\ authority'.handler \in Seq(Input)
  /\ \A i \in DOMAIN authority'.handler : ~Asking(authority'.handler[i])
  /\ authority'.pending = authority.pending
  /\ authority'.available = authority.available

\* A request behind all others, of the present moment.
Requests(r) ==
  /\ r \in Request /\ r.number = Len(history.asked) + 1 /\ r.snapshot = now
  /\ authority.handler = <<>>
  /\ authority'.handler = <<[kind |-> "request", request |-> r]>>
  /\ authority'.pending = authority.pending
  /\ authority'.available = authority.available
  /\ history' = [history EXCEPT !.asked = Append(@, r)]

\* A result comes back; a failure fences recovery.
Admits ==
  /\ authority.handler = <<>> /\ authority'.handler = <<>>
  /\ results # <<>> /\ results' = Tail(results)
  /\ \/ /\ Head(results) \in Failure
        /\ authority'.pending = <<>> /\ ~authority'.available
        /\ history' = history
     \/ /\ Head(results) \in Reply
        /\ authority'.pending = authority.pending
        /\ authority'.available = authority.available
        /\ history' = IF authority.available
                      THEN [history EXCEPT !.answered = Append(@, Head(results).number)]
                      ELSE history

LEMMA InputTypes ==
  /\ \A trade \in Trade : [kind |-> "source", trade |-> trade] \in Input
  /\ \A r \in Request : [kind |-> "request", request |-> r] \in Input
  /\ \A m \in Markets, at \in Times : [kind |-> "time", market |-> m, at |-> at] \in Input
BY DEF Input

LEMMA RequestStep ==
  ASSUME Typed, NEW m \in Markets, ReceiveRequest(m)
  PROVE  Typed' /\ \E r \in Request : Requests(r)
<1> DEFINE r == [number |-> Len(history.asked) + 1, market |-> m,
                 generation |-> client.gaps[m].generation,
                 predecessor |-> client.gaps[m].predecessor, snapshot |-> now]
           input == [kind |-> "request", request |-> r]
<1>1. /\ authority \in Authority /\ IsFiniteSet(authority.markets)
      /\ client \in Client /\ history \in History /\ now \in Times
      /\ Len(history.asked) < MaxRequests
      /\ authority.handler = <<>>
  BY DEF Typed, LineTyped, OutsideTyped, BackTyped, ReceiveRequest, InSelect
<1>2. Len(history.asked) \in Nat /\ history.asked \in Seq(Request)
  BY <1>1, LenProperties DEF History
<1>3. client.gaps[m] \in [generation : Nat, predecessor : Times \cup {None}]
  BY <1>1 DEF Client
<1>4. r \in Request /\ r.number = Len(history.asked) + 1 /\ r.snapshot = now
  <2>1. Len(history.asked) + 1 \in 1 .. MaxRequests
    BY <1>1, <1>2, RecoveryAssumption
  <2> QED
    BY <1>1, <1>3, <2>1 DEF Request
<1>5. /\ authority' = [authority EXCEPT !.markets = @ \cup {m}, !.handler = <<input>>]
      /\ history' = [history EXCEPT !.asked = Append(@, r)]
      /\ client' = [client EXCEPT !.gaps[m] = NoGap]
  BY DEF ReceiveRequest
<1>6. input \in Input /\ input.kind = "request" /\ input.request = r
  BY <1>4, InputTypes
<1> HIDE DEF r, input
<1>7. /\ authority'.handler = <<input>> /\ authority'.pending = authority.pending
      /\ authority'.available = authority.available
      /\ authority'.markets = authority.markets \cup {m}
  BY <1>1, <1>5 DEF Authority
<1>8. authority' \in Authority
  <2>1. <<input>> \in Seq(Input)
    BY <1>6
  <2>2. authority' = [available |-> authority'.available, markets |-> authority'.markets,
                      pending |-> authority'.pending, handler |-> authority'.handler]
    BY <1>1, <1>5 DEF Authority
  <2> QED
    BY <1>1, <1>7, <2>1, <2>2 DEF Authority
<1>9. LineTyped'
  <2>1. IsFiniteSet(authority'.markets)
    BY <1>1, <1>7, FS_AddElement
  <2>2. channel' = channel
    BY DEF ReceiveRequest
  <2> QED
    BY <1>7, <1>8, <2>1, <2>2 DEF LineTyped, Typed
<1>10. OutsideTyped'
  <2>1. now' = now /\ venue' = venue /\ live' = live
    BY DEF ReceiveRequest
  <2>2. NoGap \in [generation : Nat, predecessor : Times \cup {None}]
    BY DEF NoGap
  <2>3. client' \in Client
    BY <1>1, <1>5, <2>2 DEF Client
  <2> QED
    BY <2>1, <2>3 DEF OutsideTyped, Typed
<1>11. BackTyped'
  <2>1. results' = results
    BY DEF ReceiveRequest
  <2>2. /\ Append(history.asked, r) \in Seq(Request)
        /\ Len(Append(history.asked, r)) = Len(history.asked) + 1
    BY <1>2, <1>4, AppendProperties
  <2>3. history' \in History /\ history'.asked = Append(history.asked, r)
    BY <1>1, <1>5, <2>2 DEF History
  <2>4. Len(history'.asked) <= MaxRequests
    BY <1>1, <1>2, <2>2, <2>3, RecoveryAssumption
  <2> QED
    BY <2>1, <2>3, <2>4 DEF BackTyped, Typed
<1>12. WorkerTyped'
  <2>1. worker' = worker
    BY DEF ReceiveRequest
  <2> QED
    BY <2>1 DEF WorkerTyped, Phased, Typed
<1>13. Requests(r)
  BY <1>1, <1>4, <1>5, <1>6, <1>7 DEF Requests, input
<1> QED
  BY <1>4, <1>9, <1>10, <1>11, <1>12, <1>13 DEF Typed

\* What is left of the authority when an arm leaves inputs in its handler.
LEMMA OfferTyped ==
  ASSUME Typed, InSelect, NEW inputs \in Seq(Input),
         authority' = [authority EXCEPT !.handler = inputs],
         channel' = channel,
         \A i \in DOMAIN inputs : ~Asking(inputs[i])
  PROVE  LineTyped' /\ Offers
<1>1. authority \in Authority
  BY DEF Typed, LineTyped
<1>2. /\ authority'.handler = inputs /\ authority'.pending = authority.pending
      /\ authority'.available = authority.available
      /\ authority'.markets = authority.markets
      /\ authority' \in Authority
  BY <1>1 DEF Authority
<1> QED
  BY <1>2 DEF LineTyped, Typed, Offers, InSelect

LEMMA CommitStep ==
  ASSUME Typed, CommitBatch
  PROVE  Typed' /\ Offers
<1> DEFINE inputs == [i \in DOMAIN live |-> [kind |-> "source", trade |-> live[i]]]
<1>1. live \in Seq(Trade) /\ DOMAIN live = 1 .. Len(live) /\ Len(live) \in Nat
  BY LenProperties DEF Typed, OutsideTyped
<1>2. \A i \in 1 .. Len(live) : live[i] \in Trade
  BY <1>1, ElementOfSeq
<1>3. \A i \in DOMAIN inputs : inputs[i] \in Input /\ ~Asking(inputs[i])
  BY <1>1, <1>2, InputTypes DEF Asking
<1>4. inputs \in Seq(Input)
  BY <1>1, <1>3
<1>5. authority' = [authority EXCEPT !.handler = inputs] /\ InSelect /\ channel' = channel
  BY DEF CommitBatch
<1> HIDE DEF inputs
<1>6. LineTyped' /\ Offers
  BY <1>3, <1>4, <1>5, OfferTyped
<1>7. /\ now' = now /\ venue' = venue /\ client' = client /\ live' = <<>>
      /\ worker' = worker /\ results' = results /\ history' = history
  BY DEF CommitBatch
<1>8. OutsideTyped' /\ BackTyped' /\ WorkerTyped'
  BY <1>7 DEF OutsideTyped, BackTyped, WorkerTyped, Phased, Typed
<1> QED
  BY <1>6, <1>8 DEF Typed

LEMMA TickStep ==
  ASSUME Typed, RecoveryClockTick
  PROVE  Typed' /\ Offers
<1> DEFINE markets == authority.markets
           Ticks == [kind : {"time"}, market : markets, at : {now}]
           n == Cardinality(markets)
           inputs == CHOOSE s \in [1 .. n -> Ticks] : Listed(markets, s)
<1>1. IsFiniteSet(markets) /\ markets \subseteq Markets /\ now \in Times
  BY DEF Typed, LineTyped, OutsideTyped, Authority
<1>2. n \in Nat /\ ExistsBijection(1 .. n, markets)
  BY <1>1, FS_CardinalityType
<1>3. \E s \in [1 .. n -> Ticks] : Listed(markets, s)
  <2>1. PICK f : f \in Bijection(1 .. n, markets)
    BY <1>2 DEF ExistsBijection
  <2>2. f \in [1 .. n -> markets] /\ \A m \in markets : \E i \in 1 .. n : f[i] = m
    BY <2>1 DEF Bijection, Injection, Surjection
  <2> DEFINE s == [i \in 1 .. n |-> [kind |-> "time", market |-> f[i], at |-> now]]
  <2>3. s \in [1 .. n -> Ticks]
    BY <2>2
  <2>4. Listed(markets, s)
    BY <2>2 DEF Listed
  <2> QED
    BY <2>3, <2>4
<1>4. inputs \in [1 .. n -> Ticks]
  BY <1>3
<1>5. \A tick \in Ticks : tick \in Input /\ ~Asking(tick)
  BY <1>1 DEF Input, Asking
<1>6. authority' = [authority EXCEPT !.handler = inputs] /\ InSelect /\ channel' = channel
  BY DEF RecoveryClockTick
<1> HIDE DEF inputs, Ticks, n
<1>7. inputs \in Seq(Input) /\ \A i \in DOMAIN inputs : ~Asking(inputs[i])
  BY <1>2, <1>4, <1>5
<1>8. LineTyped' /\ Offers
  BY <1>6, <1>7, OfferTyped
<1>9. /\ now' = now /\ venue' = venue /\ client' = client /\ live' = live
      /\ worker' = worker /\ results' = results /\ history' = history
  BY DEF RecoveryClockTick
<1>10. OutsideTyped' /\ BackTyped' /\ WorkerTyped'
  BY <1>9 DEF OutsideTyped, BackTyped, WorkerTyped, Phased, Typed
<1> QED
  BY <1>8, <1>10 DEF Typed

LEMMA AdmitStep ==
  ASSUME Typed, AdmitRecoveryOutput
  PROVE  Typed' /\ Admits
<1> DEFINE result == Head(results)
           a == [authority EXCEPT !.markets = @ \ {result.market}]
<1>1. /\ authority \in Authority /\ IsFiniteSet(authority.markets)
      /\ results \in Seq(Result) /\ results # <<>> /\ history \in History
      /\ authority.handler = <<>>
  BY DEF Typed, LineTyped, BackTyped, AdmitRecoveryOutput, InSelect
<1>2. /\ result \in Result /\ Tail(results) \in Seq(Result)
      /\ Len(Tail(results)) = Len(results) - 1 /\ Len(results) \in Nat
  BY <1>1, HeadTailProperties, LenProperties
<1>3. /\ result.kind = "failed" <=> result \in Failure
      /\ result.kind = "answer" <=> result \in Reply
      /\ result \in Failure \/ result \in Reply
  BY <1>2 DEF Result, Failure, Reply
<1>4. /\ authority' = IF result.kind = "failed" THEN Fenced(a) ELSE a
      /\ history' = IF Admitted(result)
                    THEN [history EXCEPT !.answered = Append(@, result.number)]
                    ELSE history
      /\ results' = Tail(results)
      /\ now' = now /\ venue' = venue /\ client' = client /\ live' = live
      /\ channel' = channel /\ worker' = worker
  BY DEF AdmitRecoveryOutput
<1>5. a = [authority EXCEPT !.markets = @ \ {result.market}]
  OBVIOUS
<1> HIDE DEF a, result
<1>6. /\ a \in Authority /\ a.handler = <<>> /\ a.pending = authority.pending
      /\ a.available = authority.available
      /\ a.markets = authority.markets \ {result.market}
  BY <1>1, <1>5 DEF Authority
<1>7. /\ authority' \in Authority /\ authority'.handler = <<>>
      /\ authority'.markets = authority.markets \ {result.market}
      /\ result \in Failure => authority'.pending = <<>> /\ ~authority'.available
      /\ result \in Reply => /\ authority'.pending = authority.pending
                             /\ authority'.available = authority.available
  <2>1. CASE result.kind = "failed"
    <3>1. authority' = Fenced(a) /\ ~(result \in Reply)
      BY <1>4, <2>1 DEF Reply
    <3> QED
      BY <1>6, <3>1, FencedType
  <2>2. CASE result.kind # "failed"
    BY <1>3, <1>4, <1>6, <2>2
  <2> QED
    BY <2>1, <2>2
<1>8. LineTyped'
  <2>1. IsFiniteSet(authority'.markets)
    <3>1. IsFiniteSet(authority.markets \ {result.market})
      BY <1>1, FS_RemoveElement
    <3> QED
      BY <1>7, <3>1
  <2>2. Len(authority'.pending) <= PendingCapacity
    <3>1. Len(<<>>) = 0 /\ PendingCapacity \in Nat
      BY RecoveryAssumption
    <3> QED
      BY <1>3, <1>7, <3>1 DEF Typed, LineTyped
  <2> QED
    BY <1>4, <1>7, <2>1, <2>2 DEF Typed, LineTyped
<1>9. BackTyped'
  <2>1. Len(results') <= ResultCapacity
    BY <1>2, <1>4, RecoveryAssumption DEF Typed, BackTyped
  <2>2. history' \in History /\ history'.asked = history.asked
    <3>1. CASE Admitted(result)
      <4>1. result.number \in Nat
        BY <1>3, <3>1, RecoveryAssumption DEF Admitted, Reply
      <4>2. Append(history.answered, result.number) \in Seq(Nat)
        BY <1>1, <4>1, AppendProperties DEF History
      <4> QED
        BY <1>1, <1>4, <3>1, <4>2 DEF History
    <3>2. CASE ~Admitted(result)
      BY <1>1, <1>4, <3>2
    <3> QED
      BY <3>1, <3>2
  <2> QED
    BY <1>2, <1>4, <2>1, <2>2 DEF Typed, BackTyped
<1>10. OutsideTyped' /\ WorkerTyped'
  BY <1>4 DEF OutsideTyped, WorkerTyped, Phased, Typed
<1>11. Admits
  BY <1>1, <1>3, <1>4, <1>7 DEF Admits, Admitted, result
<1> QED
  BY <1>8, <1>9, <1>10, <1>11 DEF Typed

----------------------------------------------------------------------------
(* What a step of the worker does                                          *)

\* The oldest input of the channel is absorbed, and the worker takes a turn.
\* A request it refuses is a failure, and nothing is absorbed.
Receives(input, u) ==
  /\ worker.phase = "waiting" /\ channel # <<>>
  /\ input = Head(channel) /\ input \in Input /\ channel' = Tail(channel)
  /\ Absorbs(worker, u)
  /\ Turn(u, worker') \/ Fails(u, worker')
  /\ \/ /\ input.kind = "source" /\ input.trade \in Trade
        /\ u = RetainCommittedSource(worker, input.trade) /\ u.queue = worker.queue
        /\ history' = [history EXCEPT !.heard =
             [k \in DOMAIN @ |->
                IF \E r \in Waiting(worker, input.trade.market) : r.number = k
                THEN @[k] \cup {input.trade} ELSE @[k]]]
     \/ /\ input.kind = "request" /\ input.request \in Request
        /\ \/ u.queue = Append(worker.queue, input.request)
           \/ u.queue = worker.queue /\ Fails(u, worker')
        /\ history' = history
     \/ /\ input.kind = "time" /\ u.queue = worker.queue
        /\ history' = history

\* The fetch of the head ends.
FetchEnds ==
  /\ worker.phase = "fetching" /\ worker.queue # <<>>
  /\ Fails(worker, worker') \/ Replies(worker, worker')

\* The answer goes back.
Delivers ==
  /\ worker.phase = "sending" /\ worker.answer \in Result
  /\ results' = Append(results, worker.answer)
  /\ worker' \in Worker /\ worker'.answer = NoAnswer
  /\ worker'.phase = IF worker.answer.kind = "failed" THEN "ended" ELSE "waiting"
  /\ worker'.queue = worker.queue /\ worker'.evidence = worker.evidence
  /\ worker'.candles = worker.candles
  /\ history' = [history EXCEPT !.given = Append(@, worker.answer)]

\* A turn leaves the memory bounded and an answer exactly while it is sent.
LEMMA TurnPhased ==
  ASSUME NEW w \in Worker, NEW v, Turn(w, v) \/ Fails(w, v),
         Phased(w), w.phase # "sending"
  PROVE  v \in Worker /\ Phased(v)
<1>1. w.answer = NoAnswer
  BY DEF Phased
<1>2. CASE v = w
  BY <1>2
<1>3. CASE Fetches(w, v)
  BY <1>1, <1>3 DEF Fetches, Phased
<1>4. CASE Fails(w, v)
  <2>1. v.answer # NoAnswer
    BY <1>4 DEF Fails, NoAnswer
  <2> QED
    BY <1>4, <2>1 DEF Fails, Phased
<1>5. CASE Replies(w, v)
  <2>1. v \in Worker /\ v.phase = "sending" /\ v.answer # NoAnswer
    BY <1>5 DEF Replies, Leaves, Reply, NoAnswer
  <2>2. ASSUME NEW m \in Markets PROVE Bounded(v.evidence[m])
    <3>1. /\ v.evidence[m].trades \subseteq w.evidence[m].trades
          /\ IsFiniteSet(w.evidence[m].trades)
          /\ Cardinality(w.evidence[m].trades) <= RetainedTrades
      BY <1>5 DEF Replies, Leaves, Phased, Bounded
    <3>2. /\ IsFiniteSet(v.evidence[m].trades)
          /\ Cardinality(v.evidence[m].trades) <= Cardinality(w.evidence[m].trades)
      BY <3>1, FS_Subset
    <3>3. /\ Cardinality(v.evidence[m].trades) \in Nat
          /\ Cardinality(w.evidence[m].trades) \in Nat
      BY <3>1, <3>2, FS_CardinalityType
    <3> QED
      BY <3>1, <3>2, <3>3, RecoveryAssumption DEF Bounded
  <2> QED
    BY <2>1, <2>2 DEF Phased
<1> QED
  BY <1>2, <1>3, <1>4, <1>5 DEF Turn

LEMMA ReceiveStep ==
  ASSUME Typed, WorkerReceives
  PROVE  Typed' /\ \E input \in Input, u \in Worker : Receives(input, u)
<1> DEFINE input == Head(channel)
<1>1. /\ worker \in Worker /\ Phased(worker) /\ worker.phase = "waiting"
      /\ channel \in Seq(Input) /\ channel # <<>> /\ history \in History
  BY DEF Typed, LineTyped, WorkerTyped, BackTyped, WorkerReceives
<1>2. /\ input \in Input /\ Tail(channel) \in Seq(Input)
      /\ Len(Tail(channel)) = Len(channel) - 1 /\ Len(channel) \in Nat
  BY <1>1, HeadTailProperties, LenProperties
<1>3. /\ input.kind = "source" => input.trade \in Trade
      /\ input.kind = "request" => input.request \in Request
      /\ input.kind = "time" => input.market \in Markets /\ input.at \in Times
  BY <1>2 DEF Input
<1>4. /\ channel' = Tail(channel)
      /\ now' = now /\ venue' = venue /\ client' = client /\ live' = live
      /\ authority' = authority /\ results' = results
  BY DEF WorkerReceives
<1> DEFINE heard == [history EXCEPT !.heard =
             [k \in DOMAIN @ |->
                IF \E r \in Waiting(worker, input.trade.market) : r.number = k
                THEN @[k] \cup {input.trade} ELSE @[k]]]
<1>5. \/ /\ input.kind = "source"
         /\ worker' = Processed(RetainCommittedSource(worker, input.trade))
         /\ history' = heard
      \/ /\ input.kind = "request" /\ Acceptable(worker, input.request)
         /\ worker' = Processed(EnqueueRequest(worker, input.request))
         /\ history' = history
      \/ /\ input.kind = "request"
         /\ worker' = Failed(worker, input.request.market, "request refused")
         /\ history' = history
      \/ /\ input.kind = "time"
         /\ worker' = Processed(AdvanceTime(worker, input.market, input.at))
         /\ history' = history
  BY DEF WorkerReceives
<1> HIDE DEF input
<1>6. \E u \in Worker : Receives(input, u)
  <2>1. CASE /\ input.kind = "source"
             /\ worker' = Processed(RetainCommittedSource(worker, input.trade))
             /\ history' = heard
    <3> DEFINE u == RetainCommittedSource(worker, input.trade)
    <3>1. Absorbs(worker, u) /\ u.queue = worker.queue
      BY <1>1, <1>3, <2>1, RetainedAbsorbs
    <3>2. u \in Worker /\ Turn(u, worker')
      BY <2>1, <3>1, ProcessedTurns DEF Absorbs
    <3>3. Receives(input, u)
      <4>1. u = RetainCommittedSource(worker, input.trade)
        OBVIOUS
      <4> HIDE DEF u
      <4> QED
        BY <1>1, <1>2, <1>3, <1>4, <2>1, <3>1, <3>2, <4>1 DEF Receives, input
    <3> QED
      BY <3>2, <3>3
  <2>2. CASE /\ input.kind = "request" /\ Acceptable(worker, input.request)
             /\ worker' = Processed(EnqueueRequest(worker, input.request))
             /\ history' = history
    <3> DEFINE u == EnqueueRequest(worker, input.request)
    <3>1. Absorbs(worker, u) /\ u.queue = Append(worker.queue, input.request)
      BY <1>1, <1>3, <2>2, RequestAbsorbs
    <3>2. u \in Worker /\ Turn(u, worker')
      BY <2>2, <3>1, ProcessedTurns DEF Absorbs
    <3> HIDE DEF u
    <3>3. Receives(input, u)
      BY <1>1, <1>2, <1>3, <1>4, <2>2, <3>1, <3>2 DEF Receives, input
    <3> QED
      BY <3>2, <3>3
  <2>3. CASE /\ input.kind = "request"
             /\ worker' = Failed(worker, input.request.market, "request refused")
             /\ history' = history
    <3>1. "request refused" \in Causes /\ input.request.market \in Markets
      BY <1>3, <2>3 DEF Causes, Request
    <3>2. Fails(worker, worker')
      BY <1>1, <2>3, <3>1, FailedFails
    <3>3. Absorbs(worker, worker)
      BY <1>1 DEF Absorbs
    <3>4. Receives(input, worker)
      BY <1>1, <1>2, <1>3, <1>4, <2>3, <3>2, <3>3 DEF Receives, input
    <3> QED
      BY <1>1, <3>4
  <2>4. CASE /\ input.kind = "time"
             /\ worker' = Processed(AdvanceTime(worker, input.market, input.at))
             /\ history' = history
    <3> DEFINE u == AdvanceTime(worker, input.market, input.at)
    <3>1. Absorbs(worker, u) /\ u.queue = worker.queue
      BY <1>1, <1>3, <2>4, TimeAbsorbs
    <3>2. u \in Worker /\ Turn(u, worker')
      BY <2>4, <3>1, ProcessedTurns DEF Absorbs
    <3> HIDE DEF u
    <3>3. Receives(input, u)
      BY <1>1, <1>2, <1>3, <1>4, <2>4, <3>1, <3>2 DEF Receives, input
    <3> QED
      BY <3>2, <3>3
  <2> QED
    BY <1>5, <2>1, <2>2, <2>3, <2>4
<1>7. WorkerTyped'
  <2>1. PICK u \in Worker : Receives(input, u)
    BY <1>6
  <2>2. Phased(u) /\ u.phase # "sending"
    BY <1>1, <2>1 DEF Receives, Absorbs, Phased
  <2>3. worker' \in Worker /\ Phased(worker')
    BY <2>1, <2>2, TurnPhased DEF Receives
  <2> QED
    BY <2>3 DEF WorkerTyped, Phased
<1>8. LineTyped'
  BY <1>2, <1>4, RecoveryAssumption DEF Typed, LineTyped
<1>9. BackTyped'
  <2>1. CASE input.kind = "source" /\ history' = heard
    <3>1. history.heard \in [1 .. MaxRequests -> SUBSET Trade]
      BY <1>1 DEF History
    <3>2. /\ history'.heard \in [1 .. MaxRequests -> SUBSET Trade]
          /\ history'.asked = history.asked
          /\ history' \in History
      BY <1>1, <1>3, <2>1, <3>1 DEF History
    <3> QED
      BY <1>4, <3>2 DEF Typed, BackTyped
  <2>2. CASE history' = history
    BY <1>4, <2>2 DEF Typed, BackTyped
  <2> QED
    BY <1>5, <2>1, <2>2
<1>10. OutsideTyped'
  BY <1>4 DEF Typed, OutsideTyped
<1> QED
  BY <1>2, <1>6, <1>7, <1>8, <1>9, <1>10 DEF Typed

LEMMA FetchStep ==
  ASSUME Typed, FetchAnswered
  PROVE  Typed' /\ FetchEnds
<1>1. worker \in Worker /\ Phased(worker) /\ worker.phase = "fetching"
  BY DEF Typed, WorkerTyped, FetchAnswered
<1>2. worker.queue # <<>>
  BY <1>1 DEF Phased
<1>3. Fails(worker, worker') \/ Replies(worker, worker')
  <2>1. CASE worker' = Reconciled(worker)
    BY <1>1, <1>2, <2>1, ReconciledTurns
  <2>2. CASE worker' = CompleteUnavailable(worker, "no candles")
    <3>1. "no candles" \in Reasons
      BY DEF Reasons
    <3> QED
      BY <1>1, <1>2, <2>2, <3>1, UnavailableTurns
  <2> QED
    BY <2>1, <2>2 DEF FetchAnswered, Fetched
<1>4. worker' \in Worker /\ Phased(worker')
  <2>1. Turn(worker, worker')
    BY <1>3 DEF Turn
  <2> QED
    BY <1>1, <2>1, TurnPhased
<1>5. /\ now' = now /\ venue' = venue /\ client' = client /\ live' = live
      /\ authority' = authority /\ channel' = channel /\ results' = results
      /\ history' = history
  BY DEF FetchAnswered
<1>6. OutsideTyped' /\ LineTyped' /\ BackTyped'
  BY <1>5 DEF Typed, OutsideTyped, LineTyped, BackTyped
<1>7. WorkerTyped'
  BY <1>4 DEF WorkerTyped, Phased
<1> QED
  BY <1>1, <1>2, <1>3, <1>6, <1>7 DEF FetchEnds, Typed

LEMMA DeliverStep ==
  ASSUME Typed, WorkerDelivers
  PROVE  Typed' /\ Delivers
<1>1. /\ worker \in Worker /\ Phased(worker) /\ worker.phase = "sending"
      /\ results \in Seq(Result) /\ Len(results) < ResultCapacity
      /\ history \in History
  BY DEF Typed, WorkerTyped, BackTyped, WorkerDelivers
<1>2. worker.answer \in Result
  BY <1>1 DEF Phased, Worker
<1>3. /\ worker' = [worker EXCEPT !.answer = NoAnswer,
           !.phase = IF worker.answer.kind = "failed" THEN "ended" ELSE "waiting"]
      /\ results' = Append(results, worker.answer)
      /\ history' = [history EXCEPT !.given = Append(@, worker.answer)]
      /\ now' = now /\ venue' = venue /\ client' = client /\ live' = live
      /\ authority' = authority /\ channel' = channel
  BY DEF WorkerDelivers
<1>4. /\ worker'.answer = NoAnswer
      /\ worker'.phase = IF worker.answer.kind = "failed" THEN "ended" ELSE "waiting"
      /\ worker'.queue = worker.queue /\ worker'.evidence = worker.evidence
      /\ worker'.candles = worker.candles
      /\ worker'.lastGeneration = worker.lastGeneration
  BY <1>1, <1>3 DEF Worker
<1>5. worker' \in Worker
  <2>1. worker' = [phase |-> worker'.phase, queue |-> worker'.queue,
                   answer |-> worker'.answer,
                   lastGeneration |-> worker'.lastGeneration,
                   evidence |-> worker'.evidence, candles |-> worker'.candles]
    BY <1>1, <1>3 DEF Worker
  <2> QED
    BY <1>1, <1>4, <2>1 DEF Worker
<1>6. WorkerTyped'
  BY <1>1, <1>4, <1>5 DEF WorkerTyped, Phased
<1>7. /\ results' \in Seq(Result) /\ Len(results') = Len(results) + 1
      /\ Len(results) \in Nat
  BY <1>1, <1>2, <1>3, AppendProperties, LenProperties
<1>8. BackTyped'
  <2>1. Append(history.given, worker.answer) \in Seq(Result)
    BY <1>1, <1>2, AppendProperties DEF History
  <2>2. history' \in History /\ history'.asked = history.asked
    BY <1>1, <1>3, <2>1 DEF History
  <2>3. Len(results') <= ResultCapacity
    BY <1>1, <1>7, RecoveryAssumption
  <2> QED
    BY <1>7, <2>2, <2>3 DEF Typed, BackTyped
<1>9. OutsideTyped' /\ LineTyped'
  BY <1>3 DEF Typed, OutsideTyped, LineTyped
<1> QED
  BY <1>1, <1>2, <1>3, <1>4, <1>5, <1>6, <1>8, <1>9 DEF Delivers, Typed

----------------------------------------------------------------------------
(* Every step                                                              *)

\* A step of the exchange, its feed or the clock.
Passes == /\ now <= now'
          /\ UNCHANGED <<authority, channel, worker, results, history>>

LEMMA OutsideStep ==
  ASSUME Typed, TimePasses \/ Environment \/ UNCHANGED vars
  PROVE  Typed' /\ Passes
<1>1. /\ now \in Times /\ venue \subseteq Trade /\ live \in Seq(Trade)
      /\ client \in Client /\ now \in Nat /\ Times \subseteq Nat
  BY RecoveryAssumption DEF Typed, OutsideTyped, Times
<1>2. CASE TimePasses
  <2>1. now' \in Times /\ now <= now'
    BY <1>1, <1>2, RecoveryAssumption DEF TimePasses, Times
  <2> QED
    BY <1>1, <1>2, <2>1
       DEF TimePasses, Typed, OutsideTyped, LineTyped, WorkerTyped, Phased,
           BackTyped, Passes
<1>3. ASSUME NEW m \in Markets, VenueTrades(m) PROVE Typed' /\ Passes
  <2> DEFINE trade == [market |-> m, time |-> now]
  <2>1. trade \in Trade
    BY <1>1 DEF Trade
  <2>2. /\ venue' = venue \cup {trade} /\ now' = now
        /\ \/ /\ live' = Append(live, trade)
              /\ client' = [client EXCEPT !.cursor[m] = now]
           \/ live' = live /\ client' = client
        /\ authority' = authority /\ channel' = channel /\ worker' = worker
        /\ results' = results /\ history' = history
    BY <1>3 DEF VenueTrades
  <2> HIDE DEF trade
  <2>3. live' \in Seq(Trade)
    BY <1>1, <2>1, <2>2, AppendProperties
  <2>4. client' \in Client
    <3>1. client \in Client /\ now \in Times
      BY <1>1
    <3>2. client.cursor \in [Markets -> Times \cup {None}]
      BY <3>1 DEF Client
    <3>3. [client.cursor EXCEPT ![m] = now] \in [Markets -> Times \cup {None}]
      BY <3>1, <3>2
    <3>4. [client EXCEPT !.cursor[m] = now] \in Client
      BY <3>1, <3>3 DEF Client
    <3> QED
      BY <2>2, <3>1, <3>4
  <2>5. OutsideTyped'
    BY <1>1, <2>1, <2>2, <2>3, <2>4 DEF OutsideTyped
  <2> QED
    BY <1>1, <2>2, <2>5
       DEF Typed, LineTyped, WorkerTyped, Phased, BackTyped, Passes
<1>4. ASSUME NEW c \in Client, client' = c,
             UNCHANGED <<now, venue, live, authority, channel, worker, results, history>>
      PROVE  Typed' /\ Passes
  BY <1>1, <1>4 DEF Typed, OutsideTyped, LineTyped, WorkerTyped, Phased, BackTyped,
                    Passes
<1>5. CASE Disconnect
  <2> DEFINE affected == {m \in Markets : client.gaps[m] = NoGap}
             gaps == [m \in Markets |->
                        IF m \notin affected THEN client.gaps[m]
                        ELSE [generation |-> client.generation + 1,
                              predecessor |-> client.cursor[m]]]
  <2>1. client' = [client EXCEPT !.generation = @ + 1, !.gaps = gaps]
    BY <1>5 DEF Disconnect
  <2>2. gaps \in [Markets -> [generation : Nat, predecessor : Times \cup {None}]]
    BY <1>1 DEF Client
  <2> HIDE DEF gaps
  <2>3. client' = [generation |-> client'.generation, epoch |-> client'.epoch,
                   gaps |-> client'.gaps, cursor |-> client'.cursor]
    BY <1>1, <2>1 DEF Client
  <2>4. /\ client'.generation = client.generation + 1 /\ client'.gaps = gaps
        /\ client'.epoch = client.epoch /\ client'.cursor = client.cursor
    BY <1>1, <2>1 DEF Client
  <2>5. client' \in Client
    BY <1>1, <2>2, <2>3, <2>4 DEF Client
  <2> QED
    BY <1>4, <1>5, <2>5 DEF Disconnect
<1>6. CASE NewEpoch
  <2>1. client' = FreshClient(client.epoch + 1)
    BY <1>6 DEF NewEpoch
  <2>2. NoGap \in [generation : Nat, predecessor : Times \cup {None}]
    BY DEF NoGap
  <2>3. client' \in Client
    BY <1>1, <2>1, <2>2 DEF Client, FreshClient
  <2> QED
    BY <1>4, <1>6, <2>3 DEF NewEpoch
<1>7. CASE UNCHANGED vars
  BY <1>1, <1>4, <1>7 DEF vars
<1> QED
  BY <1>2, <1>3, <1>5, <1>6, <1>7, RecoveryAssumption DEF Environment

\* A step is of one of eight kinds, and keeps every type.
LEMMA StepKinds ==
  ASSUME Typed, [Next]_vars
  PROVE  /\ Typed'
         /\ \/ /\ Moves \/ Flushes \/ (Offers /\ channel' = channel)
               /\ UNCHANGED <<now, worker, results, history>>
            \/ /\ \E r \in Request : Requests(r)
               /\ UNCHANGED <<now, channel, worker, results>>
            \/ Admits /\ UNCHANGED <<now, channel, worker>>
            \/ /\ \E input \in Input, u \in Worker : Receives(input, u)
               /\ UNCHANGED <<now, authority, results>>
            \/ FetchEnds /\ UNCHANGED <<now, authority, channel, results, history>>
            \/ Delivers /\ UNCHANGED <<now, authority, channel>>
            \/ Passes
<1>1. CASE EnqueueRecoveryInput
  <2>1. Moves /\ authority' \in Authority
    BY <1>1, EnqueueMoves
  <2>2. UNCHANGED <<now, venue, client, live, worker, results, history>>
    BY <1>1 DEF EnqueueRecoveryInput
  <2>3. Typed'
    <3>1. LineTyped'
      BY <2>1, MovesTyped
    <3> QED
      BY <2>2, <3>1 DEF Typed, OutsideTyped, WorkerTyped, Phased, BackTyped
  <2> QED
    BY <2>1, <2>2, <2>3
<1>2. CASE FlushRecoveryInputs
  <2>1. Flushes /\ authority' \in Authority
    BY <1>2, FlushMoves
  <2>2. UNCHANGED <<now, venue, client, live, worker, results, history>>
    BY <1>2 DEF FlushRecoveryInputs
  <2>3. Typed'
    <3>1. LineTyped'
      BY <2>1, MovesTyped
    <3> QED
      BY <2>2, <3>1 DEF Typed, OutsideTyped, WorkerTyped, Phased, BackTyped
  <2> QED
    BY <2>1, <2>2, <2>3
<1>3. ASSUME NEW m \in Markets, ReceiveRequest(m)
      PROVE  /\ Typed' /\ \E r \in Request : Requests(r)
             /\ UNCHANGED <<now, channel, worker, results>>
  <2>1. Typed' /\ \E r \in Request : Requests(r)
    BY <1>3, RequestStep
  <2>2. UNCHANGED <<now, channel, worker, results>>
    BY <1>3 DEF ReceiveRequest
  <2> QED
    BY <2>1, <2>2
<1>4. CASE CommitBatch
  BY <1>4, CommitStep DEF CommitBatch
<1>5. CASE RecoveryClockTick
  BY <1>5, TickStep DEF RecoveryClockTick
<1>6. CASE AdmitRecoveryOutput
  BY <1>6, AdmitStep DEF AdmitRecoveryOutput
<1>7. CASE WorkerReceives
  BY <1>7, ReceiveStep DEF WorkerReceives
<1>8. CASE FetchAnswered
  BY <1>8, FetchStep DEF FetchAnswered
<1>9. CASE WorkerDelivers
  BY <1>9, DeliverStep DEF WorkerDelivers
<1>10. CASE TimePasses \/ Environment \/ UNCHANGED vars
  BY <1>10, OutsideStep
<1> QED
  BY <1>1, <1>2, <1>3, <1>4, <1>5, <1>6, <1>7, <1>8, <1>9, <1>10
     DEF Next, WorkerStep

LEMMA InitTyped == Init => Typed
<1> SUFFICES ASSUME Init PROVE Typed
  OBVIOUS
<1>1. OutsideTyped
  <2>1. NoGap \in [generation : Nat, predecessor : Times \cup {None}]
    BY DEF NoGap
  <2> QED
    BY <2>1, RecoveryAssumption DEF Init, OutsideTyped, Client, FreshClient, Times
<1>2. LineTyped
  BY RecoveryAssumption, FS_EmptySet DEF Init, LineTyped, Authority
<1>3. WorkerTyped
  <2>1. NoEvidence \in Evidence /\ Bounded(NoEvidence)
    BY RecoveryAssumption, FS_EmptySet DEF NoEvidence, Evidence, Bounded, None
  <2>2. worker \in Worker
    BY <2>1 DEF Init, Worker, CandleState
  <2>3. Phased(worker)
    BY <2>1 DEF Init, Phased
  <2> QED
    BY <2>2, <2>3 DEF WorkerTyped
<1>4. BackTyped
  BY RecoveryAssumption DEF Init, BackTyped, History
<1> QED
  BY <1>1, <1>2, <1>3, <1>4 DEF Typed

LEMMA TypesHold == Spec => []Typed
<1>1. Init => Typed
  BY InitTyped
<1>2. Typed /\ [Next]_vars => Typed'
  BY StepKinds
<1> QED
  BY <1>1, <1>2, PTL DEF Spec

\* Everything has its type and every queue, channel and memory keeps its bound.
THEOREM RecoveryTyped == Spec => []RecoveryTypeOK
<1>1. Typed => RecoveryTypeOK
  <2> SUFFICES ASSUME Typed PROVE RecoveryTypeOK
    OBVIOUS
  <2>1. /\ channel \in Seq(Input) /\ authority.pending \in Seq(Input)
        /\ worker.queue \in Seq(Request) /\ results \in Seq(Result)
        /\ worker \in Worker /\ Phased(worker)
        /\ authority.available \in BOOLEAN /\ authority.markets \subseteq Markets
    BY DEF Typed, LineTyped, WorkerTyped, BackTyped, Authority, Worker
  <2>2. /\ \A i \in DOMAIN channel : channel[i] \in Input
        /\ \A i \in DOMAIN authority.pending : authority.pending[i] \in Input
        /\ \A i \in DOMAIN worker.queue : worker.queue[i] \in Request
        /\ \A i \in DOMAIN results : results[i] \in Result
    BY <2>1, ElementOfSeq, LenProperties
  <2>3. \A a \in Result : IsAnswer(a)
    BY DEF Result, Reply, Failure, IsAnswer
  <2>4. \A m \in Markets : Cardinality(worker.evidence[m].trades) <= RetainedTrades
    BY <2>1 DEF Phased, Bounded
  <2>5. /\ worker.phase \in {"waiting", "fetching", "sending", "ended"}
        /\ worker.phase = "fetching" => worker.queue # <<>>
        /\ worker.phase = "sending" <=> worker.answer # NoAnswer
    BY <2>1 DEF Phased, Worker
  <2>6. /\ now \in Times /\ venue \subseteq Trade /\ live \in Seq(Trade)
        /\ Len(channel) <= ChannelCapacity /\ Len(results) <= ResultCapacity
        /\ Len(authority.pending) <= PendingCapacity
    BY DEF Typed, OutsideTyped, LineTyped, BackTyped
  <2> QED
    BY <2>1, <2>2, <2>3, <2>4, <2>5, <2>6 DEF RecoveryTypeOK
<1> QED
  BY <1>1, TypesHold, PTL

----------------------------------------------------------------------------
(* The line of inputs and the queue behind it                              *)

RequestsOf(s) == {s[i].request : i \in {j \in DOMAIN s : Asking(s[j])}}

\* What an input adds to the requests of the sequence it stands in.
Asked(input) == IF Asking(input) THEN {input.request} ELSE {}

Sorted(s) == \A i, j \in DOMAIN s :
               i < j /\ Asking(s[i]) /\ Asking(s[j])
                 => s[i].request.number < s[j].request.number

Before(A, B) == \A r \in A, q \in B : r.number < q.number

Rising(q) == \A i, j \in DOMAIN q : i < j => q[i].number < q[j].number

LEMMA EmptyRequests == RequestsOf(<<>>) = {} /\ Sorted(<<>>)
BY DEF RequestsOf, Sorted

LEMMA AppendRequests ==
  ASSUME NEW s \in Seq(Input), NEW x \in Input
  PROVE  /\ RequestsOf(Append(s, x)) = RequestsOf(s) \cup Asked(x)
         /\ Sorted(s) /\ Before(RequestsOf(s), Asked(x)) => Sorted(Append(s, x))
<1> DEFINE t == Append(s, x)
           n == Len(s)
<1>1. /\ n \in Nat /\ DOMAIN s = 1 .. n /\ DOMAIN t = 1 .. n + 1
      /\ \A i \in 1 .. n : t[i] = s[i]
      /\ t[n + 1] = x
  BY AppendProperties, LenProperties
<1> HIDE DEF t, n
<1>2. RequestsOf(t) = RequestsOf(s) \cup Asked(x)
  <2>1. ASSUME NEW r \in RequestsOf(t) PROVE r \in RequestsOf(s) \cup Asked(x)
    <3>1. PICK i \in DOMAIN t : Asking(t[i]) /\ r = t[i].request
      BY DEF RequestsOf
    <3>2. CASE i = n + 1
      BY <1>1, <3>1, <3>2 DEF Asked
    <3>3. CASE i # n + 1
      <4>1. i \in 1 .. n
        BY <1>1, <3>1, <3>3
      <4> QED
        BY <1>1, <3>1, <4>1 DEF RequestsOf
    <3> QED
      BY <3>2, <3>3
  <2>2. ASSUME NEW r \in RequestsOf(s) PROVE r \in RequestsOf(t)
    <3>1. PICK i \in DOMAIN s : Asking(s[i]) /\ r = s[i].request
      BY DEF RequestsOf
    <3>2. i \in DOMAIN t /\ t[i] = s[i]
      BY <1>1, <3>1
    <3> QED
      BY <3>1, <3>2 DEF RequestsOf
  <2>3. ASSUME NEW r \in Asked(x) PROVE r \in RequestsOf(t)
    <3>1. Asking(x) /\ r = x.request /\ n + 1 \in DOMAIN t
      BY <1>1 DEF Asked
    <3> QED
      BY <1>1, <3>1 DEF RequestsOf
  <2> QED
    BY <2>1, <2>2, <2>3
<1>3. ASSUME Sorted(s), Before(RequestsOf(s), Asked(x)) PROVE Sorted(t)
  <2> SUFFICES ASSUME NEW i \in DOMAIN t, NEW j \in DOMAIN t, i < j,
                      Asking(t[i]), Asking(t[j])
               PROVE  t[i].request.number < t[j].request.number
    BY DEF Sorted
  <2>1. i \in 1 .. n /\ t[i] = s[i]
    BY <1>1
  <2>2. CASE j = n + 1
    <3>1. s[i].request \in RequestsOf(s) /\ x.request \in Asked(x)
      BY <1>1, <2>1, <2>2 DEF RequestsOf, Asked
    <3> QED
      BY <1>1, <1>3, <2>1, <2>2, <3>1 DEF Before
  <2>3. CASE j # n + 1
    <3>1. j \in 1 .. n
      BY <1>1, <2>3
    <3> QED
      BY <1>1, <1>3, <2>1, <3>1 DEF Sorted
  <2> QED
    BY <2>2, <2>3
<1> QED
  BY <1>2, <1>3 DEF t

LEMMA TailRequests ==
  ASSUME NEW s \in Seq(Input), s # <<>>
  PROVE  /\ RequestsOf(s) = RequestsOf(Tail(s)) \cup Asked(Head(s))
         /\ Sorted(s) => /\ Sorted(Tail(s))
                         /\ Before(Asked(Head(s)), RequestsOf(Tail(s)))
<1> DEFINE t == Tail(s)
           x == Head(s)
           n == Len(s)
<1>1. /\ n \in Nat \ {0} /\ DOMAIN s = 1 .. n /\ DOMAIN t = 1 .. n - 1
      /\ \A i \in 1 .. n - 1 : t[i] = s[i + 1]
      /\ x = s[1]
  BY HeadTailProperties, LenProperties, EmptySeq
<1> HIDE DEF t, n, x
<1>2. RequestsOf(s) = RequestsOf(t) \cup Asked(x)
  <2>1. ASSUME NEW r \in RequestsOf(s) PROVE r \in RequestsOf(t) \cup Asked(x)
    <3>1. PICK i \in DOMAIN s : Asking(s[i]) /\ r = s[i].request
      BY DEF RequestsOf
    <3>2. CASE i = 1
      BY <1>1, <3>1, <3>2 DEF Asked
    <3>3. CASE i # 1
      <4>1. i - 1 \in DOMAIN t /\ t[i - 1] = s[i]
        BY <1>1, <3>1, <3>3
      <4> QED
        BY <3>1, <4>1 DEF RequestsOf
    <3> QED
      BY <3>2, <3>3
  <2>2. ASSUME NEW r \in RequestsOf(t) PROVE r \in RequestsOf(s)
    <3>1. PICK i \in DOMAIN t : Asking(t[i]) /\ r = t[i].request
      BY DEF RequestsOf
    <3>2. i + 1 \in DOMAIN s /\ t[i] = s[i + 1]
      BY <1>1, <3>1
    <3> QED
      BY <3>1, <3>2 DEF RequestsOf
  <2>3. ASSUME NEW r \in Asked(x) PROVE r \in RequestsOf(s)
    <3>1. Asking(x) /\ r = x.request /\ 1 \in DOMAIN s
      BY <1>1 DEF Asked
    <3> QED
      BY <1>1, <3>1 DEF RequestsOf
  <2> QED
    BY <2>1, <2>2, <2>3
<1>3. ASSUME Sorted(s) PROVE Sorted(t)
  <2> SUFFICES ASSUME NEW i \in DOMAIN t, NEW j \in DOMAIN t, i < j,
                      Asking(t[i]), Asking(t[j])
               PROVE  t[i].request.number < t[j].request.number
    BY DEF Sorted
  <2>1. /\ i + 1 \in DOMAIN s /\ j + 1 \in DOMAIN s /\ i + 1 < j + 1
        /\ t[i] = s[i + 1] /\ t[j] = s[j + 1]
    BY <1>1
  <2> QED
    BY <1>3, <2>1 DEF Sorted
<1>4. ASSUME Sorted(s) PROVE Before(Asked(x), RequestsOf(t))
  <2> SUFFICES ASSUME NEW r \in RequestsOf(t), Asking(x)
               PROVE  x.request.number < r.number
    BY DEF Before, Asked
  <2>1. PICK i \in DOMAIN t : Asking(t[i]) /\ r = t[i].request
    BY DEF RequestsOf
  <2>2. i + 1 \in DOMAIN s /\ 1 \in DOMAIN s /\ 1 < i + 1 /\ t[i] = s[i + 1]
    BY <1>1, <2>1
  <2> QED
    BY <1>1, <1>4, <2>1, <2>2 DEF Sorted
<1> QED
  BY <1>2, <1>3, <1>4 DEF t, x

LEMMA AppendQueue ==
  ASSUME NEW w \in Worker, NEW r \in Request, NEW v, v.queue = Append(w.queue, r)
  PROVE  /\ Queued(v) = Queued(w) \cup {r}
         /\ Rising(w.queue) /\ Before(Queued(w), {r}) => Rising(v.queue)
<1> DEFINE n == Len(w.queue)
<1>1. /\ n \in Nat /\ DOMAIN w.queue = 1 .. n /\ DOMAIN v.queue = 1 .. n + 1
      /\ \A i \in 1 .. n : v.queue[i] = w.queue[i]
      /\ v.queue[n + 1] = r
  <2>1. w.queue \in Seq(Request)
    BY DEF Worker
  <2> QED
    BY <2>1, AppendProperties, LenProperties
<1> HIDE DEF n
<1>2. Queued(v) = Queued(w) \cup {r}
  BY <1>1 DEF Queued
<1>3. ASSUME Rising(w.queue), Before(Queued(w), {r}) PROVE Rising(v.queue)
  BY <1>1, <1>3 DEF Rising, Before, Queued
<1> QED
  BY <1>2, <1>3

LEMMA TailQueue ==
  ASSUME NEW w \in Worker, w.queue # <<>>, NEW v, v.queue = Tail(w.queue)
  PROVE  /\ Queued(w) = Queued(v) \cup {Head(w.queue)}
         /\ Rising(w.queue) => /\ Rising(v.queue)
                               /\ Before({Head(w.queue)}, Queued(v))
<1> DEFINE n == Len(w.queue)
           r == Head(w.queue)
<1>1. /\ n \in Nat \ {0} /\ DOMAIN w.queue = 1 .. n /\ DOMAIN v.queue = 1 .. n - 1
      /\ \A i \in 1 .. n - 1 : v.queue[i] = w.queue[i + 1]
      /\ r = w.queue[1]
  <2>1. w.queue \in Seq(Request)
    BY DEF Worker
  <2> QED
    BY <2>1, HeadTailProperties, LenProperties, EmptySeq
<1> HIDE DEF n, r
<1>2. Queued(w) = Queued(v) \cup {r}
  <2>1. \A i \in DOMAIN w.queue : w.queue[i] \in Queued(v) \cup {r}
    <3> TAKE i \in DOMAIN w.queue
    <3>1. i = 1 \/ (i - 1 \in DOMAIN v.queue /\ v.queue[i - 1] = w.queue[i])
      BY <1>1
    <3> QED
      BY <1>1, <3>1 DEF Queued
  <2>2. \A i \in DOMAIN v.queue : v.queue[i] \in Queued(w)
    <3> TAKE i \in DOMAIN v.queue
    <3>1. i + 1 \in DOMAIN w.queue /\ v.queue[i] = w.queue[i + 1]
      BY <1>1
    <3> QED
      BY <3>1 DEF Queued
  <2>3. r \in Queued(w)
    BY <1>1 DEF Queued
  <2> QED
    BY <2>1, <2>2, <2>3 DEF Queued
<1>3. ASSUME Rising(w.queue) PROVE Rising(v.queue) /\ Before({r}, Queued(v))
  <2>1. Rising(v.queue)
    <3> SUFFICES ASSUME NEW i \in DOMAIN v.queue, NEW j \in DOMAIN v.queue, i < j
                 PROVE  v.queue[i].number < v.queue[j].number
      BY DEF Rising
    <3>1. /\ i + 1 \in DOMAIN w.queue /\ j + 1 \in DOMAIN w.queue /\ i + 1 < j + 1
          /\ v.queue[i] = w.queue[i + 1] /\ v.queue[j] = w.queue[j + 1]
      BY <1>1
    <3> QED
      BY <1>3, <3>1 DEF Rising
  <2>2. ASSUME NEW i \in DOMAIN v.queue PROVE r.number < v.queue[i].number
    <3>1. /\ 1 \in DOMAIN w.queue /\ i + 1 \in DOMAIN w.queue /\ 1 < i + 1
          /\ v.queue[i] = w.queue[i + 1]
      BY <1>1
    <3> QED
      BY <1>1, <1>3, <3>1 DEF Rising
  <2> QED
    BY <2>1, <2>2 DEF Before, Queued
<1> QED
  BY <1>2, <1>3 DEF r

\* A turn drops nothing from the queue but its head.
LEMMA TurnQueue ==
  ASSUME NEW w \in Worker, NEW v, Turn(w, v) \/ Fails(w, v)
  PROVE  /\ Queued(v) \subseteq Queued(w)
         /\ Rising(w.queue) => Rising(v.queue)
<1>1. CASE Replies(w, v)
  <2>1. w.queue # <<>> /\ v.queue = Tail(w.queue)
    BY <1>1 DEF Replies, Leaves
  <2>2. /\ Queued(w) = Queued(v) \cup {Head(w.queue)}
        /\ Rising(w.queue) => /\ Rising(v.queue)
                              /\ Before({Head(w.queue)}, Queued(v))
    BY <2>1, TailQueue
  <2> QED
    BY <2>2
<1>2. CASE v.queue = w.queue
  BY <1>2 DEF Queued
<1> QED
  BY <1>1, <1>2 DEF Turn, Fetches, Fails

----------------------------------------------------------------------------
(* Requests are known, and stand in their order                            *)

Lined == RequestsOf(channel) \cup RequestsOf(authority.pending)
           \cup RequestsOf(authority.handler)

InOrder ==
  /\ Sorted(channel) /\ Sorted(authority.pending) /\ Sorted(authority.handler)
  /\ Before(RequestsOf(channel), RequestsOf(authority.pending))
  /\ Before(RequestsOf(channel), RequestsOf(authority.handler))
  /\ Before(RequestsOf(authority.pending), RequestsOf(authority.handler))

Numbered ==
  /\ \A i \in DOMAIN history.asked :
       history.asked[i].number = i /\ history.asked[i].snapshot <= now
  /\ \A i, j \in DOMAIN history.asked :
       i < j => history.asked[i].snapshot <= history.asked[j].snapshot

Known(r) == r.number \in DOMAIN history.asked /\ r = history.asked[r.number]

Sequenced == /\ Numbered /\ InOrder
             /\ \A r \in Lined \cup Queued(worker) : Known(r)
             /\ Rising(worker.queue) /\ Before(Queued(worker), Lined)

\* A step along the line loses no request, unless recovery is fenced by it.
LEMMA MovesLine ==
  ASSUME Typed, InOrder, Moves \/ Flushes
  PROVE  /\ InOrder' /\ Lined' \subseteq Lined
         /\ authority'.available => authority.available /\ Lined' = Lined
<1> DEFINE h == authority.handler
           p == authority.pending
           x == Head(h)
           y == Head(p)
<1>1. /\ h \in Seq(Input) /\ p \in Seq(Input) /\ channel \in Seq(Input)
  BY DEF Typed, LineTyped, Authority
<1>2. h # <<>> => /\ RequestsOf(h) = RequestsOf(Tail(h)) \cup Asked(x)
                  /\ Sorted(h) => /\ Sorted(Tail(h))
                                  /\ Before(Asked(x), RequestsOf(Tail(h)))
                  /\ x \in Input
  BY <1>1, TailRequests, HeadTailProperties
<1>3. p # <<>> => /\ RequestsOf(p) = RequestsOf(Tail(p)) \cup Asked(y)
                  /\ Sorted(p) => /\ Sorted(Tail(p))
                                  /\ Before(Asked(y), RequestsOf(Tail(p)))
                  /\ y \in Input
  BY <1>1, TailRequests, HeadTailProperties
<1>4. \A s \in Seq(Input), z \in Input :
        /\ RequestsOf(Append(s, z)) = RequestsOf(s) \cup Asked(z)
        /\ Sorted(s) /\ Before(RequestsOf(s), Asked(z)) => Sorted(Append(s, z))
  BY AppendRequests
<1>5. RequestsOf(<<>>) = {} /\ Sorted(<<>>)
  BY EmptyRequests
<1>6. /\ Sorted(channel) /\ Sorted(p) /\ Sorted(h)
      /\ Before(RequestsOf(channel), RequestsOf(p))
      /\ Before(RequestsOf(channel), RequestsOf(h))
      /\ Before(RequestsOf(p), RequestsOf(h))
  BY DEF InOrder
<1> DEFINE c2 == channel'
           p2 == authority'.pending
           h2 == authority'.handler
<1>7. /\ InOrder' <=> /\ Sorted(c2) /\ Sorted(p2) /\ Sorted(h2)
                      /\ Before(RequestsOf(c2), RequestsOf(p2))
                      /\ Before(RequestsOf(c2), RequestsOf(h2))
                      /\ Before(RequestsOf(p2), RequestsOf(h2))
      /\ Lined' = RequestsOf(c2) \cup RequestsOf(p2) \cup RequestsOf(h2)
      /\ Lined = RequestsOf(channel) \cup RequestsOf(p) \cup RequestsOf(h)
  BY DEF InOrder, Lined
<1> HIDE DEF h, p, x, y, c2, p2, h2
<1>8. ASSUME h # <<>>, h2 = Tail(h), c2 = Append(channel, x), p = <<>>, p2 = <<>>
      PROVE  InOrder' /\ Lined' = Lined
  BY <1>1, <1>2, <1>4, <1>5, <1>6, <1>7, <1>8 DEF Before
<1>9. ASSUME h # <<>>, h2 = Tail(h), c2 = channel, p2 = Append(p, x)
      PROVE  InOrder' /\ Lined' = Lined
  BY <1>1, <1>2, <1>4, <1>6, <1>7, <1>9 DEF Before
<1>10. ASSUME h # <<>>, h2 = Tail(h), c2 = channel, p2 = p \/ p2 = <<>>
       PROVE  InOrder' /\ Lined' \subseteq Lined
  BY <1>1, <1>2, <1>5, <1>6, <1>7, <1>10 DEF Before
<1>11. ASSUME h2 = h, p # <<>>, c2 = Append(channel, y), p2 = Tail(p)
       PROVE  InOrder' /\ Lined' = Lined
  BY <1>1, <1>3, <1>4, <1>6, <1>7, <1>11 DEF Before
<1>12. ASSUME h2 = h, c2 = channel, p2 = <<>>
       PROVE  InOrder' /\ Lined' \subseteq Lined
  BY <1>1, <1>5, <1>6, <1>7, <1>12 DEF Before
<1> QED
  <2>1. CASE Moves
    <3>1. /\ h # <<>> /\ h2 = Tail(h)
          /\ \/ /\ c2 = Append(channel, x) /\ p = <<>> /\ p2 = <<>>
                /\ authority'.available = authority.available
             \/ /\ c2 = channel /\ p2 = Append(p, x)
                /\ authority'.available = authority.available
             \/ c2 = channel /\ (p2 = p \/ p2 = <<>>) /\ ~authority'.available
      BY <2>1 DEF Moves, h, p, x, c2, p2, h2
    <3> QED
      BY <3>1, <1>8, <1>9, <1>10
  <2>2. CASE Flushes
    <3>1. /\ h2 = h /\ p # <<>>
          /\ \/ /\ c2 = Append(channel, y) /\ p2 = Tail(p)
                /\ authority'.available = authority.available
             \/ c2 = channel /\ p2 = <<>> /\ ~authority'.available
      BY <2>2 DEF Flushes, h, p, y, c2, p2, h2
    <3> QED
      BY <3>1, <1>11, <1>12
  <2> QED
    BY <2>1, <2>2

\* Inputs that ask for nothing leave the requests as they are.
LEMMA OffersLine ==
  ASSUME Typed, InOrder, Offers, channel' = channel
  PROVE  InOrder' /\ Lined' = Lined /\ authority'.available = authority.available
<1>1. RequestsOf(authority'.handler) = {} /\ Sorted(authority'.handler)
  BY DEF Offers, RequestsOf, Sorted
<1>2. RequestsOf(authority.handler) = {}
  BY EmptyRequests DEF Offers
<1>3. authority'.pending = authority.pending
  BY DEF Offers
<1> QED
  BY <1>1, <1>2, <1>3 DEF Offers, InOrder, Lined, Before

\* A new request stands behind every other.
LEMMA RequestsLine ==
  ASSUME Typed, Sequenced, NEW r \in Request, Requests(r), channel' = channel
  PROVE  /\ InOrder' /\ Lined' = Lined \cup {r}
         /\ Before(Lined \cup Queued(worker), {r})
         /\ authority'.available = authority.available
<1> DEFINE input == [kind |-> "request", request |-> r]
<1>1. /\ authority'.handler = <<input>> /\ authority'.pending = authority.pending
      /\ authority.handler = <<>> /\ r.number = Len(history.asked) + 1
      /\ authority'.available = authority.available
  BY DEF Requests
<1>2. RequestsOf(<<input>>) = {r} /\ Sorted(<<input>>)
  <2>1. DOMAIN <<input>> = {1} /\ <<input>>[1] = input
    OBVIOUS
  <2>2. Asking(input) /\ input.request = r
    BY DEF Asking
  <2> HIDE DEF input
  <2> QED
    BY <2>1, <2>2 DEF RequestsOf, Sorted
<1> HIDE DEF input
<1>3. history.asked \in Seq(Request)
  BY DEF Typed, BackTyped, History
<1>4. Before(Lined \cup Queued(worker), {r})
  <2>1. ASSUME NEW q \in Lined \cup Queued(worker) PROVE q.number < r.number
    <3>1. q.number \in 1 .. Len(history.asked)
      BY <1>3, LenProperties DEF Sequenced, Known
    <3> QED
      BY <1>1, <1>3, <3>1, LenProperties
  <2> QED
    BY <2>1 DEF Before
<1>5. RequestsOf(authority.handler) = {}
  BY <1>1, EmptyRequests
<1>6. Lined' = Lined \cup {r}
  BY <1>1, <1>2, <1>5 DEF Lined
<1>7. InOrder'
  BY <1>1, <1>2, <1>4 DEF Sequenced, InOrder, Lined, Before
<1> QED
  BY <1>1, <1>4, <1>6, <1>7

\* A result that comes back leaves the requests as they are, or fences.
LEMMA AdmitsLine ==
  ASSUME Typed, InOrder, Admits, channel' = channel
  PROVE  /\ InOrder' /\ Lined' \subseteq Lined
         /\ authority'.available => authority.available /\ Lined' = Lined
<1>1. RequestsOf(<<>>) = {} /\ Sorted(<<>>)
  BY EmptyRequests
<1>2. /\ authority.handler = <<>> /\ authority'.handler = <<>>
      /\ \/ authority'.pending = <<>> /\ ~authority'.available
         \/ /\ authority'.pending = authority.pending
            /\ authority'.available = authority.available
  BY DEF Admits
<1> QED
  BY <1>1, <1>2 DEF InOrder, Lined, Before

\* The first request of the line is the one the worker receives.
LEMMA ReceivesLine ==
  ASSUME Typed, InOrder, channel # <<>>, channel' = Tail(channel),
         authority' = authority
  PROVE  /\ InOrder' /\ Lined = Lined' \cup Asked(Head(channel))
         /\ Before(Asked(Head(channel)), Lined')
<1> DEFINE x == Head(channel)
<1>1. channel \in Seq(Input)
  BY DEF Typed, LineTyped
<1>2. /\ RequestsOf(channel) = RequestsOf(channel') \cup Asked(x)
      /\ Sorted(channel) => Sorted(channel') /\ Before(Asked(x), RequestsOf(channel'))
  BY <1>1, TailRequests
<1> HIDE DEF x
<1>3. InOrder'
  BY <1>2 DEF InOrder, Before
<1>4. Lined = Lined' \cup Asked(x)
  BY <1>2 DEF Lined
<1>5. Before(Asked(x), Lined')
  BY <1>2 DEF InOrder, Lined, Before
<1> QED
  BY <1>3, <1>4, <1>5 DEF x

\* What a step does to the parts of the history.
LEMMA HistoryParts ==
  ASSUME Typed
  PROVE  /\ \A r : history' = [history EXCEPT !.asked = Append(@, r)] =>
              /\ history'.asked = Append(history.asked, r)
              /\ history'.answered = history.answered
              /\ history'.given = history.given /\ history'.heard = history.heard
         /\ \A n : history' = [history EXCEPT !.answered = Append(@, n)] =>
              /\ history'.answered = Append(history.answered, n)
              /\ history'.asked = history.asked
              /\ history'.given = history.given /\ history'.heard = history.heard
         /\ \A a : history' = [history EXCEPT !.given = Append(@, a)] =>
              /\ history'.given = Append(history.given, a)
              /\ history'.asked = history.asked
              /\ history'.answered = history.answered /\ history'.heard = history.heard
<1>1. history \in History
  BY DEF Typed, BackTyped
<1> QED
  BY <1>1 DEF History

\* What a step of the worker that receives does to the history.
LEMMA ReceivesHistory ==
  ASSUME Typed, NEW input \in Input, NEW u, Receives(input, u)
  PROVE  /\ history'.asked = history.asked /\ history'.given = history.given
         /\ history'.answered = history.answered
         /\ input.kind # "source" => history'.heard = history.heard
         /\ input.kind = "source" => history'.heard =
              [k \in 1 .. MaxRequests |->
                 IF \E r \in Waiting(worker, input.trade.market) : r.number = k
                 THEN history.heard[k] \cup {input.trade} ELSE history.heard[k]]
<1>1. history \in History /\ history.heard \in [1 .. MaxRequests -> SUBSET Trade]
  BY DEF Typed, BackTyped, History
<1>2. CASE input.kind = "source"
  <2> DEFINE heard == [k \in DOMAIN history.heard |->
                IF \E r \in Waiting(worker, input.trade.market) : r.number = k
                THEN history.heard[k] \cup {input.trade} ELSE history.heard[k]]
  <2>1. history' = [history EXCEPT !.heard = heard]
    BY <1>2 DEF Receives
  <2>2. heard = [k \in 1 .. MaxRequests |->
                IF \E r \in Waiting(worker, input.trade.market) : r.number = k
                THEN history.heard[k] \cup {input.trade} ELSE history.heard[k]]
    BY <1>1
  <2> HIDE DEF heard
  <2>3. /\ history'.asked = history.asked /\ history'.given = history.given
        /\ history'.answered = history.answered /\ history'.heard = heard
    BY <1>1, <2>1 DEF History
  <2> QED
    BY <1>2, <2>2, <2>3
<1>3. CASE input.kind # "source"
  BY <1>3 DEF Receives
<1> QED
  BY <1>2, <1>3

LEMMA QueuedKnown ==
  ASSUME Typed
  PROVE  /\ Queued(worker) \subseteq Request
         /\ history.asked \in Seq(Request)
         /\ Len(history.asked) \in Nat /\ DOMAIN history.asked = 1 .. Len(history.asked)
         /\ Lined \subseteq Request
<1>1. /\ worker.queue \in Seq(Request) /\ history.asked \in Seq(Request)
      /\ channel \in Seq(Input) /\ authority.pending \in Seq(Input)
      /\ authority.handler \in Seq(Input)
  BY DEF Typed, WorkerTyped, BackTyped, LineTyped, Worker, History, Authority
<1>2. \A s \in Seq(Input) : RequestsOf(s) \subseteq Request
  <2> TAKE s \in Seq(Input)
  <2>1. \A i \in DOMAIN s : s[i] \in Input
    BY ElementOfSeq, LenProperties
  <2>2. \A x \in Input : Asking(x) => x.request \in Request
    BY DEF Input, Asking
  <2> QED
    BY <2>1, <2>2 DEF RequestsOf
<1>3. Queued(worker) \subseteq Request
  BY <1>1, ElementOfSeq, LenProperties DEF Queued
<1> QED
  BY <1>1, <1>2, <1>3, LenProperties DEF Lined

LEMMA InitSequenced == Init => Sequenced
<1> SUFFICES ASSUME Init PROVE Sequenced
  OBVIOUS
<1>1. RequestsOf(<<>>) = {} /\ Sorted(<<>>)
  BY EmptyRequests
<1>2. /\ channel = <<>> /\ authority.pending = <<>> /\ authority.handler = <<>>
      /\ worker.queue = <<>> /\ history.asked = <<>>
  BY DEF Init
<1>3. Lined = {} /\ Queued(worker) = {} /\ InOrder
  BY <1>1, <1>2 DEF Lined, Queued, InOrder, Before
<1> QED
  BY <1>2, <1>3 DEF Sequenced, Numbered, Rising, Before

LEMMA SequencedStep ==
  ASSUME Typed, Sequenced, [Next]_vars
  PROVE  Sequenced'
<1>1. now \in Nat /\ now' \in Nat /\ Typed'
  BY StepKinds, RecoveryAssumption DEF Typed, OutsideTyped, Times
<1>2. ASSUME InOrder', Lined' \subseteq Lined, Queued(worker') \subseteq Queued(worker),
             Rising(worker'.queue), history'.asked = history.asked, now <= now'
      PROVE  Sequenced'
  <2>1. Numbered'
    <3>1. \A i \in DOMAIN history.asked : history.asked[i].snapshot \in Nat
      <4>1. \A i \in DOMAIN history.asked : history.asked[i] \in Request
        BY QueuedKnown, ElementOfSeq
      <4> QED
        BY <4>1, RecoveryAssumption DEF Request, Times
    <3> QED
      BY <1>1, <1>2, <3>1 DEF Sequenced, Numbered
  <2>2. \A r : Known(r) => Known(r)'
    BY <1>2 DEF Known
  <2>3. Queued(worker)' = Queued(worker')
    BY DEF Queued
  <2> QED
    BY <1>2, <2>1, <2>2, <2>3 DEF Sequenced, Before, Known
<1>3. InOrder /\ Rising(worker.queue)
  BY DEF Sequenced
<1>4. CASE /\ Moves \/ Flushes \/ (Offers /\ channel' = channel)
           /\ UNCHANGED <<now, worker, results, history>>
  <2>1. InOrder' /\ Lined' \subseteq Lined
    BY <1>3, <1>4, MovesLine, OffersLine
  <2> QED
    BY <1>1, <1>2, <1>3, <1>4, <2>1
<1>5. ASSUME NEW r \in Request, Requests(r), UNCHANGED <<now, channel, worker, results>>
      PROVE  Sequenced'
  <2>1. /\ InOrder' /\ Lined' = Lined \cup {r}
        /\ Before(Lined \cup Queued(worker), {r})
    BY <1>5, RequestsLine
  <2> DEFINE n == Len(history.asked)
             asked == history'.asked
  <2>2. asked = Append(history.asked, r) /\ r.number = n + 1 /\ r.snapshot = now
    BY <1>5, HistoryParts DEF Requests
  <2>3. /\ n \in Nat /\ DOMAIN history.asked = 1 .. n /\ DOMAIN asked = 1 .. n + 1
        /\ \A i \in 1 .. n : asked[i] = history.asked[i]
        /\ asked[n + 1] = r
    BY <2>2, QueuedKnown, AppendProperties, LenProperties
  <2> HIDE DEF n, asked
  <2>4. Numbered'
    <3>1. /\ \A i \in DOMAIN asked : asked[i].number = i /\ asked[i].snapshot <= now
          /\ \A i, j \in DOMAIN asked : i < j => asked[i].snapshot <= asked[j].snapshot
      BY <1>1, <2>2, <2>3 DEF Sequenced, Numbered
    <3> QED
      BY <1>5, <3>1 DEF Numbered, asked
  <2>5. \A q : Known(q) => Known(q)'
    BY <2>3 DEF Known, asked
  <2>6. Known(r)'
    BY <2>2, <2>3 DEF Known, asked
  <2>7. Queued(worker)' = Queued(worker) /\ worker' = worker
    BY <1>5 DEF Queued
  <2>8. \A q \in (Lined \cup Queued(worker))' : Known(q)'
    BY <2>1, <2>5, <2>6, <2>7 DEF Sequenced
  <2>9. Before(Queued(worker), Lined)' /\ Rising(worker.queue)'
    BY <2>1, <2>7 DEF Sequenced, Before
  <2> QED
    BY <2>1, <2>4, <2>8, <2>9 DEF Sequenced
<1>6. CASE Admits /\ UNCHANGED <<now, channel, worker>>
  <2>1. InOrder' /\ Lined' \subseteq Lined
    BY <1>3, <1>6, AdmitsLine
  <2>2. history'.asked = history.asked
    BY <1>6, HistoryParts DEF Admits
  <2> QED
    BY <1>1, <1>2, <1>3, <1>6, <2>1, <2>2
<1>7. ASSUME NEW input \in Input, NEW u \in Worker, Receives(input, u),
             UNCHANGED <<now, authority, results>>
      PROVE  Sequenced'
  <2>1. /\ InOrder' /\ Lined = Lined' \cup Asked(input)
        /\ Before(Asked(input), Lined')
    BY <1>3, <1>7, ReceivesLine DEF Receives
  <2>2. history'.asked = history.asked
    BY <1>7, ReceivesHistory
  <2>3. Queued(worker') \subseteq Queued(u) /\ (Rising(u.queue) => Rising(worker'.queue))
    BY <1>7, TurnQueue DEF Receives
  <2>4. CASE u.queue = worker.queue
    <3>1. Queued(u) = Queued(worker)
      BY <2>4 DEF Queued
    <3> QED
      BY <1>1, <1>2, <1>3, <1>7, <2>1, <2>2, <2>3, <2>4, <3>1
  <2>5. CASE /\ input.kind = "request" /\ input.request \in Request
             /\ u.queue = Append(worker.queue, input.request)
    <3> DEFINE r == input.request
    <3>1. Asked(input) = {r}
      BY <2>5 DEF Asked, Asking
    <3>2. Before(Queued(worker), {r})
      BY <2>1, <3>1 DEF Sequenced, Before
    <3>3. Queued(u) = Queued(worker) \cup {r} /\ Rising(u.queue)
      <4>1. worker \in Worker
        BY DEF Typed, WorkerTyped
      <4> QED
        BY <1>3, <2>5, <3>2, <4>1, AppendQueue
    <3> HIDE DEF r
    <3>4. Queued(worker)' \subseteq Queued(worker) \cup {r}
      BY <2>3, <3>3 DEF Queued
    <3>5. Before(Queued(worker), Lined)'
      BY <2>1, <3>1, <3>4 DEF Sequenced, Before
    <3>6. \A q \in (Lined \cup Queued(worker))' : Known(q)'
      BY <2>1, <2>2, <3>1, <3>4 DEF Sequenced, Known
    <3>7. Numbered'
      BY <1>7, <2>2 DEF Sequenced, Numbered
    <3> QED
      BY <2>1, <2>3, <3>3, <3>5, <3>6, <3>7 DEF Sequenced
  <2> QED
    BY <1>7, <2>4, <2>5 DEF Receives
<1>8. CASE FetchEnds /\ UNCHANGED <<now, authority, channel, results, history>>
  <2>1. InOrder' /\ Lined' = Lined
    BY <1>3, <1>8 DEF InOrder, Lined
  <2>2. worker \in Worker /\ (Turn(worker, worker') \/ Fails(worker, worker'))
    BY <1>8 DEF FetchEnds, Turn, Typed, WorkerTyped
  <2>3. Queued(worker') \subseteq Queued(worker) /\ Rising(worker'.queue)
    BY <1>3, <2>2, TurnQueue
  <2> QED
    BY <1>1, <1>2, <1>8, <2>1, <2>3
<1>9. CASE Delivers /\ UNCHANGED <<now, authority, channel>>
  <2>1. InOrder' /\ Lined' = Lined
    BY <1>3, <1>9 DEF InOrder, Lined
  <2>2. history'.asked = history.asked
    BY <1>9, HistoryParts DEF Delivers
  <2>3. Queued(worker') = Queued(worker) /\ Rising(worker'.queue)
    BY <1>3, <1>9 DEF Delivers, Queued
  <2> QED
    BY <1>1, <1>2, <1>9, <2>1, <2>2, <2>3
<1>10. CASE Passes
  <2>1. InOrder' /\ Lined' = Lined /\ worker' = worker /\ history' = history
    BY <1>3, <1>10 DEF InOrder, Lined, Passes
  <2> QED
    BY <1>2, <1>3, <1>10, <2>1 DEF Passes
<1> QED
  BY <1>4, <1>5, <1>6, <1>7, <1>8, <1>9, <1>10, StepKinds

LEMMA SequenceHolds == Spec => [](Typed /\ Sequenced)
<1>1. Init => Typed /\ Sequenced
  BY InitTyped, InitSequenced
<1>2. Typed /\ Sequenced /\ [Next]_vars => (Typed /\ Sequenced)'
  BY StepKinds, SequencedStep
<1> QED
  BY <1>1, <1>2, PTL DEF Spec

----------------------------------------------------------------------------
(* Answers follow requests                                                 *)

Failing(w) == \/ w.phase = "ended"
              \/ w.phase = "sending" /\ w.answer \in Failure

Busy(w) == IF w.phase = "sending" THEN 1 ELSE 0

\* The queue holds the requests that come next behind the first b.
InTurn(w, b) == \A i \in DOMAIN w.queue : w.queue[i].number = b + Busy(w) + i

Back == Len(history.answered) + Len(results)

\* The requests that have left the line.
Out == Back + Busy(worker) + Len(worker.queue)

\* As long as recovery is not fenced, the requests stand in one row without a
\* hole: those answered, those on their way back, the one at hand, those that
\* wait, those in the line.
Whole ==
  /\ AnswersFollowRequests
  /\ authority.available =>
       /\ \A i \in DOMAIN results :
            results[i] \in Reply => results[i].number = Len(history.answered) + i
       /\ worker.answer \in Reply => worker.answer.number = Back + 1
       /\ ~Failing(worker) =>
            /\ InTurn(worker, Back) /\ Out <= Len(history.asked)
            /\ {r.number : r \in Lined} = (Out + 1) .. Len(history.asked)

LEMMA TurnOrder ==
  ASSUME NEW w \in Worker, NEW b \in Nat, NEW v,
         w.phase # "sending", w.answer = NoAnswer, InTurn(w, b),
         Turn(w, v) \/ Fails(w, v)
  PROVE  /\ v.answer \in Reply => v.answer.number = b + 1
         /\ ~Failing(v) => /\ InTurn(v, b)
                           /\ Busy(v) + Len(v.queue) = Busy(w) + Len(w.queue)
<1>1. NoAnswer \notin Reply /\ Busy(w) = 0
  BY DEF NoAnswer, Reply, Busy
<1>2. w.queue \in Seq(Request) /\ Len(w.queue) \in Nat
  BY LenProperties DEF Worker
<1>3. CASE v = w
  BY <1>1, <1>3
<1>4. CASE Fetches(w, v)
  <2>1. v.queue = w.queue /\ v.answer = NoAnswer /\ Busy(v) = 0
    BY <1>4 DEF Fetches, Busy
  <2> QED
    BY <1>1, <2>1 DEF InTurn
<1>5. CASE Fails(w, v)
  <2>1. v.answer \in Failure /\ v.answer \notin Reply
    <3>1. v \in Worker /\ v.answer.kind = "failed"
      BY <1>5 DEF Fails
    <3>2. v.answer \in Result \cup {NoAnswer} /\ NoAnswer.kind = "none"
      BY <3>1 DEF Worker, NoAnswer
    <3> QED
      BY <3>1, <3>2 DEF Result, Reply, Failure
  <2>2. Failing(v)
    BY <1>5, <2>1 DEF Fails, Failing
  <2> QED
    BY <2>1, <2>2
<1>6. CASE Replies(w, v)
  <2>1. /\ w.queue # <<>> /\ v.queue = Tail(w.queue)
        /\ v.answer.number = Head(w.queue).number /\ v.phase = "sending"
    BY <1>6 DEF Replies, Leaves
  <2>2. /\ Len(w.queue) \in Nat \ {0} /\ Len(v.queue) = Len(w.queue) - 1
        /\ DOMAIN w.queue = 1 .. Len(w.queue) /\ DOMAIN v.queue = 1 .. Len(w.queue) - 1
        /\ \A i \in DOMAIN v.queue : v.queue[i] = w.queue[i + 1]
        /\ Head(w.queue) = w.queue[1]
    BY <1>2, <2>1, HeadTailProperties, LenProperties, EmptySeq
  <2>3. Busy(v) = 1
    BY <2>1 DEF Busy
  <2>4. v.answer.number = b + 1
    BY <1>1, <2>1, <2>2 DEF InTurn
  <2>5. InTurn(v, b)
    <3> SUFFICES ASSUME NEW i \in DOMAIN v.queue PROVE v.queue[i].number = b + 1 + i
      BY <2>3 DEF InTurn
    <3>1. /\ i + 1 \in DOMAIN w.queue /\ v.queue[i] = w.queue[i + 1] /\ i \in Nat
      BY <2>2
    <3>2. w.queue[i + 1].number = b + 0 + (i + 1)
      BY <1>1, <3>1 DEF InTurn
    <3> QED
      BY <3>1, <3>2
  <2> QED
    BY <1>1, <1>2, <2>2, <2>3, <2>4, <2>5
<1> QED
  BY <1>3, <1>4, <1>5, <1>6 DEF Turn

\* A request that joins the queue is the next.
LEMMA NextInTurn ==
  ASSUME NEW w \in Worker, NEW r \in Request, NEW b \in Nat, NEW v,
         w.phase = "waiting", v.phase = "waiting", v.queue = Append(w.queue, r),
         InTurn(w, b), r.number = b + Len(w.queue) + 1
  PROVE  InTurn(v, b)
<1>1. /\ Len(w.queue) \in Nat /\ DOMAIN w.queue = 1 .. Len(w.queue)
      /\ DOMAIN v.queue = 1 .. Len(w.queue) + 1
      /\ \A i \in 1 .. Len(w.queue) : v.queue[i] = w.queue[i]
      /\ v.queue[Len(w.queue) + 1] = r
  <2>1. w.queue \in Seq(Request)
    BY DEF Worker
  <2> QED
    BY <2>1, AppendProperties, LenProperties
<1>2. Busy(w) = 0 /\ Busy(v) = 0
  BY DEF Busy
<1> SUFFICES ASSUME NEW i \in DOMAIN v.queue PROVE v.queue[i].number = b + 0 + i
  BY <1>2 DEF InTurn
<1>3. CASE i = Len(w.queue) + 1
  BY <1>1, <1>3
<1>4. CASE i # Len(w.queue) + 1
  <2>1. i \in 1 .. Len(w.queue)
    BY <1>1, <1>4
  <2> QED
    BY <1>1, <1>2, <2>1 DEF InTurn
<1> QED
  BY <1>3, <1>4

\* The first request of a row without a hole.
LEMMA FirstOfRow ==
  ASSUME NEW R \in SUBSET Request, NEW S \in SUBSET Request, NEW r \in Request,
         NEW a \in Nat, NEW n \in Nat, a <= n,
         R = S \cup {r}, Before({r}, S),
         {q.number : q \in R} = (a + 1) .. n
  PROVE  /\ r.number = a + 1 /\ a + 1 <= n
         /\ {q.number : q \in S} = (a + 2) .. n
<1>1. r.number \in (a + 1) .. n
  BY DEF Request
<1>2. a + 1 \in (a + 1) .. n
  BY <1>1
<1>3. PICK q \in R : q.number = a + 1
  BY <1>2
<1>4. r.number = a + 1
  <2>1. q = r \/ r.number < q.number
    BY <1>3 DEF Before
  <2> QED
    BY <1>1, <1>3, <2>1
<1>5. \A p \in S : p.number \in (a + 2) .. n
  <2> TAKE p \in S
  <2>1. p.number \in (a + 1) .. n /\ r.number < p.number
    BY DEF Before
  <2> QED
    BY <1>4, <2>1
<1>6. \A k \in (a + 2) .. n : \E p \in S : p.number = k
  <2> TAKE k \in (a + 2) .. n
  <2>1. k \in (a + 1) .. n /\ k # a + 1
    OBVIOUS
  <2>2. PICK p \in R : p.number = k
    BY <2>1
  <2>3. p # r
    BY <1>4, <2>1, <2>2
  <2> QED
    BY <2>2, <2>3
<1> QED
  BY <1>1, <1>4, <1>5, <1>6

LEMMA BackCounts ==
  ASSUME Typed
  PROVE  /\ Len(history.answered) \in Nat /\ Len(results) \in Nat
         /\ Len(worker.queue) \in Nat /\ Back \in Nat /\ Busy(worker) \in {0, 1}
         /\ DOMAIN history.answered = 1 .. Len(history.answered)
         /\ DOMAIN results = 1 .. Len(results)
         /\ worker \in Worker /\ Out \in Nat
<1>1. /\ history.answered \in Seq(Nat) /\ results \in Seq(Result)
      /\ worker \in Worker /\ worker.queue \in Seq(Request)
  BY DEF Typed, BackTyped, WorkerTyped, History, Worker
<1>2. /\ Len(history.answered) \in Nat /\ Len(results) \in Nat
      /\ Len(worker.queue) \in Nat
      /\ DOMAIN history.answered = 1 .. Len(history.answered)
      /\ DOMAIN results = 1 .. Len(results)
  BY <1>1, LenProperties
<1>3. Busy(worker) \in {0, 1}
  BY DEF Busy
<1> QED
  BY <1>1, <1>2, <1>3 DEF Back, Out

LEMMA InitWhole == Init => Whole
<1> SUFFICES ASSUME Init PROVE Whole
  OBVIOUS
<1>1. /\ history.answered = <<>> /\ results = <<>> /\ worker.answer = NoAnswer
      /\ worker.queue = <<>> /\ worker.phase = "waiting" /\ history.asked = <<>>
      /\ channel = <<>> /\ authority.pending = <<>> /\ authority.handler = <<>>
  BY DEF Init
<1>2. Lined = {}
  BY <1>1, EmptyRequests DEF Lined
<1>3. NoAnswer \notin Reply /\ Back = 0 /\ Out = 0 /\ Busy(worker) = 0
  BY <1>1 DEF NoAnswer, Reply, Back, Out, Busy
<1>4. AnswersFollowRequests
  BY <1>1 DEF AnswersFollowRequests
<1> QED
  BY <1>1, <1>2, <1>3, <1>4 DEF Whole, InTurn

LEMMA WholeStep ==
  ASSUME Typed, Sequenced, Whole, [Next]_vars
  PROVE  Whole'
<1>0. \A a, b \in Nat : a + (b + 1) = (a + 1) + b /\ (a + b) + 1 = a + (b + 1)
  OBVIOUS
<1> DEFINE R == {r.number : r \in Lined}
           n == Len(history.asked)
<1>1. /\ Len(history.answered) \in Nat /\ Len(results) \in Nat
      /\ Len(worker.queue) \in Nat /\ Back \in Nat /\ Busy(worker) \in {0, 1}
      /\ DOMAIN history.answered = 1 .. Len(history.answered)
      /\ DOMAIN results = 1 .. Len(results)
      /\ worker \in Worker /\ Out \in Nat
  BY BackCounts
<1>2. /\ Lined \subseteq Request /\ history.asked \in Seq(Request) /\ n \in Nat
  BY QueuedKnown
<1>3. NoAnswer \notin Reply /\ Failure \cap Reply = {}
  BY DEF NoAnswer, Reply, Failure
<1>4. ASSUME Lined' \subseteq Lined,
             authority'.available => authority.available /\ Lined' = Lined,
             UNCHANGED <<worker, results, history>>
      PROVE  Whole'
  BY <1>4 DEF Whole, AnswersFollowRequests, Back, Out, InTurn, Busy, Failing
<1>5. CASE /\ Moves \/ Flushes \/ (Offers /\ channel' = channel)
           /\ UNCHANGED <<now, worker, results, history>>
  <2>1. /\ Lined' \subseteq Lined
        /\ authority'.available => authority.available /\ Lined' = Lined
    BY <1>5, MovesLine, OffersLine DEF Sequenced
  <2> QED
    BY <1>4, <1>5, <2>1
<1>6. CASE Passes
  <2>1. Lined' = Lined /\ authority' = authority
    BY <1>6 DEF Passes, Lined
  <2> QED
    BY <1>4, <1>6, <2>1 DEF Passes
<1>7. ASSUME NEW r \in Request, Requests(r), UNCHANGED <<now, channel, worker, results>>
      PROVE  Whole'
  <2>1. /\ Lined' = Lined \cup {r} /\ authority'.available = authority.available
    BY <1>7, RequestsLine
  <2>2. /\ history'.asked = Append(history.asked, r) /\ r.number = n + 1
        /\ history'.answered = history.answered
    BY <1>7, HistoryParts DEF Requests
  <2>3. Len(history'.asked) = n + 1
    BY <1>2, <2>2, AppendProperties
  <2>4. {q.number : q \in Lined'} = R \cup {n + 1}
    BY <2>1, <2>2
  <2>5. Back' = Back /\ Out' = Out
    BY <1>7, <2>2 DEF Back, Out, Busy
  <2> HIDE DEF n, R
  <2>6. Out <= n /\ R = (Out + 1) .. n =>
          Out <= n + 1 /\ R \cup {n + 1} = (Out + 1) .. (n + 1)
    BY <1>1, <1>2
  <2>7. authority.available /\ ~Failing(worker) => Out <= n /\ R = (Out + 1) .. n
    BY DEF Whole, n, R
  <2> QED
    BY <1>7, <2>1, <2>2, <2>3, <2>4, <2>5, <2>6, <2>7
       DEF Whole, AnswersFollowRequests, Failing, InTurn, Busy
<1>8. CASE Admits /\ UNCHANGED <<now, channel, worker>>
  <2>1. authority'.available => authority.available /\ Lined' = Lined
    BY <1>8, AdmitsLine DEF Sequenced
  <2>2. CASE ~authority'.available /\ history' = history
    BY <2>2 DEF Whole, AnswersFollowRequests
  <2>3. CASE authority.available /\ Head(results) \in Reply
             /\ history' = [history EXCEPT !.answered = Append(@, Head(results).number)]
    <3> DEFINE k == Head(results).number
    <3>1. /\ history'.answered = Append(history.answered, k)
          /\ history'.asked = history.asked
      BY <2>3, HistoryParts
    <3>2. /\ results # <<>> /\ results' = Tail(results) /\ results \in Seq(Result)
          /\ history.answered \in Seq(Nat) /\ k \in Nat
      BY <1>8, <2>3, RecoveryAssumption DEF Admits, Typed, BackTyped, History, Reply
    <3>3. /\ Len(results) \in Nat \ {0} /\ Len(results') = Len(results) - 1
          /\ DOMAIN results' = 1 .. Len(results) - 1
          /\ \A i \in DOMAIN results' : results'[i] = results[i + 1]
          /\ Head(results) = results[1]
      BY <3>2, HeadTailProperties, LenProperties, EmptySeq
    <3>4. /\ Len(history'.answered) = Len(history.answered) + 1
          /\ DOMAIN history'.answered = 1 .. Len(history.answered) + 1
          /\ \A i \in 1 .. Len(history.answered) :
               history'.answered[i] = history.answered[i]
          /\ history'.answered[Len(history.answered) + 1] = k
          /\ history'.answered \in Seq(Nat)
      BY <3>1, <3>2, AppendProperties, LenProperties
    <3>5. k = Len(history.answered) + 1
      BY <1>1, <2>3, <3>3 DEF Whole
    <3> HIDE DEF k
    <3>6. AnswersFollowRequests'
      <4>1. \A i \in 1 .. Len(history.answered) : history.answered[i] = i
        BY DEF Whole, AnswersFollowRequests
      <4>2. \A i \in DOMAIN history'.answered : history'.answered[i] = i
        BY <1>1, <3>4, <3>5, <4>1
      <4>3. history'.answered = [i \in 1 .. Len(history'.answered) |-> history'.answered[i]]
        BY <3>4, LenProperties
      <4> QED
        BY <3>4, <4>2, <4>3 DEF AnswersFollowRequests
    <3>7. Back' = Back /\ Out' = Out
      <4>1. Back' = Len(history'.answered) + Len(results')
        BY DEF Back
      <4>2. Back' = Back
        BY <1>1, <3>3, <3>4, <4>1 DEF Back
      <4>3. Out' = Back' + Busy(worker) + Len(worker.queue)
        BY <1>8 DEF Out, Busy
      <4> QED
        BY <4>2, <4>3 DEF Out
    <3>8. \A i \in DOMAIN results' : results'[i] \in Reply =>
             results'[i].number = Len(history'.answered) + i
      <4> TAKE i \in DOMAIN results'
      <4>1. i + 1 \in DOMAIN results /\ results'[i] = results[i + 1] /\ i \in Nat
        BY <1>1, <3>3
      <4>2. results[i + 1] \in Reply =>
              results[i + 1].number = Len(history.answered) + (i + 1)
        BY <2>3, <4>1 DEF Whole
      <4>3. Len(history.answered) + (i + 1) = Len(history'.answered) + i
        BY <1>0, <1>1, <3>4, <4>1
      <4> QED
        BY <4>1, <4>2, <4>3
    <3> QED
      BY <1>8, <2>1, <2>3, <3>1, <3>6, <3>7, <3>8 DEF Whole, Failing, InTurn, Busy
  <2> QED
    BY <1>8, <2>1, <2>2, <2>3 DEF Admits
<1>9. ASSUME ~authority'.available, history'.answered = history.answered
      PROVE  Whole'
  BY <1>9 DEF Whole, AnswersFollowRequests
<1>10. ASSUME NEW input \in Input, NEW u \in Worker, Receives(input, u),
             UNCHANGED <<now, authority, results>>
      PROVE  Whole'
  <2>1. /\ history'.asked = history.asked /\ history'.answered = history.answered
    BY <1>10, ReceivesHistory
  <2> SUFFICES ASSUME authority.available PROVE Whole'
    BY <1>9, <1>10, <2>1
  <2>2. /\ worker.phase = "waiting" /\ worker.answer = NoAnswer /\ ~Failing(worker)
        /\ u.phase = "waiting" /\ u.answer = NoAnswer
        /\ Busy(worker) = 0 /\ Busy(u) = 0
    BY <1>10 DEF Receives, Absorbs, Typed, WorkerTyped, Phased, Failing, Busy
  <2>3. /\ InTurn(worker, Back) /\ Out <= n /\ R = (Out + 1) .. n
    BY <2>2 DEF Whole
  <2>4. Out = Back + Len(worker.queue)
    BY <1>1, <2>2 DEF Out
  <2>5. /\ Lined = Lined' \cup Asked(input) /\ Before(Asked(input), Lined')
    BY <1>10, ReceivesLine DEF Receives, Sequenced
  <2>6. Back' = Back
    BY <1>10, <2>1 DEF Back
  <2>7. ASSUME InTurn(u, Back),
               ~Failing(worker') =>
                 /\ Back + Len(u.queue) <= n
                 /\ {q.number : q \in Lined'} = (Back + Len(u.queue) + 1) .. n
        PROVE  Whole'
    <3>1. Len(u.queue) \in Nat
      BY LenProperties DEF Worker
    <3>2. /\ worker'.answer \in Reply => worker'.answer.number = Back + 1
          /\ ~Failing(worker') => /\ InTurn(worker', Back)
                                  /\ Busy(worker') + Len(worker'.queue) = Len(u.queue)
      BY <1>1, <1>10, <2>2, <2>7, <3>1, TurnOrder DEF Receives
    <3>3. ~Failing(worker') => Out' = Back + Len(u.queue)
      <4>1. Busy(worker') \in Nat /\ Len(worker'.queue) \in Nat
        BY StepKinds, BackCounts DEF Busy, Typed, WorkerTyped, Worker
      <4>2. Out' = Back + Busy(worker') + Len(worker'.queue)
        BY <2>6 DEF Out, Busy
      <4> QED
        BY <1>1, <3>1, <3>2, <4>1, <4>2
    <3> QED
      BY <1>10, <2>1, <2>6, <2>7, <3>2, <3>3
         DEF Whole, AnswersFollowRequests, Failing, InTurn, Busy
  <2>8. CASE u.queue = worker.queue /\ input.kind # "request"
    <3>1. Asked(input) = {}
      BY <2>8 DEF Asked, Asking
    <3>2. InTurn(u, Back)
      BY <2>2, <2>3, <2>8 DEF InTurn
    <3> QED
      BY <2>3, <2>4, <2>5, <2>7, <2>8, <3>1, <3>2
  <2>9. CASE u.queue = worker.queue /\ Fails(u, worker')
    <3>1. Failing(worker')
      <4>1. worker' \in Worker /\ worker'.answer.kind = "failed" /\ worker'.phase = "sending"
        BY <2>9 DEF Fails
      <4>2. worker'.answer \in Result \cup {NoAnswer} /\ NoAnswer.kind = "none"
        BY <4>1 DEF Worker, NoAnswer
      <4>3. worker'.answer \in Failure
        BY <4>1, <4>2 DEF Result, Reply, Failure
      <4> QED
        BY <4>1, <4>3 DEF Failing
    <3>2. InTurn(u, Back)
      BY <2>2, <2>3, <2>9 DEF InTurn
    <3> QED
      BY <2>7, <3>1, <3>2
  <2>10. CASE /\ input.kind = "request" /\ input.request \in Request
              /\ u.queue = Append(worker.queue, input.request)
    <3> DEFINE r == input.request
    <3>1. Asked(input) = {r}
      BY <2>10 DEF Asked, Asking
    <3>2. Lined = Lined' \cup {r} /\ Before({r}, Lined') /\ Lined' \subseteq Request
      BY <1>2, <2>5, <3>1
    <3>3. /\ r.number = Out + 1 /\ Out + 1 <= n
          /\ {q.number : q \in Lined'} = (Out + 2) .. n
      <4> DEFINE S == Lined'
                 T == Lined
                 a == Out
      <4>1. T \in SUBSET Request /\ S \in SUBSET Request /\ T = S \cup {r}
        BY <1>2, <3>2
      <4>2. {q.number : q \in T} = (a + 1) .. n /\ a <= n /\ a \in Nat
        BY <1>1, <2>3
      <4>3. Before({r}, S)
        BY <3>2
      <4> HIDE DEF S, T, a, r, n, R
      <4>4. r \in Request
        BY <2>10 DEF r
      <4>5. r.number = a + 1 /\ a + 1 <= n /\ {q.number : q \in S} = (a + 2) .. n
        BY <1>2, <4>1, <4>2, <4>3, <4>4, FirstOfRow
      <4> QED
        BY <4>5 DEF a, S
    <3> HIDE DEF r
    <3>4. Len(u.queue) = Len(worker.queue) + 1
      <4>1. worker.queue \in Seq(Request) /\ r \in Request
        BY <1>1, <2>10 DEF Worker, r
      <4> QED
        BY <2>10, <4>1, AppendProperties DEF r
    <3>5. InTurn(u, Back)
      <4>1. r.number = Back + Len(worker.queue) + 1 /\ r \in Request
        BY <2>4, <2>10, <3>3 DEF r
      <4> QED
        BY <1>1, <2>2, <2>3, <2>10, <4>1, NextInTurn DEF r
    <3>6. Back + Len(u.queue) = Out + 1
      BY <1>1, <2>4, <3>4
    <3>7. /\ Back + Len(u.queue) <= n
          /\ {q.number : q \in Lined'} = (Back + Len(u.queue) + 1) .. n
      <4>1. Back + Len(u.queue) + 1 = Out + 2
        BY <1>1, <3>6
      <4> QED
        BY <3>3, <3>6, <4>1
    <3> QED
      BY <2>7, <3>5, <3>7
  <2> QED
    BY <1>10, <2>8, <2>9, <2>10 DEF Receives
<1>11. CASE FetchEnds /\ UNCHANGED <<now, authority, channel, results, history>>
  <2> SUFFICES ASSUME authority.available PROVE Whole'
    BY <1>9, <1>11
  <2>1. /\ worker.phase = "fetching" /\ worker.answer = NoAnswer /\ ~Failing(worker)
        /\ Busy(worker) = 0
    BY <1>11 DEF FetchEnds, Typed, WorkerTyped, Phased, Failing, Busy
  <2>2. Turn(worker, worker') \/ Fails(worker, worker')
    BY <1>11 DEF FetchEnds, Turn
  <2>3. InTurn(worker, Back) /\ Out <= n /\ R = (Out + 1) .. n
    BY <2>1 DEF Whole
  <2>4. /\ worker'.answer \in Reply => worker'.answer.number = Back + 1
        /\ ~Failing(worker') => /\ InTurn(worker', Back)
                                /\ Busy(worker') + Len(worker'.queue)
                                     = Busy(worker) + Len(worker.queue)
    BY <1>1, <2>1, <2>2, <2>3, TurnOrder
  <2>5. Back' = Back /\ Lined' = Lined
    BY <1>11 DEF Back, Lined
  <2>6. ~Failing(worker') => Out' = Out
    <3>1. Busy(worker') \in Nat /\ Len(worker'.queue) \in Nat
      <4>1. worker' \in Worker
        BY StepKinds DEF Typed, WorkerTyped
      <4>2. worker'.queue \in Seq(Request)
        BY <4>1 DEF Worker
      <4> QED
        BY <4>2 DEF Busy
    <3>2. Out' = Back + Busy(worker') + Len(worker'.queue)
      BY <2>5 DEF Out, Busy
    <3> QED
      <4>1. Out = Back + (Busy(worker) + Len(worker.queue))
        <5>1. Out = Back + Busy(worker) + Len(worker.queue)
          BY DEF Out, Busy
        <5> QED
          BY <1>1, <5>1
      <4>2. ~Failing(worker') => Busy(worker') + Len(worker'.queue)
                                   = Busy(worker) + Len(worker.queue)
        BY <2>4
      <4>3. Out' = Back + (Busy(worker') + Len(worker'.queue))
        BY <1>1, <3>1, <3>2
      <4> QED
        BY <4>1, <4>2, <4>3
  <2> QED
    BY <1>11, <2>3, <2>4, <2>5, <2>6
       DEF Whole, AnswersFollowRequests, Failing, InTurn, Busy
<1>12. CASE Delivers /\ UNCHANGED <<now, authority, channel>>
  <2>1. /\ history'.asked = history.asked /\ history'.answered = history.answered
    BY <1>12, HistoryParts DEF Delivers
  <2> SUFFICES ASSUME authority.available PROVE Whole'
    BY <1>9, <1>12, <2>1
  <2>2. /\ results' = Append(results, worker.answer) /\ worker.answer \in Result
        /\ worker.phase = "sending" /\ worker'.answer = NoAnswer
        /\ worker'.queue = worker.queue /\ Busy(worker) = 1
        /\ worker'.phase = IF worker.answer.kind = "failed" THEN "ended" ELSE "waiting"
    BY <1>12 DEF Delivers, Busy
  <2>3. /\ Len(results') = Len(results) + 1
        /\ DOMAIN results' = 1 .. Len(results) + 1
        /\ \A i \in 1 .. Len(results) : results'[i] = results[i]
        /\ results'[Len(results) + 1] = worker.answer
    <3>1. results \in Seq(Result)
      BY DEF Typed, BackTyped
    <3> QED
      BY <2>2, <3>1, AppendProperties, LenProperties
  <2>4. \A i \in DOMAIN results' : results'[i] \in Reply =>
          results'[i].number = Len(history'.answered) + i
    <3> TAKE i \in DOMAIN results'
    <3>1. CASE i = Len(results) + 1
      <4>1. worker.answer \in Reply => worker.answer.number = Back + 1
        BY DEF Whole
      <4>2. Back + 1 = Len(history'.answered) + i
        <5>1. (Len(history.answered) + Len(results)) + 1
                = Len(history.answered) + (Len(results) + 1)
          BY <1>0, <1>1
        <5> QED
          BY <2>1, <3>1, <5>1 DEF Back
      <4> QED
        BY <2>3, <3>1, <4>1, <4>2
    <3>2. CASE i # Len(results) + 1
      <4>1. i \in DOMAIN results /\ results'[i] = results[i]
        BY <1>1, <2>3, <3>2
      <4> QED
        BY <2>1, <4>1 DEF Whole
    <3> QED
      BY <3>1, <3>2
  <2>5. Back' = Back + 1 /\ Lined' = Lined /\ Busy(worker') = 0
    <3>1. Back' = Len(history.answered) + (Len(results) + 1)
      BY <2>1, <2>3 DEF Back
    <3>2. Back' = Back + 1
      <4>1. (Len(history.answered) + Len(results)) + 1
              = Len(history.answered) + (Len(results) + 1)
        BY <1>0, <1>1
      <4> QED
        BY <3>1, <4>1 DEF Back
    <3>3. Lined' = Lined
      BY <1>12 DEF Lined
    <3>4. Busy(worker') = 0
      BY <2>2 DEF Busy
    <3> QED
      BY <3>2, <3>3, <3>4
  <2>6. Out' = Out
    <3>1. Out' = Back' + Busy(worker') + Len(worker'.queue)
      BY DEF Out, Busy
    <3> QED
      BY <1>1, <2>2, <2>5, <3>1 DEF Out
  <2>7. ~Failing(worker') => ~Failing(worker)
    <3>1. worker.answer \in Failure => worker'.phase = "ended"
      BY <2>2 DEF Failure
    <3> QED
      BY <2>2, <3>1 DEF Failing
  <2>8. InTurn(worker, Back) => InTurn(worker', Back')
    <3> SUFFICES ASSUME InTurn(worker, Back), NEW i \in DOMAIN worker.queue
                 PROVE  worker.queue[i].number = Back + 1 + 0 + i
      BY <2>2, <2>5 DEF InTurn
    <3>1. worker.queue[i].number = Back + 1 + i
      BY <2>2 DEF InTurn
    <3>2. i \in Nat
      BY <1>1, LenProperties DEF Worker
    <3> QED
      BY <1>1, <3>1, <3>2
  <2> QED
    BY <1>3, <1>12, <2>1, <2>2, <2>4, <2>5, <2>6, <2>7, <2>8
       DEF Whole, AnswersFollowRequests, Failing, InTurn, Busy
<1> QED
  BY <1>5, <1>6, <1>7, <1>8, <1>10, <1>11, <1>12, StepKinds

\* For as long as recovery is not fenced, answers are admitted in the order of
\* the requests, each once and none left out.
THEOREM AnswersInOrder == Spec => []AnswersFollowRequests
<1>1. Init => Typed /\ Sequenced /\ Whole
  BY InitTyped, InitSequenced, InitWhole
<1>2. Typed /\ Sequenced /\ Whole /\ [Next]_vars => (Typed /\ Sequenced /\ Whole)'
  BY StepKinds, SequencedStep, WholeStep
<1>3. Whole => AnswersFollowRequests
  BY DEF Whole
<1> QED
  BY <1>1, <1>2, <1>3, PTL DEF Spec

----------------------------------------------------------------------------
(* Evidence is kept                                                        *)

\* What a waiting request was told is of its market, and is still there if the
\* request needs it.
Keeps(w, heard) ==
  \A r \in Queued(w) : \A trade \in heard[r.number] :
    /\ trade.market = r.market
    /\ After(r, trade) => \/ trade \in w.evidence[r.market].trades
                          \/ w.evidence[r.market].exhausted

\* A request hears nothing before it waits.
Listened ==
  /\ \A n \in 1 .. MaxRequests : n > Len(history.asked) => history.heard[n] = {}
  /\ \A r \in Lined : history.heard[r.number] = {}
  /\ Keeps(worker, history.heard)

LEMMA TurnKeeps ==
  ASSUME NEW w \in Worker, NEW v, NEW heard, Turn(w, v) \/ Fails(w, v),
         Keeps(w, heard)
  PROVE  Keeps(v, heard)
<1>1. CASE v.queue = w.queue /\ v.evidence = w.evidence
  BY <1>1 DEF Keeps, Queued
<1>2. CASE Replies(w, v)
  <2> SUFFICES ASSUME NEW r \in Queued(v), NEW trade \in heard[r.number]
               PROVE  /\ trade.market = r.market
                      /\ After(r, trade) => \/ trade \in v.evidence[r.market].trades
                                            \/ v.evidence[r.market].exhausted
    BY DEF Keeps
  <2>1. r \in Queued(w)
    BY <1>2, TurnQueue DEF Turn
  <2>2. r \in Waiting(v, r.market) /\ r.market \in Markets
    <3>1. r \in Request
      <4>1. w.queue \in Seq(Request)
        BY DEF Worker
      <4> QED
        BY <2>1, <4>1, ElementOfSeq, LenProperties DEF Queued
    <3> QED
      BY <3>1 DEF Waiting, Request
  <2>3. /\ trade.market = r.market
        /\ After(r, trade) => \/ trade \in w.evidence[r.market].trades
                              \/ w.evidence[r.market].exhausted
    BY <2>1 DEF Keeps
  <2>4. /\ v.evidence[r.market].exhausted = w.evidence[r.market].exhausted
        /\ \A t \in w.evidence[r.market].trades :
             t.market = r.market /\ After(r, t) => t \in v.evidence[r.market].trades
    BY <1>2, <2>2 DEF Replies, Leaves
  <2> QED
    BY <2>3, <2>4
<1> QED
  BY <1>1, <1>2 DEF Turn, Fetches, Fails

LEMMA InitListened == Init => Listened
<1> SUFFICES ASSUME Init PROVE Listened
  OBVIOUS
<1>1. /\ worker.queue = <<>> /\ history.heard = [n \in 1 .. MaxRequests |-> {}]
      /\ channel = <<>> /\ authority.pending = <<>> /\ authority.handler = <<>>
  BY DEF Init
<1>2. Lined = {} /\ Queued(worker) = {}
  BY <1>1, EmptyRequests DEF Lined, Queued
<1> QED
  BY <1>1, <1>2 DEF Listened, Keeps

LEMMA ListenedStep ==
  ASSUME Typed, Sequenced, Listened, [Next]_vars
  PROVE  Listened'
<1>1. /\ Queued(worker) \subseteq Request /\ Lined \subseteq Request
      /\ Len(history.asked) \in Nat /\ history.asked \in Seq(Request)
      /\ DOMAIN history.asked = 1 .. Len(history.asked)
      /\ worker \in Worker
  BY QueuedKnown, BackCounts
<1>2. ASSUME Lined' \subseteq Lined, history'.heard = history.heard,
             history'.asked = history.asked, Keeps(worker', history.heard)
      PROVE  Listened'
  BY <1>2 DEF Listened, Keeps, Queued
<1>3. ASSUME worker'.queue = worker.queue, worker'.evidence = worker.evidence
      PROVE  Keeps(worker', history.heard)
  BY <1>3 DEF Listened, Keeps, Queued
<1>4. CASE /\ Moves \/ Flushes \/ (Offers /\ channel' = channel)
           /\ UNCHANGED <<now, worker, results, history>>
  <2>1. Lined' \subseteq Lined
    BY <1>4, MovesLine, OffersLine DEF Sequenced
  <2> QED
    BY <1>2, <1>3, <1>4, <2>1
<1>5. ASSUME NEW r \in Request, Requests(r), UNCHANGED <<now, channel, worker, results>>
      PROVE  Listened'
  <2>1. Lined' = Lined \cup {r}
    BY <1>5, RequestsLine
  <2>2. /\ history'.asked = Append(history.asked, r)
        /\ r.number = Len(history.asked) + 1 /\ history'.heard = history.heard
    BY <1>5, HistoryParts DEF Requests
  <2>3. Len(history'.asked) = Len(history.asked) + 1
    BY <1>1, <2>2, AppendProperties
  <2>4. history.heard[r.number] = {}
    <3>1. r.number \in 1 .. MaxRequests /\ r.number > Len(history.asked)
      BY <1>1, <2>2 DEF Request
    <3> QED
      BY <3>1 DEF Listened
  <2>5. \A n \in 1 .. MaxRequests : n > Len(history'.asked) => history'.heard[n] = {}
    BY <1>1, <2>2, <2>3 DEF Listened
  <2>6. \A q \in Lined' : history'.heard[q.number] = {}
    BY <2>1, <2>2, <2>4 DEF Listened
  <2>7. Keeps(worker', history'.heard)
    BY <1>3, <1>5, <2>2
  <2> QED
    BY <2>5, <2>6, <2>7 DEF Listened, Keeps, Queued
<1>6. CASE Admits /\ UNCHANGED <<now, channel, worker>>
  <2>1. Lined' \subseteq Lined
    BY <1>6, AdmitsLine DEF Sequenced
  <2>2. history'.asked = history.asked /\ history'.heard = history.heard
    BY <1>6, HistoryParts DEF Admits
  <2> QED
    BY <1>2, <1>3, <1>6, <2>1, <2>2
<1>7. ASSUME NEW input \in Input, NEW u \in Worker, Receives(input, u),
             UNCHANGED <<now, authority, results>>
      PROVE  Listened'
  <2>1. history'.asked = history.asked
    BY <1>7, ReceivesHistory
  <2>2. Lined = Lined' \cup Asked(input)
    BY <1>7, ReceivesLine DEF Receives, Sequenced
  <2>3. ASSUME Keeps(u, history'.heard) PROVE Keeps(worker', history'.heard)
    BY <1>7, <2>3, TurnKeeps DEF Receives
  <2>4. \A r \in Queued(worker) : \A trade \in history.heard[r.number] :
          /\ trade.market = r.market /\ r.market \in Markets
          /\ After(r, trade) => \/ trade \in u.evidence[r.market].trades
                                \/ u.evidence[r.market].exhausted
    <3> TAKE r \in Queued(worker)
    <3> TAKE trade \in history.heard[r.number]
    <3>1. r.market \in Markets
      BY <1>1 DEF Request
    <3>2. /\ worker.evidence[r.market].trades \subseteq u.evidence[r.market].trades
          /\ worker.evidence[r.market].exhausted => u.evidence[r.market].exhausted
      BY <1>7, <3>1 DEF Receives, Absorbs
    <3> QED
      BY <3>1, <3>2 DEF Listened, Keeps
  <2>5. CASE input.kind = "source"
    <3> DEFINE trade == input.trade
               heard == history'.heard
    <3>1. /\ trade \in Trade /\ u.queue = worker.queue
          /\ u = RetainCommittedSource(worker, trade)
      BY <1>7, <2>5 DEF Receives
    <3>2. \A k \in 1 .. MaxRequests :
            heard[k] = IF \E r \in Waiting(worker, trade.market) : r.number = k
                       THEN history.heard[k] \cup {trade} ELSE history.heard[k]
      BY <1>7, <2>5, ReceivesHistory
    <3>3. \A r \in Waiting(worker, trade.market) : After(r, trade) =>
            \/ trade \in u.evidence[trade.market].trades
            \/ u.evidence[trade.market].exhausted
      BY <1>1, <3>1, RetainedAbsorbs
    <3> HIDE DEF trade, heard
    <3>4. Keeps(u, heard)
      <4> SUFFICES ASSUME NEW r \in Queued(worker), NEW t \in heard[r.number]
                   PROVE  /\ t.market = r.market
                          /\ After(r, t) => \/ t \in u.evidence[r.market].trades
                                            \/ u.evidence[r.market].exhausted
        BY <3>1 DEF Keeps, Queued
      <4>1. r.number \in 1 .. MaxRequests
        BY <1>1 DEF Request
      <4>2. CASE t \in history.heard[r.number]
        BY <2>4, <4>2
      <4>3. CASE t \notin history.heard[r.number]
        <5> DEFINE k == r.number
                   told == \E q \in Waiting(worker, trade.market) : q.number = k
        <5> HIDE DEF k, told
        <5>1. heard[k] = IF told THEN history.heard[k] \cup {trade}
                         ELSE history.heard[k]
          BY <3>2, <4>1 DEF k, told
        <5>2. t \in heard[k] /\ t \notin history.heard[k]
          BY <4>3 DEF k
        <5>3. told /\ t = trade
          BY <5>1, <5>2
        <5>4. PICK q \in Waiting(worker, trade.market) : q.number = r.number /\ t = trade
          BY <5>3 DEF told, k
        <5>5. q = r
          BY <5>4 DEF Sequenced, Known, Waiting
        <5> QED
          BY <3>3, <5>4, <5>5 DEF Waiting
      <4> QED
        BY <4>2, <4>3
    <3>5. \A r \in Lined' : heard[r.number] = {}
      <4> TAKE r \in Lined'
      <4>1. r \in Lined /\ r.number \in 1 .. MaxRequests
        BY <1>1, <2>2 DEF Request
      <4>2. ~\E q \in Waiting(worker, trade.market) : q.number = r.number
        BY <1>1, <4>1 DEF Sequenced, Before, Waiting, Request
      <4> QED
        BY <3>2, <4>1, <4>2 DEF Listened
    <3>6. \A n \in 1 .. MaxRequests : n > Len(history.asked) => heard[n] = {}
      <4> SUFFICES ASSUME NEW n \in 1 .. MaxRequests, n > Len(history.asked)
                   PROVE  heard[n] = {}
        OBVIOUS
      <4>1. ~\E q \in Waiting(worker, trade.market) : q.number = n
        <5>1. \A q \in Queued(worker) : q.number \in 1 .. Len(history.asked)
          BY <1>1 DEF Sequenced, Known
        <5> QED
          BY <1>1, <5>1 DEF Waiting
      <4> QED
        BY <3>2, <4>1 DEF Listened
    <3> QED
      BY <2>1, <2>3, <3>4, <3>5, <3>6 DEF Listened, Keeps, Queued, heard
  <2>6. CASE input.kind # "source"
    <3>1. history'.heard = history.heard
      BY <1>7, <2>6, ReceivesHistory
    <3>2. CASE u.queue = worker.queue
      <4>1. Keeps(u, history.heard)
        BY <2>4, <3>2 DEF Keeps, Queued
      <4> QED
        BY <1>2, <2>1, <2>2, <2>3, <3>1, <4>1
    <3>3. CASE /\ input.kind = "request" /\ input.request \in Request
               /\ u.queue = Append(worker.queue, input.request)
      <4>1. Queued(u) = Queued(worker) \cup {input.request}
        BY <1>1, <3>3, AppendQueue
      <4>2. history.heard[input.request.number] = {}
        BY <2>2, <3>3 DEF Asked, Asking, Listened
      <4>3. Keeps(u, history.heard)
        BY <2>4, <4>1, <4>2 DEF Keeps
      <4> QED
        BY <1>2, <2>1, <2>2, <2>3, <3>1, <4>3
    <3> QED
      BY <1>7, <2>6, <3>2, <3>3 DEF Receives
  <2> QED
    BY <2>5, <2>6
<1>8. CASE FetchEnds /\ UNCHANGED <<now, authority, channel, results, history>>
  <2>1. Turn(worker, worker') \/ Fails(worker, worker')
    BY <1>8 DEF FetchEnds, Turn
  <2>2. Keeps(worker', history.heard)
    BY <1>1, <2>1, TurnKeeps DEF Listened
  <2>3. Lined' = Lined
    BY <1>8 DEF Lined
  <2> QED
    BY <1>2, <1>8, <2>2, <2>3
<1>9. CASE Delivers /\ UNCHANGED <<now, authority, channel>>
  <2>1. history'.asked = history.asked /\ history'.heard = history.heard
    BY <1>9, HistoryParts DEF Delivers
  <2>2. Lined' = Lined
    BY <1>9 DEF Lined
  <2> QED
    BY <1>2, <1>3, <1>9, <2>1, <2>2 DEF Delivers
<1>10. CASE Passes
  <2>1. Lined' = Lined
    BY <1>10 DEF Passes, Lined
  <2> QED
    BY <1>2, <1>3, <1>10, <2>1 DEF Passes
<1> QED
  BY <1>4, <1>5, <1>6, <1>7, <1>8, <1>9, <1>10, StepKinds

\* No trade that a waiting request needs is dropped without the request knowing
\* that its evidence overflowed, whatever was answered before it.
THEOREM EvidenceKept == Spec => []EvidenceIsKept
<1>1. Init => Typed /\ Sequenced /\ Listened
  BY InitTyped, InitSequenced, InitListened
<1>2. Typed /\ Sequenced /\ Listened /\ [Next]_vars
        => (Typed /\ Sequenced /\ Listened)'
  BY StepKinds, SequencedStep, ListenedStep
<1>3. Listened => EvidenceIsKept
  BY DEF Listened, Keeps, EvidenceIsKept
<1> QED
  BY <1>1, <1>2, <1>3, PTL DEF Spec

----------------------------------------------------------------------------
(* Final bars stay final                                                   *)

LEMMA BoundaryRises ==
  ASSUME NEW a \in Nat, NEW b \in Nat, a <= b
  PROVE  NextBoundary(a) <= NextBoundary(b)
<1>1. Hour \in Nat \ {0}
  BY BarsAssumption
<1> DEFINE x == a + Hour - 1
           y == b + Hour - 1
           p == x \div Hour
           q == y \div Hour
<1>2. x \in Nat /\ y \in Nat /\ x <= y
  BY <1>1
<1> HIDE DEF x, y
<1>3. p \in Nat /\ q \in Nat /\ p <= q
  BY <1>1, <1>2
<1> HIDE DEF p, q
<1>4. \A m, n \in Nat : m <= n => m * Hour <= n * Hour
  BY <1>1
<1> QED
  BY <1>3, <1>4 DEF NextBoundary, p, q, x, y

\* The answers among what was given, and the one at hand.
Said(given, answer) ==
  {a \in {given[i] : i \in DOMAIN given} : a.kind = "answer"}
    \cup (IF answer \in Reply THEN {answer} ELSE {})

\* What is final in a set of answers, against the state of the candles: bars
\* lie behind the watermark, and a span that was called unavailable is a gap.
Grounded(said, candles, asked) ==
  \A a \in said :
    /\ a \in Reply /\ a.number \in DOMAIN asked
    /\ a.market = asked[a.number].market
    /\ a.bars # {} => candles[a.market].watermark # None
    /\ \A bar \in a.bars : Close(bar) <= candles[a.market].watermark
    /\ a.status # "reconciled" =>
         /\ a.bars = {}
         /\ Span(asked[a.number]) \in candles[a.market].gaps

\* Two answers do not revise each other.
Apart(a, b, asked) ==
  a.market = b.market /\ a.number # b.number =>
    /\ a.bars \cap b.bars = {}
    /\ b.status # "reconciled" =>
         \A bar \in a.bars : ~Overlaps(Span(asked[b.number]), bar)

Disjoint(said, asked) == \A a, b \in said : Apart(a, b, asked)

\* No watermark is ahead of the time or of a request that is not answered.
Behind(candles, t, R) ==
  \A m \in Markets :
    /\ candles[m].watermark <= NextBoundary(t)
    /\ \A r \in R : candles[m].watermark <= NextBoundary(r.snapshot)

Settled ==
  /\ Grounded(Said(history.given, worker.answer), worker.candles, history.asked)
  /\ Disjoint(Said(history.given, worker.answer), history.asked)
  /\ Behind(worker.candles, now, Lined \cup Queued(worker))

LEMMA MarkType ==
  ASSUME NEW w \in Worker, NEW m \in Markets
  PROVE  w.candles[m].watermark \in Nat \cup {None}
BY DEF Worker, CandleState

\* The answer of a turn joins the older ones.
LEMMA ReplySettles ==
  ASSUME NEW w \in Worker, NEW v, Replies(w, v), NEW S, NEW asked,
         Grounded(S, w.candles, asked), Disjoint(S, asked),
         Head(w.queue).number \in DOMAIN asked,
         Head(w.queue) = asked[Head(w.queue).number],
         w.candles[Head(w.queue).market].watermark
           <= NextBoundary(Head(w.queue).snapshot)
  PROVE  /\ Grounded(S \cup {v.answer}, v.candles, asked)
         /\ Disjoint(S \cup {v.answer}, asked)
<1> DEFINE r == Head(w.queue)
           a == v.answer
           m == r.market
           old == w.candles[m].watermark
           new == NextBoundary(r.snapshot)
<1>1. /\ r \in Request /\ m \in Markets /\ r.snapshot \in Nat
      /\ r.predecessor \in Nat \cup {None}
  <2>1. r \in Request
    BY HeadOfQueue DEF Replies, Leaves
  <2> QED
    BY <2>1, RecoveryAssumption DEF Request, Times
<1>2. /\ a \in Reply /\ a.number = r.number /\ a.market = m
      /\ asked[a.number] = r /\ a.number \in DOMAIN asked
  BY DEF Replies, Leaves
<1>3. old \in Nat \cup {None} /\ new \in Nat /\ old <= new
  BY <1>1, MarkType, BoundaryType
<1>4. \A b \in S : /\ b \in Reply /\ b.market \in Markets
                   /\ \A bar \in b.bars : Close(bar) \in Nat
  <2>1. \A b \in Reply : b.market \in Markets /\ b.bars \subseteq Bar
    BY DEF Reply
  <2>2. \A bar \in Bar : Close(bar) \in Nat
    BY BarsAssumption DEF Bar, Close, Sleeves
  <2> QED
    BY <2>1, <2>2 DEF Grounded
<1>5. \A bar \in a.bars : Close(bar) \in Nat
  BY <1>2, BarsAssumption DEF Reply, Bar, Close, Sleeves
<1>6. Misses(w, v) \/ Matches(w, v)
  BY DEF Replies
<1>7. \A b \in S : Apart(b, b, asked)
  BY DEF Disjoint
<1>8. Apart(a, a, asked)
  BY DEF Apart
<1> HIDE DEF r, a, m, old, new
<1>9. CASE Misses(w, v)
  <2>1. /\ a.status # "reconciled" /\ a.bars = {} /\ ~Revises(w, r)
        /\ Span(r) \in v.candles[m].gaps
        /\ \A n \in Markets :
             /\ v.candles[n].watermark = w.candles[n].watermark
             /\ w.candles[n].gaps \subseteq v.candles[n].gaps
    BY <1>9 DEF Misses, r, a, m
  <2>2. Grounded(S \cup {a}, v.candles, asked)
    <3>1. Grounded({a}, v.candles, asked)
      <4>1. /\ a.market = asked[a.number].market
            /\ Span(asked[a.number]) \in v.candles[a.market].gaps
        BY <1>2, <2>1 DEF m
      <4> QED
        BY <1>2, <2>1, <4>1 DEF Grounded
    <3>2. ASSUME NEW b \in S PROVE Grounded({b}, v.candles, asked)
      BY <1>4, <2>1 DEF Grounded
    <3> QED
      BY <3>1, <3>2 DEF Grounded
  <2>3. ASSUME NEW b \in S PROVE Apart(a, b, asked)
    BY <2>1 DEF Apart
  <2>4. ASSUME NEW b \in S PROVE Apart(b, a, asked)
    <3> SUFFICES ASSUME b.market = a.market, NEW bar \in b.bars
                 PROVE  ~Overlaps(Span(r), bar)
      BY <1>2, <2>1 DEF Apart
    <3>1. b.market = m /\ Close(bar) <= old /\ old # None /\ Close(bar) \in Nat
      BY <1>2, <1>4 DEF Grounded, old
    <3>2. r.predecessor # None /\ ~(r.predecessor < old)
      BY <2>1, <3>1 DEF Revises, old, m
    <3>3. Close(bar) <= r.predecessor
      BY <1>1, <1>3, <3>1, <3>2
    <3>4. Span(r).start = r.predecessor
      BY DEF Span
    <3> QED
      BY <1>1, <3>1, <3>2, <3>3, <3>4 DEF Overlaps
  <2> QED
    BY <1>8, <2>2, <2>3, <2>4 DEF Disjoint, a
<1>10. CASE Matches(w, v)
  <2>1. /\ a.status = "reconciled" /\ v.candles[m].watermark = new
        /\ \A bar \in a.bars :
             /\ Close(bar) <= new
             /\ old = None \/ Close(bar) > old
             /\ \A gap \in w.candles[m].gaps : ~Overlaps(gap, bar)
        /\ \A n \in Markets :
             /\ v.candles[n].gaps = w.candles[n].gaps
             /\ n # m => v.candles[n].watermark = w.candles[n].watermark
    BY <1>10 DEF Matches, r, a, m, old, new
  <2>2. \A b \in S \cup {a} : \A bar \in b.bars :
          Close(bar) <= v.candles[b.market].watermark
    <3> SUFFICES ASSUME NEW b \in S, NEW bar \in b.bars
                 PROVE  Close(bar) <= v.candles[b.market].watermark
      BY <1>2, <2>1
    <3>1. Close(bar) <= w.candles[b.market].watermark
      BY DEF Grounded
    <3>2. CASE b.market = m
      <4>1. Close(bar) <= old /\ Close(bar) \in Nat
        BY <1>4, <3>1, <3>2 DEF old
      <4>2. Close(bar) <= new
        BY <1>3, <4>1
      <4> QED
        BY <2>1, <3>2, <4>2
    <3>3. CASE b.market # m
      BY <1>4, <2>1, <3>1, <3>3
    <3> QED
      BY <3>2, <3>3
  <2>3. new # None
    BY <1>3 DEF None
  <2>4. \A b \in S \cup {a} :
          b.bars # {} => v.candles[b.market].watermark # None
    BY <1>2, <1>4, <2>1, <2>3 DEF Grounded
  <2>5. Grounded(S \cup {a}, v.candles, asked)
    <3>1. Grounded({a}, v.candles, asked)
      <4>1. a.market = asked[a.number].market
        BY <1>2 DEF m
      <4> QED
        BY <1>2, <2>1, <2>2, <2>4, <4>1 DEF Grounded
    <3>2. ASSUME NEW b \in S PROVE Grounded({b}, v.candles, asked)
      BY <1>4, <2>1, <2>2, <2>4 DEF Grounded
    <3> QED
      BY <3>1, <3>2 DEF Grounded
  <2>6. ASSUME NEW b \in S PROVE Apart(b, a, asked) /\ Apart(a, b, asked)
    <3> SUFFICES ASSUME b.market = a.market
                 PROVE  /\ a.bars \cap b.bars = {}
                        /\ b.status # "reconciled" =>
                             \A bar \in a.bars : ~Overlaps(Span(asked[b.number]), bar)
      BY <2>1 DEF Apart
    <3>1. a.bars \cap b.bars = {}
      <4> SUFFICES ASSUME NEW bar \in a.bars, bar \in b.bars PROVE FALSE
        OBVIOUS
      <4>1. Close(bar) <= old /\ old # None /\ Close(bar) \in Nat
        BY <1>2, <1>5 DEF Grounded, old
      <4>2. Close(bar) > old
        BY <2>1, <4>1
      <4> QED
        BY <1>3, <4>1, <4>2
    <3>2. b.status # "reconciled" => Span(asked[b.number]) \in w.candles[m].gaps
      BY <1>2 DEF Grounded
    <3> QED
      BY <2>1, <3>1, <3>2
  <2> QED
    BY <1>8, <2>5, <2>6 DEF Disjoint, a
<1> QED
  BY <1>6, <1>9, <1>10

\* Every request of R is the one that was asked under its number.
AllAsked(R, asked) == \A r \in R : /\ r \in Request /\ r.number \in DOMAIN asked
                                   /\ r = asked[r.number]

\* What a turn of the worker does to what was said.
LEMMA TurnSettles ==
  ASSUME NEW w \in Worker, w.answer = NoAnswer, NEW v, Turn(w, v) \/ Fails(w, v),
         NEW S, NEW asked, NEW R, NEW t \in Nat, DOMAIN asked \subseteq Nat,
         Grounded(S, w.candles, asked), Disjoint(S, asked),
         Behind(w.candles, t, R \cup Queued(w)),
         AllAsked(R \cup Queued(w), asked),
         Rising(w.queue), Before(Queued(w), R),
         \A i \in DOMAIN asked : asked[i].snapshot <= t,
         \A i, j \in DOMAIN asked : i < j => asked[i].snapshot <= asked[j].snapshot
  PROVE  LET T == S \cup (IF v.answer \in Reply THEN {v.answer} ELSE {})
         IN  /\ Grounded(T, v.candles, asked) /\ Disjoint(T, asked)
             /\ Behind(v.candles, t, R \cup Queued(v))
<1> DEFINE T == S \cup (IF v.answer \in Reply THEN {v.answer} ELSE {})
<1>1. ASSUME v.candles = w.candles, v.queue = w.queue, v.answer \notin Reply
      PROVE  /\ Grounded(T, v.candles, asked) /\ Disjoint(T, asked)
             /\ Behind(v.candles, t, R \cup Queued(v))
  <2>1. T = S /\ Queued(v) = Queued(w)
    BY <1>1 DEF Queued
  <2> QED
    BY <1>1, <2>1
<1>2. NoAnswer \notin Reply
  BY DEF NoAnswer, Reply
<1>3. CASE v = w \/ Fetches(w, v)
  <2>1. v.candles = w.candles /\ v.queue = w.queue /\ v.answer = NoAnswer
    BY <1>3 DEF Fetches
  <2> QED
    BY <1>1, <1>2, <2>1
<1>4. CASE Fails(w, v)
  <2>1. v.candles = w.candles /\ v.queue = w.queue /\ v.answer \notin Reply
    BY <1>4 DEF Fails, Reply
  <2> QED
    BY <1>1, <2>1
<1>5. CASE Replies(w, v)
  <2> DEFINE r == Head(w.queue)
             new == NextBoundary(r.snapshot)
  <2>1. /\ w.queue # <<>> /\ v.queue = Tail(w.queue) /\ v.answer \in Reply
    BY <1>5 DEF Replies, Leaves
  <2>2. /\ Queued(w) = Queued(v) \cup {r} /\ Before({r}, Queued(v))
    BY <2>1, TailQueue
  <2>3. /\ r.market \in Markets /\ r.number \in DOMAIN asked
        /\ r = asked[r.number] /\ w.candles[r.market].watermark <= new
    BY <2>1, <2>2, HeadOfQueue DEF AllAsked, Behind
  <2>4. T = S \cup {v.answer}
    BY <2>1
  <2>5. Grounded(T, v.candles, asked) /\ Disjoint(T, asked)
    BY <1>5, <2>3, <2>4, ReplySettles
  <2>6. ASSUME NEW q \in R \cup Queued(v) PROVE r.snapshot <= q.snapshot
    <3>1. r.number < q.number
      BY <2>2 DEF Before
    <3>2. q \in R \cup Queued(w)
      BY <2>2
    <3>3. q.number \in DOMAIN asked /\ q = asked[q.number]
      BY <3>2 DEF AllAsked
    <3> QED
      BY <2>3, <3>1, <3>3
  <2>7. /\ r.snapshot \in Nat /\ r.snapshot <= t
        /\ \A q \in R \cup Queued(w) : q.snapshot \in Nat
    BY <2>2, <2>3, RecoveryAssumption DEF AllAsked, Request, Times
  <2>8. new <= NextBoundary(t) /\ \A q \in R \cup Queued(v) : new <= NextBoundary(q.snapshot)
    BY <2>2, <2>6, <2>7, BoundaryRises
  <2>9. \A m \in Markets : \/ v.candles[m].watermark = w.candles[m].watermark
                           \/ v.candles[m].watermark = new
    <3> HIDE DEF new
    <3>1. Misses(w, v) => \A m \in Markets : v.candles[m].watermark = w.candles[m].watermark
      BY DEF Misses
    <3>2. Matches(w, v) =>
            /\ v.candles[r.market].watermark = new
            /\ \A m \in Markets : m # r.market =>
                 v.candles[m].watermark = w.candles[m].watermark
      BY DEF Matches, new
    <3> QED
      BY <1>5, <3>1, <3>2 DEF Replies
  <2> HIDE DEF new, r
  <2>10. Behind(v.candles, t, R \cup Queued(v))
    BY <2>2, <2>8, <2>9 DEF Behind
  <2> QED
    BY <2>5, <2>10
<1> QED
  BY <1>3, <1>4, <1>5 DEF Turn

LEMMA InitSettled == Init => Settled
<1> SUFFICES ASSUME Init PROVE Settled
  OBVIOUS
<1>1. /\ worker.queue = <<>> /\ worker.answer = NoAnswer /\ history.given = <<>>
      /\ worker.candles = [m \in Markets |->
           [trades |-> {}, gaps |-> {}, watermark |-> None]]
      /\ channel = <<>> /\ authority.pending = <<>> /\ authority.handler = <<>>
      /\ now = 0
  BY DEF Init
<1>2. Lined = {} /\ Queued(worker) = {}
  BY <1>1, EmptyRequests DEF Lined, Queued
<1>3. Said(history.given, worker.answer) = {}
  <2>1. NoAnswer \notin Reply
    BY DEF NoAnswer, Reply
  <2> QED
    BY <1>1, <2>1 DEF Said
<1>4. Behind(worker.candles, now, {})
  <2>1. NextBoundary(0) \in Nat
    BY BoundaryType
  <2>2. None <= NextBoundary(0)
    BY <2>1 DEF None
  <2> QED
    BY <1>1, <2>2 DEF Behind
<1> QED
  BY <1>2, <1>3, <1>4 DEF Settled, Grounded, Disjoint

LEMMA SettledStep ==
  ASSUME Typed, Sequenced, Settled, [Next]_vars
  PROVE  Settled'
<1> DEFINE said  == Said(history.given, worker.answer)
           asked == history.asked
<1>1. /\ worker \in Worker /\ Phased(worker) /\ now \in Nat /\ now' \in Nat
      /\ asked \in Seq(Request) /\ Len(asked) \in Nat /\ DOMAIN asked = 1 .. Len(asked)
      /\ Lined \subseteq Request /\ Queued(worker) \subseteq Request
      /\ history.given \in Seq(Result)
  <2>1. worker \in Worker /\ Phased(worker)
    BY DEF Typed, WorkerTyped
  <2>2. now \in Nat /\ now' \in Nat
    BY StepKinds, RecoveryAssumption DEF Typed, OutsideTyped, Times
  <2>3. asked \in Seq(Request) /\ history.given \in Seq(Result)
    BY DEF Typed, OutsideTyped, BackTyped, History
  <2>4. Len(asked) \in Nat /\ DOMAIN asked = 1 .. Len(asked)
    BY <2>3
  <2>5. Lined \subseteq Request /\ Queued(worker) \subseteq Request
    BY QueuedKnown
  <2> QED
    BY <2>1, <2>2, <2>3, <2>4, <2>5
<1>2. NoAnswer \notin Reply
  BY DEF NoAnswer, Reply
<1>3. /\ AllAsked(Lined \cup Queued(worker), asked)
      /\ Rising(worker.queue) /\ Before(Queued(worker), Lined)
      /\ \A i \in DOMAIN asked : asked[i].snapshot <= now
      /\ \A i, j \in DOMAIN asked : i < j => asked[i].snapshot <= asked[j].snapshot
  BY <1>1 DEF Sequenced, Numbered, Known, AllAsked
<1>4. Said(history.given, NoAnswer) \subseteq said
  BY <1>2 DEF Said
<1>5. /\ Grounded(said, worker.candles, asked) /\ Disjoint(said, asked)
      /\ Behind(worker.candles, now, Lined \cup Queued(worker))
  BY DEF Settled
<1>6. ASSUME worker'.candles = worker.candles, Queued(worker') \subseteq Queued(worker),
             Said(history'.given, worker'.answer) \subseteq said,
             history'.asked = asked, Lined' \subseteq Lined, now <= now'
      PROVE  Settled'
  <2>1. \A m \in Markets : worker.candles[m].watermark <= NextBoundary(now')
    <3> TAKE m \in Markets
    <3>1. NextBoundary(now) <= NextBoundary(now')
      BY <1>1, <1>6, BoundaryRises
    <3>2. worker.candles[m].watermark \in Nat \cup {None}
      BY <1>1, MarkType
    <3>3. NextBoundary(now) \in Nat
      BY <1>1, BoundaryType
    <3>4. NextBoundary(now') \in Nat
      BY <1>1, BoundaryType
    <3>5. worker.candles[m].watermark <= NextBoundary(now)
      BY <1>5 DEF Behind
    <3> QED
      BY <3>1, <3>2, <3>3, <3>4, <3>5 DEF None
  <2>2. Behind(worker'.candles, now', Lined' \cup Queued(worker'))
    BY <1>5, <1>6, <2>1 DEF Behind
  <2>3. Grounded(Said(history'.given, worker'.answer), worker'.candles, history'.asked)
    BY <1>5, <1>6 DEF Grounded
  <2>4. Disjoint(Said(history'.given, worker'.answer), history'.asked)
    BY <1>5, <1>6 DEF Disjoint
  <2>5. Queued(worker)' = Queued(worker')
    BY DEF Queued
  <2>6. Said(history.given, worker.answer)' = Said(history'.given, worker'.answer)
    BY DEF Said
  <2> QED
    BY <2>2, <2>3, <2>4, <2>5, <2>6 DEF Settled, Grounded, Disjoint, Behind
<1> HIDE DEF said, asked
<1>7. CASE /\ Moves \/ Flushes \/ (Offers /\ channel' = channel)
           /\ UNCHANGED <<now, worker, results, history>>
  <2>1. Lined' \subseteq Lined
    BY <1>7, MovesLine, OffersLine DEF Sequenced
  <2> QED
    BY <1>1, <1>6, <1>7, <2>1 DEF said, asked
<1>8. CASE Admits /\ UNCHANGED <<now, channel, worker>>
  <2>1. Lined' \subseteq Lined
    BY <1>8, AdmitsLine DEF Sequenced
  <2>2. history'.asked = asked /\ history'.given = history.given
    BY <1>8, HistoryParts DEF Admits, asked
  <2> QED
    BY <1>1, <1>6, <1>8, <2>1, <2>2 DEF said
<1>9. CASE Passes
  <2>1. Lined' = Lined
    BY <1>9 DEF Passes, Lined
  <2> QED
    BY <1>6, <1>9, <2>1 DEF Passes, said, asked
<1>10. CASE Delivers /\ UNCHANGED <<now, authority, channel>>
  <2>1. history'.asked = asked /\ history'.given = Append(history.given, worker.answer)
    BY <1>10, HistoryParts DEF Delivers, asked
  <2>2. worker'.answer = NoAnswer /\ worker.answer \in Result
    BY <1>10 DEF Delivers
  <2>3. worker.answer.kind = "answer" => worker.answer \in Reply
    BY <2>2 DEF Result, Failure
  <2>4. Said(history'.given, worker'.answer) \subseteq said
    <3>1. {history'.given[i] : i \in DOMAIN history'.given}
            = {history.given[i] : i \in DOMAIN history.given} \cup {worker.answer}
      <4>1. /\ Len(history.given) \in Nat
            /\ DOMAIN history.given = 1 .. Len(history.given)
            /\ DOMAIN history'.given = 1 .. Len(history.given) + 1
            /\ \A i \in 1 .. Len(history.given) : history'.given[i] = history.given[i]
            /\ history'.given[Len(history.given) + 1] = worker.answer
        BY <1>1, <2>1, <2>2, AppendProperties, LenProperties
      <4> QED
        BY <4>1
    <3> QED
      BY <1>2, <2>2, <2>3, <3>1 DEF Said, said
  <2>5. Lined' = Lined /\ Queued(worker') = Queued(worker)
    BY <1>10 DEF Lined, Delivers, Queued
  <2> QED
    BY <1>1, <1>6, <1>10, <2>1, <2>4, <2>5 DEF Delivers
<1>11. ASSUME NEW r \in Request, Requests(r), UNCHANGED <<now, channel, worker, results>>
       PROVE  Settled'
  <2>1. Lined' = Lined \cup {r}
    BY <1>11, RequestsLine
  <2>2. /\ history'.asked = Append(asked, r) /\ history'.given = history.given
        /\ r.snapshot = now
    BY <1>11, HistoryParts DEF Requests, asked
  <2>3. \A i \in DOMAIN asked : i \in DOMAIN history'.asked /\ history'.asked[i] = asked[i]
    BY <1>1, <2>2, AppendProperties, LenProperties
  <2>4. Grounded(said, worker.candles, history'.asked)
    BY <1>5, <2>3 DEF Grounded
  <2>5. Disjoint(said, history'.asked)
    <3>1. \A a, b \in said : Apart(a, b, asked) => Apart(a, b, history'.asked)
      BY <1>5, <2>3 DEF Apart, Grounded
    <3> QED
      BY <1>5, <3>1 DEF Disjoint
  <2>6. Behind(worker.candles, now, Lined' \cup Queued(worker))
    BY <1>5, <2>1, <2>2 DEF Behind
  <2> QED
    BY <1>11, <2>2, <2>4, <2>5, <2>6
       DEF Settled, Grounded, Disjoint, Behind, Queued, said
\* A turn of a worker that has nothing to deliver.
<1>12. ASSUME NEW u \in Worker, u.answer = NoAnswer, worker.answer = NoAnswer,
              u.candles = worker.candles, NEW R, R \cup Queued(u) = Lined \cup Queued(worker),
              Rising(u.queue), Before(Queued(u), R), R = Lined',
              Turn(u, worker') \/ Fails(u, worker'),
              history'.asked = asked, history'.given = history.given, now' = now
       PROVE  Settled'
  <2>1. said = Said(history.given, NoAnswer)
    BY <1>12 DEF said
  <2> DEFINE T == said \cup (IF worker'.answer \in Reply THEN {worker'.answer} ELSE {})
  <2>2. DOMAIN asked \subseteq Nat
    BY <1>1
  <2>3. /\ Grounded(T, worker'.candles, asked) /\ Disjoint(T, asked)
        /\ Behind(worker'.candles, now, R \cup Queued(worker'))
    BY <1>1, <1>3, <1>5, <1>12, <2>2, TurnSettles
  <2>4. Said(history'.given, worker'.answer) = T
    BY <1>2, <1>12, <2>1 DEF Said
  <2> HIDE DEF T
  <2>5. Queued(worker)' = Queued(worker')
    BY DEF Queued
  <2>6. Said(history.given, worker.answer)' = T
    BY <2>4 DEF Said
  <2> QED
    BY <1>12, <2>3, <2>5, <2>6 DEF Settled, Grounded, Disjoint, Behind
<1>13. CASE FetchEnds /\ UNCHANGED <<now, authority, channel, results, history>>
  <2>1. Turn(worker, worker') \/ Fails(worker, worker')
    BY <1>13 DEF FetchEnds, Turn
  <2>2. worker.answer = NoAnswer
    BY <1>1, <1>13 DEF FetchEnds, Phased
  <2>3. Lined' = Lined
    BY <1>13 DEF Lined
  <2> QED
    BY <1>1, <1>3, <1>12, <1>13, <2>1, <2>2, <2>3 DEF asked
<1>14. ASSUME NEW input \in Input, NEW u \in Worker, Receives(input, u),
              UNCHANGED <<now, authority, results>>
       PROVE  Settled'
  <2>1. history'.asked = asked /\ history'.given = history.given
    BY <1>14, ReceivesHistory DEF asked
  <2>2. Lined = Lined' \cup Asked(input) /\ Before(Asked(input), Lined')
    BY <1>14, ReceivesLine DEF Receives, Sequenced
  <2>3. /\ worker.answer = NoAnswer /\ u.answer = NoAnswer
        /\ u.candles = worker.candles
        /\ Turn(u, worker') \/ Fails(u, worker')
    BY <1>1, <1>14 DEF Receives, Absorbs, Phased
  <2>4. CASE u.queue = worker.queue /\ Asked(input) = {}
    <3>1. Queued(u) = Queued(worker) /\ Lined' = Lined
      BY <2>2, <2>4 DEF Queued
    <3> QED
      BY <1>3, <1>12, <1>14, <2>1, <2>3, <2>4, <3>1
  <2>5. CASE u.queue = worker.queue /\ Fails(u, worker')
    <3>1. /\ Queued(worker') = Queued(worker) /\ Lined' \subseteq Lined
          /\ worker'.candles = worker.candles
      BY <2>2, <2>3, <2>5 DEF Fails, Queued
    <3>2. worker'.answer \notin Reply
      BY <2>5 DEF Fails, Reply
    <3>3. Said(history'.given, worker'.answer) \subseteq said
      BY <2>1, <3>2 DEF Said, said
    <3> QED
      BY <1>1, <1>6, <1>14, <2>1, <3>1, <3>3
  <2>6. CASE /\ input.kind = "request" /\ input.request \in Request
             /\ u.queue = Append(worker.queue, input.request)
    <3> DEFINE r == input.request
    <3>1. Asked(input) = {r}
      BY <2>6 DEF Asked, Asking
    <3>2. Before(Queued(worker), {r})
      BY <1>3, <2>2, <3>1 DEF Before
    <3>3. Queued(u) = Queued(worker) \cup {r} /\ Rising(u.queue)
      BY <1>1, <1>3, <2>6, <3>2, AppendQueue
    <3> HIDE DEF r
    <3>4. Before(Queued(u), Lined')
      BY <1>3, <2>2, <3>1, <3>3 DEF Before
    <3>5. Lined' \cup Queued(u) = Lined \cup Queued(worker)
      BY <2>2, <3>1, <3>3
    <3> QED
      BY <1>12, <1>14, <2>1, <2>3, <3>3, <3>4, <3>5
  <2> QED
    BY <1>14, <2>4, <2>5, <2>6 DEF Receives, Asked, Asking
<1> QED
  BY <1>7, <1>8, <1>9, <1>10, <1>11, <1>13, <1>14, StepKinds

\* A bar that one reconciliation made final is never made final by another and
\* never declared unavailable, whatever trades were retained and whatever the
\* exchange's candles say.
THEOREM FinalBarsKept == Spec => []FinalBarsStayFinal
<1>1. Init => Typed /\ Sequenced /\ Settled
  BY InitTyped, InitSequenced, InitSettled
<1>2. Typed /\ Sequenced /\ Settled /\ [Next]_vars
        => (Typed /\ Sequenced /\ Settled)'
  BY StepKinds, SequencedStep, SettledStep
<1>3. Settled => FinalBarsStayFinal
  <2>1. Answers \subseteq Said(history.given, worker.answer)
    BY DEF Answers, Given, Said
  <2> QED
    BY <2>1 DEF Settled, Disjoint, Apart, FinalBarsStayFinal
<1> QED
  BY <1>1, <1>2, <1>3, PTL DEF Spec
=============================================================================
