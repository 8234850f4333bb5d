------------------------------ MODULE Recovery ------------------------------
(***************************************************************************)
(* Gap recovery: the authority hands committed facts, recovery requests    *)
(* and clock ticks to a worker through a bounded channel it never waits    *)
(* on, and the worker answers the requests strictly in order, comparing    *)
(* the trades it retained with the exchange's own candles.                 *)
(*                                                                         *)
(* The authority's loop and the worker are two tasks.  An arm of the loop  *)
(* is one step that leaves the inputs it produces in "handler"; they are   *)
(* offered to the channel one by one before the loop takes another arm.    *)
(* The worker suspends while it fetches and while it waits for room to     *)
(* deliver.                                                                *)
(*                                                                         *)
(* A trade is a market and a time: one per market and instant.  A bar's    *)
(* candle is the set of its trades.  A result's route into the engine is   *)
(* the subject of Journal; here an admitted result is an answer.           *)
(*                                                                         *)
(* Bounds, none of them the program's: Traded, MaxTime, MaxTrades,         *)
(* MaxRequests, MaxEpochs, no epoch before the first answer, and no tick   *)
(* that changes nothing for the worker.                                    *)
(*                                                                         *)
(* Translated from crates/trenchd/src/app.rs and                           *)
(* crates/trench-hyperliquid/src/recovery.rs, recovery_producer.rs, ws.rs. *)
(***************************************************************************)
EXTENDS Bars, Sequences, FiniteSets

CONSTANTS Markets,
          ChannelCapacity,    \* RECOVERY_CHANNEL_CAPACITY, inputs
          ResultCapacity,     \* RECOVERY_CHANNEL_CAPACITY, results
          PendingCapacity,    \* RECOVERY_PENDING_CAPACITY
          QueueCapacity,      \* MAX_OUTSTANDING_RECOVERY_REQUESTS
          RetainedTrades,     \* MAX_RETAINED_RECOVERY_TRADES_PER_MARKET
          VenueForgets,       \* the exchange's candles leave the predecessor out
          Traded,             \* the markets in which trades happen
          MaxTime, MaxTrades, MaxRequests, MaxEpochs

ASSUME RecoveryAssumption ==
  /\ {ChannelCapacity, ResultCapacity, PendingCapacity, QueueCapacity} \subseteq Nat \ {0}
  /\ {RetainedTrades, MaxTime, MaxTrades, MaxRequests, MaxEpochs} \subseteq Nat
  /\ VenueForgets \in BOOLEAN /\ Traded \subseteq Markets

VARIABLES now,         \* the clock, the exchange's and the daemon's
          venue,       \* every trade of the exchange
          client,      \* the WebSocket client's cursors, gaps and generation
          live,        \* trades received and not yet committed
          authority,   \* the loop's side of recovery
          channel,     \* inputs on their way to the worker
          worker,
          results,     \* results on their way back
          history      \* asked, answered and given so far

vars == <<now, venue, client, live, authority, channel, worker, results, history>>

Times == 0 .. MaxTime

Trade == [market : Markets, time : Times]

NoGap == [generation |-> 0, predecessor |-> None]

Request == [number : 1 .. MaxRequests,      \* history: its place among all requests
            market : Markets, generation : Nat,
            predecessor : Times \cup {None}, snapshot : Times]

Input == [kind : {"source"}, trade : Trade]
           \cup [kind : {"request"}, request : Request]
           \cup [kind : {"time"}, market : Markets, at : Times]

Later(a, b) == IF a < b THEN b ELSE a

----------------------------------------------------------------------------
(* The authority: offering an input without ever waiting                   *)

Ended == worker.phase = "ended"

Fenced(a) == [a EXCEPT !.available = FALSE, !.pending = <<>>]

\* The candidate bug: the queue of waiting inputs is bounded one too late.
OfferedVariant(a, input) ==
  IF Len(a.pending) > PendingCapacity THEN Fenced(a)
  ELSE [a EXCEPT !.pending = Append(@, input)]

\* What is left of the authority when an input could not be sent at once.
Offered(a, input) ==
  IF Len(a.pending) = PendingCapacity THEN Fenced(a)
  ELSE [a EXCEPT !.pending = Append(@, input)]

\* The candidate bug: older inputs that wait are overtaken.
SentDirectlyVariant(a) == Len(channel) < ChannelCapacity
SentDirectly(a) == a.pending = <<>> /\ Len(channel) < ChannelCapacity

\* The candidate bug: the authority waits for room in the channel.
OfferReadyVariant == Ended \/ Len(channel) < ChannelCapacity
OfferReady == TRUE

EnqueueRecoveryInput ==
  /\ authority.handler # <<>>
  /\ OfferReady
  /\ LET input == Head(authority.handler)
         a     == [authority EXCEPT !.handler = Tail(@)]
     IN  \/ /\ ~a.available
            /\ authority' = a
            /\ UNCHANGED channel
         \/ /\ a.available /\ Ended /\ a.pending = <<>>
            /\ authority' = Fenced(a)
            /\ UNCHANGED channel
         \/ /\ a.available /\ ~Ended /\ SentDirectly(a)
            /\ channel' = Append(channel, input)
            /\ authority' = a
         \/ /\ a.available /\ ~SentDirectly(a)
            /\ Ended => a.pending # <<>>
            /\ authority' = Offered(a, input)
            /\ UNCHANGED channel
  /\ UNCHANGED <<now, venue, client, live, worker, results, history>>

\* At the top of a loop turn, the oldest waiting input.
FlushRecoveryInputs ==
  /\ authority.handler = <<>> /\ authority.pending # <<>>
  /\ \/ /\ Ended
        /\ authority' = Fenced(authority)
        /\ UNCHANGED channel
     \/ /\ ~Ended /\ Len(channel) < ChannelCapacity
        /\ channel' = Append(channel, Head(authority.pending))
        /\ authority' = [authority EXCEPT !.pending = Tail(@)]
  /\ UNCHANGED <<now, venue, client, live, worker, results, history>>

----------------------------------------------------------------------------
(* The worker: what it knows                                               *)

NoEvidence == [trades |-> {}, through |-> None, exhausted |-> FALSE]

Queued(w) == {w.queue[i] : i \in DOMAIN w.queue}
Waiting(w, m) == {r \in Queued(w) : r.market = m}

\* A trade strictly behind the last one before the gap.
After(r, trade) == r.predecessor = None \/ trade.time > r.predecessor

Needed(w, trade) == \E r \in Waiting(w, trade.market) : After(r, trade)

RetainCommittedSource(w, trade) ==
  LET m == trade.market
      e == w.evidence[m]
      fresh == Needed(w, trade) /\ trade \notin e.trades /\ ~e.exhausted
      full  == Cardinality(e.trades) = RetainedTrades
  IN  IF Waiting(w, m) = {} THEN w
      ELSE [w EXCEPT !.evidence[m] =
              [trades    |-> IF fresh /\ ~full THEN e.trades \cup {trade} ELSE e.trades,
               through   |-> Later(e.through, trade.time),
               exhausted |-> e.exhausted \/ (fresh /\ full)]]

ValidCursors(r) == r.predecessor = None \/ r.predecessor < r.snapshot

\* A queued or already processed identity has a generation that is not above
\* the market's last one, so one test refuses duplicates and rollbacks.
Acceptable(w, r) ==
  /\ ValidCursors(r)
  /\ r.generation > w.lastGeneration[r.market]
  /\ Len(w.queue) < QueueCapacity

EnqueueRequest(w, r) ==
  [w EXCEPT !.queue = Append(@, r),
            !.lastGeneration[r.market] = r.generation,
            !.evidence[r.market].through = Later(@, r.snapshot)]

AdvanceTime(w, m, at) ==
  IF Waiting(w, m) = {} THEN w
  ELSE [w EXCEPT !.evidence[m].through = Later(@, at)]

----------------------------------------------------------------------------
(* The worker: answering the head of the queue                             *)

NextBoundary(time) == ((time + Hour - 1) \div Hour) * Hour

Span(r) == [start |-> r.predecessor, end |-> r.snapshot]

Failed(w, m, cause) ==
  [w EXCEPT !.phase = "sending",
            !.answer = [kind |-> "failed", market |-> m, cause |-> cause]]

\* The candidate bug: a terminal result drops the market's evidence.
CleanedVariant(w, m) == NoEvidence

\* Evidence that an answered request leaves to the later ones of its market.
Cleaned(w, m) ==
  IF Waiting(w, m) = {} THEN NoEvidence
  ELSE [w.evidence[m] EXCEPT !.trades = {trade \in @ : Needed(w, trade)}]

Answered(w, answer) ==
  LET rest == [w EXCEPT !.queue = Tail(@)]
  IN  [rest EXCEPT !.phase = "sending",
                   !.answer = answer,
                   !.evidence[answer.market] = Cleaned(rest, answer.market)]

\* The candidate bug: a span may begin behind the watermark.
RevisesVariant(w, r) == FALSE

\* A span that begins behind the watermark would revise final candles.
Revises(w, r) == LET watermark == w.candles[r.market].watermark
                 IN  /\ watermark # None
                     /\ r.predecessor = None \/ r.predecessor < watermark

CompleteUnavailable(w, reason) ==
  LET r == Head(w.queue)
  IN  IF Revises(w, r) THEN Failed(w, r.market, "gap before watermark")
      ELSE Answered([w EXCEPT !.candles[r.market].gaps = @ \cup {Span(r)}],
                    [kind |-> "answer", number |-> r.number, market |-> r.market,
                     status |-> reason, bars |-> {}, local |-> {}])

\* One turn of process_next up to its fetch: what the head can be given.
Processed(w) ==
  LET r == Head(w.queue)
      e == w.evidence[r.market]
  IN  IF w.queue = <<>> THEN w
      ELSE IF r.predecessor = None THEN CompleteUnavailable(w, "no predecessor")
      ELSE IF e.through < NextBoundary(r.snapshot) THEN w
      ELSE IF e.exhausted THEN CompleteUnavailable(w, "capacity")
      ELSE [w EXCEPT !.phase = "fetching"]

WorkerReceives ==
  /\ worker.phase = "waiting" /\ channel # <<>>
  /\ channel' = Tail(channel)
  /\ LET input == Head(channel)
     IN  \/ /\ input.kind = "source"
            /\ worker' = Processed(RetainCommittedSource(worker, input.trade))
            /\ history' = [history EXCEPT !.heard =
                 [n \in DOMAIN @ |->
                    IF \E r \in Waiting(worker, input.trade.market) : r.number = n
                    THEN @[n] \cup {input.trade} ELSE @[n]]]
         \/ /\ input.kind = "request"
            /\ worker' = IF Acceptable(worker, input.request)
                         THEN Processed(EnqueueRequest(worker, input.request))
                         ELSE Failed(worker, input.request.market, "request refused")
            /\ UNCHANGED history
         \/ /\ input.kind = "time"
            /\ worker' = Processed(AdvanceTime(worker, input.market, input.at))
            /\ UNCHANGED history
  /\ UNCHANGED <<now, venue, client, live, authority, results>>

\* The bars of both sleeves from the one that holds the predecessor to the
\* boundary.
RequiredBars(r, boundary) ==
  {bar \in UNION {{BarAt(t, s) : t \in Times} : s \in Sleeves} :
     Close(bar) > r.predecessor /\ Close(bar) <= boundary}

In(bar, trades) == {trade \in trades : BarAt(trade.time, bar.sleeve) = bar}

\* What the exchange answers for a bar.  Its candle counts the predecessor
\* too, unless this exchange is one that leaves it out.
Official(r, bar) ==
  In(bar, {trade \in venue : /\ trade.market = r.market
                             /\ VenueForgets => After(r, trade)})

CandlesMatch(r, boundary, derived, trades) ==
  LET required == RequiredBars(r, boundary)
  IN  /\ derived \subseteq required
      /\ \A bar \in required :
           Official(r, bar) = IF bar \in derived THEN In(bar, trades) ELSE {}

Reconciled(w) ==
  LET r        == Head(w.queue)
      candles  == w.candles[r.market]
      boundary == NextBoundary(r.snapshot)
      local    == {trade \in w.evidence[r.market].trades :
                     After(r, trade) /\ trade.time < boundary}
      total    == candles.trades \cup local
      late(bar)    == candles.watermark # None /\ Close(bar) <= candles.watermark
      refused  == \E trade \in local \ candles.trades :
                    \/ \E gap \in candles.gaps : Within(gap, trade.time)
                    \/ \E s \in Sleeves : late(BarAt(trade.time, s))
      derived  == {bar \in {BarAt(trade.time, s) : trade \in total, s \in Sleeves} :
                     /\ Close(bar) <= boundary /\ ~late(bar)
                     /\ \A gap \in candles.gaps : ~Overlaps(gap, bar)}
      conflict == CompleteUnavailable(w, "conflict")
  IN  IF refused THEN Failed(w, r.market, "trade refused")
      ELSE IF CandlesMatch(r, boundary, derived, total)
      THEN Answered([w EXCEPT !.candles[r.market] =
                       [@ EXCEPT !.trades = total, !.watermark = boundary]],
                    [kind |-> "answer", number |-> r.number, market |-> r.market,
                     status |-> "reconciled", bars |-> derived, local |-> local])
      ELSE IF conflict.answer.kind = "failed" THEN conflict
      ELSE [conflict EXCEPT !.answer.local = local]

Fetched == \/ worker' = Reconciled(worker)
           \/ worker' = CompleteUnavailable(worker, "no candles")

FetchAnswered ==
  /\ worker.phase = "fetching"
  /\ Fetched
  /\ UNCHANGED <<now, venue, client, live, authority, channel, results, history>>

NoAnswer == [kind |-> "none"]

WorkerDelivers ==
  /\ worker.phase = "sending" /\ Len(results) < ResultCapacity
  /\ results' = Append(results, worker.answer)
  /\ worker' = [worker EXCEPT !.answer = NoAnswer,
       !.phase = IF worker.answer.kind = "failed" THEN "ended" ELSE "waiting"]
  /\ history' = [history EXCEPT !.given = Append(@, worker.answer)]
  /\ UNCHANGED <<now, venue, client, live, authority, channel>>

----------------------------------------------------------------------------
(* The arms of the authority's loop                                        *)

InSelect == authority.handler = <<>>

\* A request the client made of a fresh snapshot behind a gap.
ReceiveRequest(m) ==
  /\ InSelect /\ client.gaps[m] # NoGap
  /\ Len(history.asked) < MaxRequests
  /\ LET r == [number |-> Len(history.asked) + 1, market |-> m,
               generation |-> client.gaps[m].generation,
               predecessor |-> client.gaps[m].predecessor, snapshot |-> now]
     IN  /\ authority' = [authority EXCEPT
              !.markets = @ \cup {m},
              !.handler = <<[kind |-> "request", request |-> r]>>]
         /\ history' = [history EXCEPT !.asked = Append(@, r)]
  /\ client' = [client EXCEPT !.gaps[m] = NoGap]
  /\ UNCHANGED <<now, venue, live, channel, worker, results>>

\* The live batch is committed and every fact of it is offered as evidence.
CommitBatch ==
  /\ InSelect /\ live # <<>>
  /\ live' = <<>>
  /\ authority' = [authority EXCEPT
       !.handler = [i \in DOMAIN live |-> [kind |-> "source", trade |-> live[i]]]]
  /\ UNCHANGED <<now, venue, client, channel, worker, results, history>>

\* A tick that changes nothing: one of the same instant still waits, or the
\* worker knows the time of every market and cannot go on.
TickRepeats ==
  \/ \E s \in {channel, authority.pending} : \E i \in DOMAIN s :
       s[i].kind = "time" /\ s[i].at = now
  \/ /\ worker.phase = "waiting" /\ Processed(worker) = worker
     /\ \A m \in authority.markets : worker.evidence[m].through = now

Listed(markets, s) == /\ DOMAIN s = 1 .. Cardinality(markets)
                      /\ \A m \in markets : \E i \in DOMAIN s :
                           s[i] = [kind |-> "time", market |-> m, at |-> now]

RecoveryClockTick ==
  /\ InSelect /\ authority.available /\ authority.markets # {}
  /\ ~TickRepeats
  /\ authority' = [authority EXCEPT !.handler =
       CHOOSE s \in [1 .. Cardinality(authority.markets) ->
                       [kind : {"time"}, market : authority.markets, at : {now}]] :
         Listed(authority.markets, s)]
  /\ UNCHANGED <<now, venue, client, live, channel, worker, results, history>>

Admitted(result) == authority.available /\ result.kind = "answer"

\* A worker that ends delivers its failure first, so recovery is fenced already
\* when the loop finds the channel of results closed.
AdmitRecoveryOutput ==
  /\ InSelect /\ results # <<>>
  /\ LET result == Head(results)
         a == [authority EXCEPT !.markets = @ \ {result.market}]
     IN  /\ authority' = IF result.kind = "failed" THEN Fenced(a) ELSE a
         /\ history' = IF Admitted(result)
                       THEN [history EXCEPT !.answered = Append(@, result.number)]
                       ELSE history
  /\ results' = Tail(results)
  /\ UNCHANGED <<now, venue, client, live, channel, worker>>

----------------------------------------------------------------------------
(* The exchange, its feed and the clock                                    *)

TimePasses ==
  /\ now < MaxTime
  /\ now' = now + 1
  /\ UNCHANGED <<venue, client, live, authority, channel, worker, results, history>>

\* A trade happens.  It is received, unless the connection is interrupted.
VenueTrades(m) ==
  LET trade == [market |-> m, time |-> now]
  IN  /\ trade \notin venue /\ Cardinality(venue) < MaxTrades
      /\ venue' = venue \cup {trade}
      /\ \/ /\ live' = Append(live, trade)
            /\ client' = [client EXCEPT !.cursor[m] = now]
         \/ /\ client.gaps[m] # NoGap
            /\ UNCHANGED <<live, client>>
      /\ UNCHANGED <<now, authority, channel, worker, results, history>>

\* The connection is lost, and made again at some later time: every
\* subscribed market without an open gap opens one, all of one generation.
Disconnect ==
  LET affected == {m \in Markets : client.gaps[m] = NoGap}
  IN  /\ affected # {} /\ Len(history.asked) < MaxRequests
      /\ client' = [client EXCEPT
           !.generation = @ + 1,
           !.gaps = [m \in Markets |->
              IF m \notin affected THEN @[m]
              ELSE [generation |-> client.generation + 1,
                    predecessor |-> client.cursor[m]]]]
      /\ UNCHANGED <<now, venue, live, authority, channel, worker, results, history>>

FreshClient(epoch) ==
  [generation |-> 0, epoch |-> epoch,
   gaps |-> [m \in Markets |-> NoGap], cursor |-> [m \in Markets |-> None]]

\* A new subscription epoch starts a client with no memory; the worker stays.
NewEpoch ==
  /\ client.epoch < MaxEpochs /\ history.answered # <<>>
  /\ client' = FreshClient(client.epoch + 1)
  /\ UNCHANGED <<now, venue, live, authority, channel, worker, results, history>>

----------------------------------------------------------------------------
Init ==
  /\ now = 0 /\ venue = {} /\ live = <<>> /\ channel = <<>> /\ results = <<>>
  /\ client = FreshClient(1)
  /\ authority = [available |-> TRUE, markets |-> {}, pending |-> <<>>,
                  handler |-> <<>>]
  /\ worker = [phase |-> "waiting", queue |-> <<>>, answer |-> NoAnswer,
               lastGeneration |-> [m \in Markets |-> 0],
               evidence |-> [m \in Markets |-> NoEvidence],
               candles |-> [m \in Markets |->
                  [trades |-> {}, gaps |-> {}, watermark |-> None]]]
  /\ history = [asked |-> <<>>, answered |-> <<>>, given |-> <<>>,
                heard |-> [n \in 1 .. MaxRequests |-> {}]]

WorkerStep == WorkerReceives \/ FetchAnswered \/ WorkerDelivers
Environment == \/ \E m \in Traded : VenueTrades(m)
               \/ Disconnect \/ NewEpoch

Next == \/ EnqueueRecoveryInput \/ FlushRecoveryInputs
        \/ \E m \in Markets : ReceiveRequest(m)
        \/ CommitBatch \/ RecoveryClockTick
        \/ AdmitRecoveryOutput
        \/ WorkerStep \/ TimePasses \/ Environment

Spec == Init /\ [][Next]_vars

\* Both tasks run and time goes on.  The loop polls its arms in a fixed order,
\* live output before results and results before the clock, so a lower arm waits
\* while a higher one is ready: the feed is assumed to leave pauses in which
\* the lower arms are taken.  What the exchange and its feed do is not fair.
Fairness == /\ WF_vars(WorkerStep) /\ WF_vars(EnqueueRecoveryInput)
            /\ SF_vars(FlushRecoveryInputs) /\ SF_vars(CommitBatch)
            /\ SF_vars(AdmitRecoveryOutput)
            /\ SF_vars(RecoveryClockTick)
            /\ WF_vars(TimePasses)

FairSpec == Spec /\ Fairness
=============================================================================
