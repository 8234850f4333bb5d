------------------------- MODULE FeaturesProperties -------------------------
(***************************************************************************)
(* What the feature engine promises the strategy: a decision at a bar      *)
(* boundary reads exactly what was there at that boundary or learns that   *)
(* it is unavailable, whatever order the facts came in, however often, and *)
(* whatever the bounded histories had to give up.                          *)
(***************************************************************************)
EXTENDS Features

Candle == [market : Markets, sleeve : Sleeves, close : Nat, available : Receipts,
           source : {"derived", "official"}]

Keys == Markets \X Sleeves

\* Type invariant, with the capacity of every bounded collection.
FeaturesTypeOK ==
  /\ seen_events \subseteq accepted /\ finalized_events \subseteq accepted
  /\ accepted \subseteq Event
  /\ \A m \in Markets, k \in Kinds : Cardinality(History(m, k)) <= EventLimit[k]
  /\ Cardinality(finalized_events) <= EventHorizon
  /\ available_from \in [Markets \X Points -> Receipts \cup {None}]
  /\ \A key \in Keys : /\ Cardinality(DOMAIN aggregates[key]) <= AggregateLimit
                       /\ \A k \in DOMAIN aggregates[key] : aggregates[key][k] \in Nat
                       /\ candles[key] \subseteq Candle
                       /\ Cardinality(candles[key]) <= CandleLimit[key[2]]
  /\ aggregates_through \in [Keys -> Nat \cup {None}]
  /\ candles_through \in [Keys -> Nat \cup {None}]
  /\ finalized_candles \subseteq Candle
  /\ Cardinality(finalized_candles) <= CandleHorizon
  /\ \A key \in DOMAIN samples :
       /\ Cardinality(DOMAIN samples[key]) <= SampleLimit[key[3]]
       /\ \A b \in DOMAIN samples[key] : samples[key][b] \in accepted
  /\ handling.step \in {"idle", "ingest", "complete", "candles"}
  /\ fault \in {Fine, "event", "aggregator", "candle"}

Decisions(sleeve) == {t \in Receipts : t > 0 /\ t % sleeve = 0}

\* A window of public trades is unavailable or has every trade that happened
\* in it and was received before the decision, once each: neither a trade that
\* outlives its place in the raw history nor a replay after its identity was
\* forgotten changes the sum (observe, commit_trade_aggregates, trade_window).
TradeWindowsAreExact ==
  \A m \in Markets, sleeve \in Sleeves, length \in {Micro, Short} :
    \A decision \in Decisions(sleeve) :
      LET window == TradeWindow(m, sleeve, decision, length)
      IN  window # None =>
            window = Cardinality({e \in accepted :
                       /\ e.kind = "trade" /\ e.market = m
                       /\ e.time >= decision - length /\ e.time < decision
                       /\ e.received < decision})

Then(kind, market, time) ==
  Latest({e \in accepted : e.kind = kind /\ e.market = market /\ Available(e, time)}, Before)

\* The quote or the book a decision reads is the latest that was there; when
\* that one has been pruned the decision reads none and is told the history is
\* pruned, never an older one (latest_bbo, record_pruned_point_source).
PointsAreLatestOrPruned ==
  \A m \in Markets, kind \in Points \cap Kinds, decision \in Receipts :
    LET read == LatestPoint(m, kind, decision)
        from == available_from[<<m, kind>>]
    IN  \/ read = Then(kind, m, decision)
        \/ read = {} /\ from # None /\ from <= decision

\* The sample of a boundary is the latest fact that was there at the boundary,
\* whether it came before the candle that made the sample or after it
\* (record_boundary_samples, refresh_boundary_samples).
SamplesAreLatest ==
  \A m \in Markets, sleeve \in Sleeves, kind \in Sampled \cap Kinds, b \in Receipts :
    LET sample == SampleAt(kind, m, sleeve, b)
    IN  sample = {} \/ sample = Then(kind, m, b)

\* A fact whose identity was forgotten can never come in again as a new one:
\* it is behind what its full history retains (accepts, record_finalized_event).
ForgottenStaysOut ==
  \A e \in accepted : Known(e) \/ ~Accepts(e)

\* The fact that a step handles.
Handled == IF handling.step # "idle" THEN {handling.event} ELSE accepted' \ accepted

Kept(before, after, nothing) == after \in {before, nothing}
Settled(before, after, nothing) == before # nothing => Kept(before, after, nothing)

\* A fact received after a decision never changes an input of that decision: it
\* can only make the input unavailable, by pruning it (event_is_available, the
\* availability boundary of the trade aggregates, source_available_at).  Windows,
\* quotes and books that are unavailable stay so; a sample or a tail may become
\* available when the bar of an earlier availability that it waits for is kept.
LaterNeverChangesADecision ==
  [][\A e \in Handled, m \in Markets, sleeve \in Sleeves :
       \A decision \in {d \in Decisions(sleeve) : d < e.received} :
         /\ \A length \in {Micro, Short} :
              Kept(TradeWindow(m, sleeve, decision, length),
                   TradeWindow(m, sleeve, decision, length)', None)
         /\ \A kind \in Points \cap Kinds :
              Kept(LatestPoint(m, kind, decision), LatestPoint(m, kind, decision)', {})
         /\ \A kind \in Sampled \cap Kinds :
              Settled(SampleAt(kind, m, sleeve, decision),
                      SampleAt(kind, m, sleeve, decision)', {})
         /\ Settled(CandleTail(m, sleeve, decision),
                    CandleTail(m, sleeve, decision)', {})]_vars

\* The small instance: two trades, two contexts, one quote and one candle fact,
\* and one bar of each sleeve.
FewOfEach == [k \in Kinds |-> IF k \in {"trade", "context"} THEN 2 ELSE 1]
OneBar == [s \in Sleeves |-> 1]

\* Digests that order the facts of a moment against their kinds and numbers.
KindDigest == [context |-> 1, trade |-> 2, bbo |-> 3, candle |-> 4]
SomeDigest(i) == 1000 * KindDigest[i[1]] + 10 * i[3] + 9 - i[4]
=============================================================================
