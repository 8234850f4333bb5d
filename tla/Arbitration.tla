----------------------------- MODULE Arbitration -----------------------------
(***************************************************************************)
(* How an entry comes about: activations of the universe, the candidates a *)
(* strategy makes within one (snapshots_at_with_activation, on_bar), and   *)
(* Engine::apply_entry_arbitration, which has the risk engine quote every  *)
(* candidate, lets costs and strategies turn quotes down, and queues one   *)
(* order.  Its callers are any that keep to the interfaces: they may use a *)
(* candidate or an activation after the moment it was made for.  (The one  *)
(* there is, EngineRuleReplay::run, hands over one candidate at a time.)   *)
(*                                                                         *)
(* What a quote finds is an input: the gate that stops it, or its cost.    *)
(* Books and sizing policies are fresh or the arbitration is refused and   *)
(* changes nothing.  What follows an entry is the subject of Broker.       *)
(***************************************************************************)
EXTENDS Universe, Sequences

CONSTANTS
  Candidates,     \* what a market may look like to the selector
  Edges,          \* gross edges of candidates
  Costs,          \* total costs of quotes
  MaxApprovals,   \* MAX_OUTSTANDING_APPROVALS
  MaxTime, MaxSignals   \* bounds of the environment

ASSUME ArbitrationAssumption ==
  /\ Edges \subseteq Nat \ {0} /\ Costs \subseteq Nat
  /\ MaxApprovals \in Nat \ {0} /\ MaxTime \in Nat /\ MaxSignals \in Nat

VARIABLES
  now,          \* the moment of the caller's event
  snapshots,    \* the hourly snapshots the caller keeps
  activation,   \* the activation it holds
  signals,      \* candidates of a strategy
  approvals,    \* RiskEngine: the outstanding approvals
  failure,      \* the error that ended the engine, or "none"
  entry         \* the entry the broker works on, or NoEntry

vars == <<now, snapshots, activation, signals, approvals, failure, entry>>
caller == <<now, snapshots, activation, signals>>
engine == <<approvals, failure, entry>>

NoEntry == [market |-> -1, edge |-> 0, better |-> {}, crowded |-> FALSE]

Init ==
  /\ now = 0 /\ snapshots = {} /\ activation = NoActivation /\ signals = {}
  /\ approvals = {} /\ failure = "none" /\ entry = NoEntry

Running == failure = "none"

----------------------------------------------------------------------------
(* The caller                                                              *)

TimePasses ==
  /\ Running /\ now < MaxTime
  /\ now' = now + 1
  /\ signals' = {s \in signals : s.at = now}   \* it is not late for long
  /\ UNCHANGED <<snapshots, activation, engine>>

\* UniverseSelector::select, at the hour or later within it.
SelectUniverse(candidates) ==
  LET hour == HourOf(now)
  IN  /\ Running /\ \A s \in snapshots : s.hour # hour
      /\ snapshots' = {s \in snapshots : s.hour = hour - Hour}
                        \cup {Select(hour, candidates)}
      /\ UNCHANGED <<now, activation, signals, engine>>

\* UniverseSelector::activate, behind the held activation or none.
ActivateUniverse(snapshot, current) ==
  /\ Running /\ MayActivate(snapshot, current, now)
  /\ activation' = Activated(snapshot, current, now)
  /\ UNCHANGED <<now, snapshots, signals, engine>>

(* A candidate carries the moment and the universe of the features it was made
   from: those of a completed bar, ranked among at least two markets. *)
Signal(m, edge) ==
  /\ Running /\ Cardinality(signals) < MaxSignals
  /\ now % Bar = 0 /\ IsEffectiveFor(activation, now)
  /\ Cardinality(activation.markets) >= 2 /\ m \in activation.markets
  /\ signals' = signals \cup
       {[market |-> m, at |-> now, edge |-> edge,
         universe |-> <<activation.hour, activation.markets>>]}
  /\ UNCHANGED <<now, snapshots, activation, engine>>

\* The order is cancelled, or its position closed.
BecomeFlat ==
  /\ Running /\ entry # NoEntry
  /\ entry' = NoEntry
  /\ UNCHANGED <<caller, approvals, failure>>

----------------------------------------------------------------------------
(* The engine                                                              *)

\* The gate a candidate does not pass, or what its quote costs.
Verdicts == [gate : {"context", "size", "strategy"}, cost : {0}]
              \cup [gate : {"none"}, cost : Costs]

\* SnapshotBindings::supports.
Supports(candidates) ==
  /\ activation.markets # {} /\ IsEffectiveFor(activation, now)
  /\ \A i \in DOMAIN candidates :
       /\ candidates[i].market \in activation.markets
       /\ candidates[i].universe = <<activation.hour, activation.markets>>

\* One and a half times the cost.
CoversCost(edge, cost) == 2 * edge >= 3 * cost

Clears(c, v) == v.gate = "none" /\ CoversCost(c.edge, v.cost)

(* quote_candidate, and what becomes of the quote: an approval stays in the
   cache only if its cost is covered and the strategy accepts it.  A full cache
   turns every quote down: one that would have stayed makes it crowded. *)
Quote(s, i, c, v) ==
  LET kept == {a \in s.approvals : a.through >= now}
  IN  IF v.gate = "context" THEN s
      ELSE IF Cardinality(kept) >= MaxApprovals
        THEN [approvals |-> kept, crowded |-> s.crowded \/ Clears(c, v)]
      ELSE IF Clears(c, v)
        THEN [s EXCEPT !.approvals = kept \cup
                {[of |-> i, through |-> now, edge |-> c.edge - v.cost]}]
      ELSE [s EXCEPT !.approvals = kept]

\* The risk engine after each of the candidates.
Quotes(candidates, verdicts) ==
  LET q[i \in 0 .. Len(candidates)] ==
        IF i = 0 THEN [approvals |-> approvals, crowded |-> FALSE]
        ELSE Quote(q[i - 1], i, candidates[i], verdicts[i])
  IN  q[Len(candidates)]

\* The approval with the smallest edge is the first of the list.
BestVariant(accepted) == {a \in accepted : \A b \in accepted : b.edge >= a.edge}

\* Equal edges are told apart by the digests of their candidates.
Best(accepted) == {a \in accepted : \A b \in accepted : b.edge <= a.edge}

\* Those not chosen stay in the cache.
LeftVariant(cache, accepted, winner) == cache \ {winner}

\* Losers are discarded, the winner is consumed.
Left(cache, accepted, winner) == cache \ accepted

\* What every candidate that clears every gate would earn, were there room.
Rivals(candidates, verdicts) ==
  {candidates[i].edge - verdicts[i].cost :
     i \in {j \in DOMAIN candidates : Clears(candidates[j], verdicts[j])}}

(* with_risk_policies and apply_verified_entry_arbitration.  Policies cannot
   change under an outstanding approval.  The candidates come in any order; a
   candidate of another moment is an error. *)
Arbitrate(candidates, verdicts) ==
  LET quotes   == Quotes(candidates, verdicts)
      accepted == quotes.approvals \ approvals
  IN  /\ Running /\ entry = NoEntry
      /\ candidates # <<>> /\ Supports(candidates)
      /\ IF approvals # {}
         THEN /\ failure' = "outstanding approvals"
              /\ UNCHANGED <<approvals, entry>>
         ELSE IF \E i \in DOMAIN candidates : candidates[i].at # now
         THEN failure' = "candidate time" /\ UNCHANGED <<approvals, entry>>
         ELSE IF accepted = {}
         THEN approvals' = quotes.approvals /\ UNCHANGED <<failure, entry>>
         ELSE \E winner \in Best(accepted), i \in DOMAIN candidates :
              /\ winner.of = i
              /\ approvals' = Left(quotes.approvals, accepted, winner)
              /\ entry' = [market |-> candidates[i].market,
                           edge |-> winner.edge,
                           better |-> {e \in Rivals(candidates, verdicts) :
                                         e > winner.edge},
                           crowded |-> quotes.crowded]
              /\ UNCHANGED failure
      /\ UNCHANGED caller

Orders == UNION {{c \in [1 .. n -> signals] :
                    \A i, j \in 1 .. n : i # j => c[i] # c[j]} : n \in 1 .. MaxSignals}

Next ==
  \/ TimePasses
  \/ \E candidates \in [Markets -> Candidates] : SelectUniverse(candidates)
  \/ \E snapshot \in snapshots, current \in {NoActivation, activation} :
       ActivateUniverse(snapshot, current)
  \/ \E m \in Markets, edge \in Edges : Signal(m, edge)
  \/ BecomeFlat
  \/ \E candidates \in Orders : \E verdicts \in [DOMAIN candidates -> Verdicts] :
       Arbitrate(candidates, verdicts)

Spec == Init /\ [][Next]_vars
=============================================================================
