------------------------ MODULE ArbitrationProperties ------------------------
(***************************************************************************)
(* What makes an entry legitimate: who may be traded, and who is chosen.   *)
(***************************************************************************)
EXTENDS Arbitration

Look(fit, volume, interest, spread) ==
  [fit |-> fit, volume |-> volume, interest |-> interest, spread |-> spread,
   near |-> 1, middle |-> 1, far |-> 1, continuity |-> 1]

\* What the selector may see: a market that is unfit, much traded, or tight.
Looks == {Look(FALSE, 1, 1, 1), Look(TRUE, 2, 1, 2), Look(TRUE, 1, 2, 1)}

(* A market is entered only if it is fit in the snapshot of the current hour
   and was ranked tradeable by a snapshot at least one bar old and not older
   than an hour: no entry uses a partly refreshed cross-section, whatever
   activation was held, missed or made late
   (UniverseSelector::activate, SnapshotBindings::supports). *)
EntriesAreRankedAndFit ==
  [][entry' # entry /\ entry' # NoEntry =>
       /\ \E s \in snapshots :
            s.hour = HourOf(now) /\ entry'.market \in s.fit
       /\ \E s \in snapshots :
            /\ entry'.market \in Ranked(s)
            /\ now - s.hour >= Bar /\ now - s.hour <= Hour]_vars

(* No candidate that clears every gate earns more after costs than the one
   that is entered, in whatever order they are quoted, unless one that clears
   every gate was turned down by a full cache (apply_entry_arbitration's order
   of accepted candidates and RiskRejection::ApprovalCapacity). *)
BestEdgeWins == ~entry.crowded => entry.better = {}

(* Every approval ends with the arbitration that made it, so that the
   policies of the next decision can always be bound
   (discard_quote, consume_quote and with_risk_policies). *)
ApprovalsEndWithTheArbitration ==
  approvals = {} /\ failure # "outstanding approvals"

----------------------------------------------------------------------------
(* The inductive invariant behind them.                                    *)

Snapshot(s) ==
  /\ s.hour \in Nat /\ s.hour % Hour = 0 /\ s.hour <= now
  /\ Ranked(s) \subseteq s.fit

Timed(a) ==
  /\ a.hour \in Nat /\ a.hour % Hour = 0
  /\ a.from \in Nat /\ a.from % Bar = 0
  /\ a.hour <= a.from /\ a.from < a.hour + Hour /\ a.from <= now
  /\ a.until = a.from + Bar

\* As long as it is looked at, there is the snapshot of that hour, and ...
KeptFit(a) == \E s \in snapshots : s.hour = a.hour /\ a.markets \subseteq s.fit
KeptRanks(a, hour) ==
  \E s \in snapshots : s.hour = hour /\ a.markets \subseteq Ranked(s)

(* An activation of an hour's first bar holds what is left of the ranks of the
   hour before; one of a later bar, the ranks of its own hour. *)
Provenance(a) ==
  IF a.from < a.hour + Bar
    THEN now < a.hour + Hour =>
           KeptFit(a) /\ (a.markets = {} \/ KeptRanks(a, a.hour - Hour))
    ELSE now < a.hour + 2 * Hour => KeptRanks(a, a.hour)

IInv ==
  /\ now \in Nat
  /\ \A s \in snapshots : Snapshot(s)
  /\ activation = NoActivation \/ (Timed(activation) /\ Provenance(activation))
  /\ \A c \in signals : c.at \in Nat /\ c.at % Bar = 0
  /\ ApprovalsEndWithTheArbitration
=============================================================================
