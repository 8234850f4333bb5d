------------------------------- MODULE Universe -------------------------------
(***************************************************************************)
(* UniverseSelector: which perpetual markets may be traded.  Once an hour  *)
(* every market is judged (exclusion_reasons) and the fit ones are ranked  *)
(* by a weighted sum of percentiles (select); for every strategy bar the   *)
(* snapshot of its hour is activated (activate).  The selector keeps no    *)
(* state: a snapshot and an activation are values its callers hold.        *)
(*                                                                         *)
(* Markets are numbers in the order of their names, and time counts parts  *)
(* of a bar.  A candidate is what the thirteen exclusion reasons leave of  *)
(* it, fit or not, and the values it is ranked by.  Digests are the values *)
(* they stand for.                                                         *)
(***************************************************************************)
EXTENDS Integers, FiniteSets

CONSTANTS
  Markets,         \* markets in the order of their names
  TradeableLimit,  \* MAX_TRADEABLE_MARKETS
  WarmLimit,       \* MAX_TRADEABLE_MARKETS + WARM_BUFFER_MARKETS
  Bar              \* STRATEGY_BAR_NS

ASSUME UniverseAssumption ==
  /\ Markets \subseteq Nat /\ IsFiniteSet(Markets)
  /\ TradeableLimit \in Nat \ {0} /\ WarmLimit \in Nat /\ WarmLimit >= TradeableLimit
  /\ Bar \in Nat \ {0}

Hour == 4 * Bar

HourOf(at) == at - (at % Hour)

----------------------------------------------------------------------------
(* Selection                                                               *)

\* Half ranks out of twice the number of values: equal values share theirs.
Percentile(values, m) ==
  Cardinality({k \in DOMAIN values : values[k] < values[m]})
    + Cardinality({k \in DOMAIN values : values[k] <= values[m]}) + 1

\* The same with the smallest value first.
InversePercentile(values, m) ==
  2 * Cardinality(DOMAIN values) + 2 - Percentile(values, m)

(* The weighted total in parts of a three-hundredth, without the common
   divisor: three bands of depth share one weight. *)
Score(fit, m) ==
  LET P(of) == Percentile([k \in DOMAIN fit |-> fit[k][of]], m)
      Q(of) == InversePercentile([k \in DOMAIN fit |-> fit[k][of]], m)
  IN  90 * P("volume") + 60 * P("interest") + 90 * Q("spread")
        + 15 * (P("near") + P("middle") + P("far")) + 15 * P("continuity")

\* One above the markets with a better total, or an equal one and a name before.
Rank(fit, m) ==
  1 + Cardinality({k \in DOMAIN fit :
        \/ Score(fit, k) > Score(fit, m)
        \/ Score(fit, k) = Score(fit, m) /\ k < m})

MembershipForRank(rank) ==
  IF rank <= TradeableLimit THEN "Tradeable"
  ELSE IF rank <= WarmLimit THEN "Warm" ELSE "Absent"

Fit(candidates) == {m \in DOMAIN candidates : candidates[m].fit}

Select(hour, candidates) ==
  LET fit == [m \in Fit(candidates) |-> candidates[m]]
  IN  [hour |-> hour, fit |-> DOMAIN fit,
       membership |-> [m \in DOMAIN candidates |->
         IF m \in DOMAIN fit THEN MembershipForRank(Rank(fit, m)) ELSE "Absent"]]

Ranked(snapshot) ==
  {m \in DOMAIN snapshot.membership : snapshot.membership[m] = "Tradeable"}

----------------------------------------------------------------------------
(* Activation                                                              *)

NoActivation == [hour |-> -1, markets |-> {}, from |-> -1, until |-> -1]

(* Only within the snapshot's hour, and behind no activation or the last one
   of the hour before. *)
MayActivate(snapshot, current, decision) ==
  /\ decision % Bar = 0
  /\ decision >= snapshot.hour /\ decision < snapshot.hour + Hour
  /\ current # NoActivation =>
       /\ current.hour = snapshot.hour - Hour
       /\ current.until = snapshot.hour

\* The ranks of the hour are already in force in its first bar.
ActivatedVariant(snapshot, current, decision) ==
  [hour |-> snapshot.hour, markets |-> Ranked(snapshot),
   from |-> decision, until |-> decision + Bar]

(* In the first bar of an hour members only leave, those that are not fit any
   more; the ranks of the hour are in force from the second. *)
Activated(snapshot, current, decision) ==
  [hour |-> snapshot.hour,
   markets |-> IF decision < snapshot.hour + Bar
                 THEN current.markets \cap snapshot.fit
                 ELSE Ranked(snapshot),
   from |-> decision, until |-> decision + Bar]

IsEffectiveFor(activation, at) == at >= activation.from /\ at < activation.until
=============================================================================
