------------------------------- MODULE Bars -------------------------------
(***************************************************************************)
(* The two candle sleeves and the spans in which no candle can be trusted: *)
(* time on the exchange's clock is divided into short bars (15 minutes)    *)
(* and hours, and a gap [start, end) of the feed makes every bar it        *)
(* touches unavailable.  A start of None is a gap with no known lower      *)
(* edge.                                                                   *)
(*                                                                         *)
(* Translated from crates/trench-core/src/candle.rs.                       *)
(***************************************************************************)
EXTENDS Integers

CONSTANTS Short,    \* the length of a fifteen-minute bar
          Hour      \* the length of a one-hour bar

ASSUME BarsAssumption == /\ Short \in Nat \ {0}
                         /\ Hour \in Nat \ {0}
                         /\ Short < Hour

None == -1

Sleeves == {Short, Hour}

Bar == [sleeve : Sleeves, open : Nat]

\* The bar of a sleeve that a time falls in.
BarAt(time, sleeve) == [sleeve |-> sleeve, open |-> (time \div sleeve) * sleeve]

Close(bar) == bar.open + bar.sleeve

Gap == [start : Nat \cup {None}, end : Nat]

\* A gap leaves a hole in a bar it shares any instant with.
Overlaps(gap, bar) == /\ bar.open < gap.end
                      /\ gap.start = None \/ Close(bar) > gap.start

\* A gap stores only the time of its predecessor, so it takes in every trade
\* of that very instant.
Within(gap, time) == /\ gap.start = None \/ time >= gap.start
                     /\ time < gap.end
===========================================================================
