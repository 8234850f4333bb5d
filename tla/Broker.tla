------------------------------- MODULE Broker -------------------------------
(***************************************************************************)
(* The execution state machine of one isolated paper ledger: PaperBroker   *)
(* in src/crates/trench-core/src/broker/mod.rs, driven the way the engine  *)
(* (src/crates/trench-core/src/engine.rs) drives it.                       *)
(*                                                                         *)
(* A call the broker rejects returns an error and the engine gives its     *)
(* owned state up, so only accepted calls are steps.  What is abstracted:  *)
(*   - prices.  A mark is the class the code computes from it              *)
(*     (liquidation > stop > target > neutral); whether a revaluation      *)
(*     after a walk is liquidated, below the backstop threshold, or spent  *)
(*     the isolated collateral is a choice of the environment;             *)
(*   - books.  A walk fills any quantity up to what is asked for;          *)
(*   - notional is quantity at a unit price; bands are in units of 25 bps. *)
(***************************************************************************)
EXTENDS Integers

CONSTANTS
  OrderQuantity,    \* the largest approved order quantity
  MinimumNotional,  \* fills below it are dust
  MaximumBookAge,   \* BrokerConfig::maximum_book_age
  NormalExitGrace,  \* NORMAL_EXIT_GRACE_NS
  AsOfDelays,       \* as-of time minus receipt time of an engine input
  SpreadBands,      \* spreads of a book, in bands
  EventIds,         \* identities of observations, ordered as numbers
  MaxTime           \* bound: the largest timestamp of an input

ASSUME BrokerAssumption ==
  /\ OrderQuantity \in Nat \ {0}
  /\ MinimumNotional \in Nat \ {0}
  /\ MaximumBookAge \in Nat
  /\ NormalExitGrace \in Nat \ {0}
  /\ AsOfDelays \subseteq Nat
  /\ SpreadBands \subseteq Nat
  /\ EventIds \subseteq Nat
  /\ MaxTime \in Nat

VARIABLES
  state,              \* BrokerState
  pending,            \* quantity 0 is None
  quantity,           \* ActivePosition quantity; 0 is None
  normalExit,         \* ExitRequest; NoExit is None
  mandatoryExit,      \* MandatoryExit; NoExit is None
  lastFundingAt,      \* venue time; -1 is None
  lastTransitionAt,
  lastBookReceivedAt, \* last_execution_book_received_at; -1 is None
  lastObservation,    \* MarketObservationCursor; NoObservation is None
  latestSeenAsOf,
  walk                \* the taker walk of the last BrokerTransition, if any

vars == <<state, pending, quantity, normalExit, mandatoryExit, lastFundingAt,
          lastTransitionAt, lastBookReceivedAt, lastObservation,
          latestSeenAsOf, walk>>

Times == 0 .. MaxTime

NormalExitBand == 2
MandatoryWidening == 1
MandatoryCap == 8
Bands == NormalExitBand .. MandatoryCap

BrokerStates == {"PendingEntry", "Open", "NormalExit", "MandatoryExit",
                 "Flat", "Liquidated", "Unresolved"}

NormalReasons == {"Strategy", "TakeProfit", "Time", "OppositeSignal"}
MandatoryReasons == {"Stop", "Breaker", "Dust", "Liquidation"}
ExitReasons == NormalReasons \cup MandatoryReasons

\* ExitReason::mandatory_severity
Severity(reason) ==
  CASE reason = "Liquidation" -> 4
    [] reason = "Breaker" -> 3
    [] reason = "Stop" -> 2
    [] reason = "Dust" -> 1
    [] OTHER -> 0

NoExit == [reason |-> "none", triggerAt |-> -1, nextBand |-> 0]
NoPending == [quantity |-> 0, decidedAt |-> -1]
NoWalk == [role |-> "none", band |-> 0, filled |-> 0, at |-> -1]

\* A request carries no band until an attempt widened it (next_band: None).
ExitRequest(reason, at) ==
  [reason |-> reason, triggerAt |-> at, nextBand |-> 0]

\* What the mark tells about the position (observe_mark's priority).
MarkClasses == {"liquidation", "stop", "target", "neutral"}

\* MarketObservationCursor: at one venue instant marks precede fundings, and
\* the event id orders the distinct events of one kind.
Cursor(eventTime, kind, id) == [at |-> eventTime, kind |-> kind, id |-> id]
MarkKind == 0
FundingKind == 1
NoObservation == Cursor(-1, MarkKind, 0)

Precedes(a, b) ==
  \/ a.at < b.at
  \/ a.at = b.at /\ a.kind < b.kind
  \/ a.at = b.at /\ a.kind = b.kind /\ a.id < b.id

CausalBoundary ==
  IF lastTransitionAt >= latestSeenAsOf THEN lastTransitionAt
                                        ELSE latestSeenAsOf

ObserveAsOf(at) ==
  latestSeenAsOf' = IF at >= latestSeenAsOf THEN at ELSE latestSeenAsOf

Active == state \in {"Open", "NormalExit", "MandatoryExit"}

\* ExecutableBook::new, the recovery proof apart
AdmissibleBook(eventTime, receivedAt, asOf) ==
  /\ eventTime <= asOf /\ receivedAt <= asOf
  /\ asOf - eventTime <= MaximumBookAge

\* ExecutableMark::fresh and ExecutableFunding::new, the recovery proof apart
AdmissibleMark(eventTime, receivedAt, asOf) ==
  /\ eventTime <= receivedAt /\ receivedAt <= asOf
  /\ asOf - eventTime <= MaximumBookAge

\* ensure_fresh_market_observation
FreshObservation(cursor, receivedAt, asOf) ==
  /\ asOf >= CausalBoundary
  /\ receivedAt >= lastTransitionAt
  /\ lastObservation = NoObservation \/ Precedes(lastObservation, cursor)

\* Variants named ...Variant are deliberately wrong readings of the definition
\* that follows them: with one in its place, a property must fail.
EscalatedVariant(current, request) == [request EXCEPT !.nextBand = 0]

\* The mandatory slot after start_mandatory: an equal or lower severity does
\* not replace the request in force.
Escalated(current, request) ==
  IF current = NoExit \/ Severity(request.reason) > Severity(current.reason)
    THEN [request EXCEPT !.nextBand = 0]
    ELSE current

StartMandatory(request) ==
  /\ normalExit' = NoExit
  /\ mandatoryExit' = Escalated(mandatoryExit, request)
  /\ state' = "MandatoryExit"

MandatoryInitialBand(spread) ==
  CASE 2 * spread > MandatoryCap -> MandatoryCap
    [] 2 * spread < NormalExitBand -> NormalExitBand
    [] OTHER -> 2 * spread

WidenedBand(band) ==
  IF band + MandatoryWidening > MandatoryCap THEN MandatoryCap
                                             ELSE band + MandatoryWidening
-----------------------------------------------------------------------------
Init ==
  /\ state = "Flat"
  /\ pending = NoPending
  /\ quantity = 0
  /\ normalExit = NoExit
  /\ mandatoryExit = NoExit
  /\ lastFundingAt = -1
  /\ lastTransitionAt = 0
  /\ lastBookReceivedAt = -1
  /\ lastObservation = NoObservation
  /\ latestSeenAsOf = 0
  /\ walk = NoWalk

\* queue_order
QueueEntry(at, qty) ==
  /\ at >= CausalBoundary
  /\ state = "Flat"
  /\ pending' = [quantity |-> qty, decidedAt |-> at]
  /\ state' = "PendingEntry"
  /\ lastTransitionAt' = at
  /\ ObserveAsOf(at)
  /\ walk' = NoWalk
  /\ UNCHANGED <<quantity, normalExit, mandatoryExit, lastFundingAt,
                 lastBookReceivedAt, lastObservation>>

FreshExecutionBookVariant(receivedAt, asOf) ==
  /\ state # "Unresolved"
  /\ asOf >= CausalBoundary
  /\ receivedAt >= lastBookReceivedAt

\* ensure_fresh_execution_book
FreshExecutionBook(receivedAt, asOf) ==
  /\ state # "Unresolved"
  /\ asOf >= CausalBoundary
  /\ receivedAt > lastBookReceivedAt

\* consume_execution_book and the as-of observation that follows every walk
ConsumeBook(receivedAt, asOf) ==
  /\ lastBookReceivedAt' = receivedAt
  /\ lastTransitionAt' = receivedAt
  /\ ObserveAsOf(asOf)
  /\ UNCHANGED <<lastFundingAt, lastObservation>>

\* execute_entry: one walk, the residual is cancelled and never chased.
ExecuteEntry(receivedAt, asOf, filled, liquidated) ==
  /\ FreshExecutionBook(receivedAt, asOf)
  /\ state = "PendingEntry"
  /\ receivedAt > pending.decidedAt
  /\ filled \in 0 .. pending.quantity
  /\ ConsumeBook(receivedAt, asOf)
  /\ pending' = NoPending
  /\ quantity' = filled
  /\ walk' = IF filled = 0 THEN NoWalk
             ELSE [role |-> "Entry", band |-> 0, filled |-> filled,
                   at |-> receivedAt]
  /\ \/ /\ filled = 0
        /\ state' = "Flat"
        /\ UNCHANGED <<normalExit, mandatoryExit>>
     \/ /\ filled > 0 /\ filled < MinimumNotional
        /\ StartMandatory(ExitRequest("Dust", receivedAt))
     \/ /\ filled > 0 /\ filled >= MinimumNotional /\ liquidated
        /\ StartMandatory(ExitRequest("Liquidation", receivedAt))
     \/ /\ filled > 0 /\ filled >= MinimumNotional /\ ~liquidated
        /\ state' = "Open"
        /\ UNCHANGED <<normalExit, mandatoryExit>>

\* The margin of what a walk leaves at the mark of the request: not
\* liquidated, liquidated, or below two thirds of maintenance as well.
MarginClasses == {"healthy", "liquidated", "backstop"}

(* execute_exit.  normal and mandatory are the request slots the walk starts
   from; capped is a loss beyond the isolated collateral. *)
ExecuteExit(request, band, role, normal, mandatory, receivedAt, asOf, filled, capped, margin) ==
  LET residual == quantity - filled
      inForce ==
        CASE margin # "healthy" ->
               Escalated(mandatory, ExitRequest("Liquidation", receivedAt))
          [] margin = "healthy" /\ role # "NormalExit" ->
               [request EXCEPT !.nextBand = WidenedBand(band)]
          [] OTHER -> mandatory
  IN /\ filled \in 0 .. quantity
     /\ capped => filled > 0
     /\ ConsumeBook(receivedAt, asOf)
     /\ walk' = [role |-> role, band |-> band, filled |-> filled,
                 at |-> receivedAt]
     /\ UNCHANGED pending
     /\ \/ /\ residual = 0
           /\ quantity' = 0
           /\ normalExit' = NoExit /\ mandatoryExit' = NoExit
           /\ state' = IF request.reason = "Liquidation" \/ capped
                         THEN "Liquidated" ELSE "Flat"
        \/ /\ residual > 0
           /\ role = "Liquidation" /\ margin = "backstop"
           /\ quantity' = 0
           /\ normalExit' = NoExit /\ mandatoryExit' = NoExit
           /\ state' = "Liquidated"
        \/ /\ residual > 0
           /\ ~(role = "Liquidation" /\ margin = "backstop")
           /\ quantity' = residual
           /\ mandatoryExit' = inForce
           /\ normalExit' = IF inForce = NoExit THEN normal ELSE NoExit
           /\ state' = IF inForce = NoExit THEN "NormalExit"
                                           ELSE "MandatoryExit"

\* execute_normal_exit within the grace
NormalWalk(receivedAt, asOf, filled, capped, margin) ==
  /\ FreshExecutionBook(receivedAt, asOf)
  /\ state = "NormalExit"
  /\ receivedAt > normalExit.triggerAt
  /\ receivedAt < normalExit.triggerAt + NormalExitGrace
  /\ ExecuteExit(normalExit, NormalExitBand, "NormalExit",
                 normalExit, mandatoryExit,
                 receivedAt, asOf, filled, capped, margin)

\* execute_normal_exit after the grace: the book is walked as mandatory
ExpiredWalk(receivedAt, asOf, spread, filled, capped, margin) ==
  /\ FreshExecutionBook(receivedAt, asOf)
  /\ state = "NormalExit"
  /\ receivedAt > normalExit.triggerAt
  /\ receivedAt >= normalExit.triggerAt + NormalExitGrace
  /\ ExecuteExit(normalExit, MandatoryInitialBand(spread), "MandatoryExit",
                 NoExit, Escalated(mandatoryExit, normalExit),
                 receivedAt, asOf, filled, capped, margin)

\* execute_mandatory_exit
MandatoryWalk(receivedAt, asOf, spread, filled, capped, margin) ==
  /\ FreshExecutionBook(receivedAt, asOf)
  /\ state = "MandatoryExit"
  /\ receivedAt > mandatoryExit.triggerAt
  /\ ExecuteExit(mandatoryExit,
                 IF mandatoryExit.nextBand # 0
                   THEN mandatoryExit.nextBand
                   ELSE MandatoryInitialBand(spread),
                 IF mandatoryExit.reason = "Liquidation"
                   THEN "Liquidation" ELSE "MandatoryExit",
                 NoExit, mandatoryExit,
                 receivedAt, asOf, filled, capped, margin)

\* on_executable_book with nothing to execute
IdleBook(receivedAt, asOf) ==
  /\ FreshExecutionBook(receivedAt, asOf)
  /\ state \in {"Flat", "Open", "Liquidated"}
  /\ ObserveAsOf(asOf)
  /\ walk' = NoWalk
  /\ UNCHANGED <<state, pending, quantity, normalExit, mandatoryExit,
                 lastFundingAt, lastTransitionAt, lastBookReceivedAt,
                 lastObservation>>

OnExecutableBook ==
  \E eventTime, receivedAt \in Times, delay \in AsOfDelays :
    LET asOf == receivedAt + delay
    IN /\ asOf \in Times
       /\ AdmissibleBook(eventTime, receivedAt, asOf)
       /\ \/ IdleBook(receivedAt, asOf)
          \/ \E filled \in 0 .. OrderQuantity, liquidated \in BOOLEAN :
               ExecuteEntry(receivedAt, asOf, filled, liquidated)
          \/ \E filled \in 0 .. OrderQuantity, capped \in BOOLEAN,
                margin \in MarginClasses :
               NormalWalk(receivedAt, asOf, filled, capped, margin)
          \/ \E filled \in 0 .. OrderQuantity, capped \in BOOLEAN,
                margin \in MarginClasses, spread \in SpreadBands :
               \/ ExpiredWalk(receivedAt, asOf, spread, filled, capped, margin)
               \/ MandatoryWalk(receivedAt, asOf, spread, filled, capped,
                                margin)
-----------------------------------------------------------------------------
MarkedReasonVariant(class) ==
  CASE class = "liquidation" -> "Liquidation"
    [] class = "stop" -> "Stop"
    [] class = "target" -> "TakeProfit"
    [] OTHER -> "none"

\* The exit observe_mark derives from a mark, "none" when there is none.
MarkedReason(class) ==
  CASE class = "liquidation" -> "Liquidation"
    [] class = "stop" -> "Stop"
    [] class = "target" /\ state = "Open" -> "TakeProfit"
    [] OTHER -> "none"

\* The request slots after an accepted exit reason.
BeginExit(reason, at) ==
  /\ lastTransitionAt' = at
  /\ IF reason \in MandatoryReasons
       THEN StartMandatory(ExitRequest(reason, at))
       ELSE /\ normalExit' = ExitRequest(reason, at)
            /\ state' = "NormalExit"
            /\ UNCHANGED mandatoryExit

AdmitMark(id, eventTime, receivedAt, asOf) ==
  /\ state # "Unresolved"
  /\ AdmissibleMark(eventTime, receivedAt, asOf)
  /\ FreshObservation(Cursor(eventTime, MarkKind, id), receivedAt, asOf)
  /\ lastObservation' = Cursor(eventTime, MarkKind, id)
  /\ ObserveAsOf(asOf)
  /\ walk' = NoWalk
  /\ UNCHANGED <<pending, quantity, lastFundingAt, lastBookReceivedAt>>

\* observe_mark
ObserveMark(id, eventTime, receivedAt, asOf, class) ==
  /\ AdmitMark(id, eventTime, receivedAt, asOf)
  /\ IF Active /\ MarkedReason(class) # "none"
       THEN BeginExit(MarkedReason(class), receivedAt)
       ELSE UNCHANGED <<state, normalExit, mandatoryExit, lastTransitionAt>>

(* Engine::apply_exit_request: the mark is observed first, so that liquidation,
   stop and target keep their priority, and the strategy's reason is accepted
   only by a position the mark left open. *)
RequestExit(id, eventTime, receivedAt, asOf, class, reason) ==
  /\ AdmitMark(id, eventTime, receivedAt, asOf)
  /\ IF Active /\ MarkedReason(class) # "none"
       THEN BeginExit(MarkedReason(class), receivedAt)
       ELSE IF state = "Open"
              THEN BeginExit(reason, receivedAt)
              ELSE UNCHANGED <<state, normalExit, mandatoryExit,
                               lastTransitionAt>>

\* advance_time: an expired normal exit turns mandatory without a fill.
AdvanceTime(at) ==
  /\ at >= CausalBoundary
  /\ ObserveAsOf(at)
  /\ IF state = "NormalExit" /\ at >= normalExit.triggerAt + NormalExitGrace
       THEN /\ StartMandatory(normalExit)
            /\ lastTransitionAt' = at
       ELSE UNCHANGED <<state, normalExit, mandatoryExit, lastTransitionAt>>
  /\ walk' = NoWalk
  /\ UNCHANGED <<pending, quantity, lastFundingAt, lastBookReceivedAt,
                 lastObservation>>

\* apply_funding
ApplyFunding(id, venueAt, receivedAt, asOf, liquidated) ==
  /\ state # "Unresolved"
  /\ AdmissibleMark(venueAt, receivedAt, asOf)
  /\ venueAt > lastFundingAt
  /\ quantity > 0
  /\ FreshObservation(Cursor(venueAt, FundingKind, id), receivedAt, asOf)
  /\ lastObservation' = Cursor(venueAt, FundingKind, id)
  /\ ObserveAsOf(asOf)
  /\ lastFundingAt' = venueAt
  /\ lastTransitionAt' = receivedAt
  /\ IF liquidated
       THEN StartMandatory(ExitRequest("Liquidation", receivedAt))
       ELSE UNCHANGED <<state, normalExit, mandatoryExit>>
  /\ walk' = NoWalk
  /\ UNCHANGED <<pending, quantity, lastBookReceivedAt>>

EndOfDataVariant(at) ==
  /\ at >= CausalBoundary
  /\ ObserveAsOf(at)
  /\ state' = IF state \in {"Liquidated", "Unresolved"} THEN state ELSE "Flat"
  /\ pending' = NoPending
  /\ quantity' = 0
  /\ normalExit' = NoExit /\ mandatoryExit' = NoExit
  /\ lastTransitionAt' = at
  /\ walk' = NoWalk
  /\ UNCHANGED <<lastFundingAt, lastBookReceivedAt, lastObservation>>

\* end_of_data: exposure is never declared closed.
EndOfData(at) ==
  /\ at >= CausalBoundary
  /\ ObserveAsOf(at)
  /\ \/ /\ state = "PendingEntry"
        /\ state' = "Flat"
        /\ pending' = NoPending
        /\ lastTransitionAt' = at
     \/ /\ Active
        /\ state' = "Unresolved"
        /\ lastTransitionAt' = at
        /\ UNCHANGED pending
     \/ /\ state \in {"Flat", "Liquidated", "Unresolved"}
        /\ UNCHANGED <<state, pending, lastTransitionAt>>
  /\ walk' = NoWalk
  /\ UNCHANGED <<quantity, normalExit, mandatoryExit, lastFundingAt,
                 lastBookReceivedAt, lastObservation>>

OnMark ==
  \E eventTime, receivedAt \in Times, delay \in AsOfDelays,
     id \in EventIds, class \in MarkClasses :
    /\ receivedAt + delay \in Times
    /\ \/ ObserveMark(id, eventTime, receivedAt, receivedAt + delay, class)
       \/ \E reason \in ExitReasons :
            RequestExit(id, eventTime, receivedAt, receivedAt + delay, class,
                        reason)

OnFunding ==
  \E venueAt, receivedAt \in Times, delay \in AsOfDelays,
     id \in EventIds, liquidated \in BOOLEAN :
    /\ receivedAt + delay \in Times
    /\ ApplyFunding(id, venueAt, receivedAt, receivedAt + delay, liquidated)

Next ==
  \/ \E at \in Times, qty \in 1 .. OrderQuantity : QueueEntry(at, qty)
  \/ OnExecutableBook
  \/ OnMark
  \/ OnFunding
  \/ \E at \in Times : AdvanceTime(at) \/ EndOfData(at)

Spec == Init /\ [][Next]_vars
=============================================================================
