-------------------------- MODULE BrokerProperties --------------------------
(***************************************************************************)
(* What the paper broker must never do, and the abstract lifecycle it      *)
(* implements.                                                             *)
(***************************************************************************)
EXTENDS Broker

RequestType == [reason : ExitReasons, triggerAt : Times,
                nextBand : {0} \cup Bands]

\* The types of the broker's fields (PaperBroker).
TypeOK ==
  /\ state \in BrokerStates
  /\ pending \in [quantity : 1 .. OrderQuantity, decidedAt : Times]
                   \cup {NoPending}
  /\ quantity \in 0 .. OrderQuantity
  /\ normalExit \in RequestType \cup {NoExit}
  /\ mandatoryExit \in RequestType \cup {NoExit}
  /\ lastFundingAt \in Times \cup {-1}
  /\ lastTransitionAt \in Times
  /\ lastBookReceivedAt \in Times \cup {-1}
  /\ lastObservation \in [at : Times, kind : {MarkKind, FundingKind},
                           id : EventIds] \cup {NoObservation}
  /\ latestSeenAsOf \in Times
  /\ walk \in [role : {"none", "Entry", "NormalExit", "MandatoryExit",
                       "Liquidation"},
               band : {0} \cup Bands,
               filled : 0 .. OrderQuantity,
               at : Times \cup {-1}]

(* The optional fields agree with the state, whatever order marks, funding,
   books and clock ticks arrive in: the MissingPendingEntry, MissingNormalExit,
   MissingMandatoryExit and NoOpenPosition errors of a state that needs the
   field are unreachable, and nothing of a closed position survives it. *)
SlotsMatchState ==
  /\ state = "PendingEntry" <=> pending # NoPending
  /\ state \in {"Open", "NormalExit", "MandatoryExit", "Unresolved"}
       <=> quantity > 0
  /\ state = "NormalExit" => normalExit # NoExit
  /\ state = "MandatoryExit" => mandatoryExit # NoExit
  /\ normalExit # NoExit =>
       /\ state \in {"NormalExit", "Unresolved"}
       /\ normalExit.reason \in NormalReasons
       /\ mandatoryExit = NoExit
  /\ mandatoryExit # NoExit => state \in {"MandatoryExit", "Unresolved"}

(* Nothing the broker remembers lies after its causal boundary: a pending
   order, an exit trigger, a consumed book or observation that was ahead of it
   would make later inputs wait for, or act on, the future. *)
MemoryIsPast ==
  /\ pending.decidedAt <= CausalBoundary
  /\ normalExit.triggerAt <= CausalBoundary
  /\ mandatoryExit.triggerAt <= CausalBoundary
  /\ lastBookReceivedAt <= CausalBoundary
  /\ lastFundingAt <= CausalBoundary
  /\ lastObservation.at <= CausalBoundary

(* The boundary sources are admitted against never moves back, although
   last_transition_at alone may: a book received before a mark and applied
   after it sets it to the book's earlier receipt. *)
BoundaryNeverRegresses == [][CausalBoundary' >= CausalBoundary]_vars

(* A mandatory exit is irrevocable: it ends by a walk or the end of data, and
   until then no weaker cause replaces the one in force. *)
MandatoryNeverDowngraded ==
  [][state = "MandatoryExit" =>
       /\ state' \in {"MandatoryExit", "Flat", "Liquidated", "Unresolved"}
       /\ state' = "MandatoryExit" =>
            Severity(mandatoryExit'.reason) >= Severity(mandatoryExit.reason)
    ]_vars

(* Exposure changes only by walking a book received after every book walked
   before, and after the decision or the trigger in force: no book is used
   twice, and none that was known when the decision was taken. *)
EveryFillOnItsOwnLaterBook ==
  [][quantity' # quantity =>
       /\ lastBookReceivedAt' > lastBookReceivedAt
       /\ lastBookReceivedAt' > pending.decidedAt
       /\ lastBookReceivedAt' > normalExit.triggerAt
       /\ lastBookReceivedAt' > mandatoryExit.triggerAt]_vars

(* The five seconds of a normal exit count from its first trigger: no later
   mark, request, funding or partial fill restarts them. *)
GraceNeverRestarted ==
  [][state = "NormalExit" /\ state' = "NormalExit" =>
       normalExit' = normalExit]_vars

Phase ==
  CASE state = "Flat" -> "idle"
    [] state = "PendingEntry" -> "ordered"
    [] state = "Open" -> "held"
    [] state = "NormalExit" -> "leaving"
    [] state = "MandatoryExit" -> "forced"
    [] state = "Liquidated" -> "settled"
    [] state = "Unresolved" -> "stranded"

Abstract == INSTANCE PositionLifecycle WITH
              MaxExposure <- OrderQuantity, phase <- Phase,
              exposure <- quantity

(* The broker implements the abstract lifecycle of one position. *)
ImplementsLifecycle == Abstract!Lifecycle

=============================================================================
