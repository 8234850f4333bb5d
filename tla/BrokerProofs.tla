---------------------------- MODULE BrokerProofs ----------------------------
(***************************************************************************)
(* Proofs about the paper broker for every order size, age, grace, delay   *)
(* and bound on time.  The three state invariants are inductive together.  *)
(***************************************************************************)
EXTENDS BrokerProperties, TLAPS

IInv == TypeOK /\ SlotsMatchState /\ MemoryIsPast

Slot == RequestType \cup {NoExit}

(* Exit requests: every reason makes a request, a request is never the empty
   slot, and a band may be attached to it. *)
LEMMA RequestFacts ==
  /\ \A reason \in ExitReasons, at \in Times :
       ExitRequest(reason, at) \in RequestType
  /\ \A r \in RequestType : r # NoExit /\ r.reason \in ExitReasons
                              /\ r.triggerAt \in Times
                              /\ r.nextBand \in {0} \cup Bands
  /\ \A r \in RequestType, b \in {0} \cup Bands :
       /\ [r EXCEPT !.nextBand = b] \in RequestType
       /\ [r EXCEPT !.nextBand = b].triggerAt = r.triggerAt
       /\ [r EXCEPT !.nextBand = b].reason = r.reason
  /\ \A reason \in ExitReasons, at \in Times :
       /\ ExitRequest(reason, at).reason = reason
       /\ ExitRequest(reason, at).triggerAt = at
  /\ NoExit.triggerAt = -1 /\ NoExit.reason = "none"
<1>1. \A r \in RequestType : r.reason \in ExitReasons
                              /\ r.triggerAt \in Times
                              /\ r.nextBand \in {0} \cup Bands
  BY DEF RequestType
<1>2. \A r \in RequestType : r # NoExit
  BY <1>1 DEF NoExit, ExitReasons, NormalReasons, MandatoryReasons
<1>3. \A r \in RequestType, b \in {0} \cup Bands :
       /\ [r EXCEPT !.nextBand = b] \in RequestType
       /\ [r EXCEPT !.nextBand = b].triggerAt = r.triggerAt
       /\ [r EXCEPT !.nextBand = b].reason = r.reason
  BY DEF RequestType
<1>4. \A reason \in ExitReasons, at \in Times :
       /\ ExitRequest(reason, at) \in RequestType
       /\ ExitRequest(reason, at).reason = reason
       /\ ExitRequest(reason, at).triggerAt = at
  BY DEF RequestType, ExitRequest
<1> QED
  BY <1>1, <1>2, <1>3, <1>4 DEF NoExit

(* The slot after a mandatory request is a request, no later than both. *)
LEMMA EscalatedFacts ==
  ASSUME NEW current \in Slot, NEW request \in RequestType
  PROVE  /\ Escalated(current, request) \in RequestType
         /\ Escalated(current, request).triggerAt
              \in {current.triggerAt, request.triggerAt}
         /\ current # NoExit =>
              Severity(Escalated(current, request).reason)
                >= Severity(current.reason)
<1>1. [request EXCEPT !.nextBand = 0] \in RequestType
      /\ [request EXCEPT !.nextBand = 0].triggerAt = request.triggerAt
      /\ [request EXCEPT !.nextBand = 0].reason = request.reason
  BY RequestFacts
<1>2. Severity(request.reason) \in Nat /\ Severity(current.reason) \in Nat
  BY DEF Severity
<1>3. CASE current = NoExit \/ Severity(request.reason) > Severity(current.reason)
  BY <1>1, <1>2, <1>3 DEF Escalated
<1>4. CASE ~(current = NoExit
             \/ Severity(request.reason) > Severity(current.reason))
  BY <1>2, <1>4 DEF Escalated, Slot
<1> QED BY <1>3, <1>4

(* Bands stay between the normal band and the mandatory cap. *)
LEMMA BandFacts ==
  /\ \A spread \in Nat : MandatoryInitialBand(spread) \in Bands
  /\ \A band \in Bands : WidenedBand(band) \in Bands
  /\ NormalExitBand \in Bands
BY DEF MandatoryInitialBand, WidenedBand, Bands, NormalExitBand,
       MandatoryWidening, MandatoryCap

(* The boundary is the later of its two clocks. *)
LEMMA BoundaryFacts ==
  ASSUME TypeOK
  PROVE  /\ CausalBoundary \in Times
         /\ CausalBoundary >= lastTransitionAt
         /\ CausalBoundary >= latestSeenAsOf
BY BrokerAssumption DEF TypeOK, CausalBoundary, Times

(* The times the broker remembers are integers. *)
LEMMA MemoryTypes ==
  ASSUME TypeOK
  PROVE  /\ pending.decidedAt \in Int
         /\ normalExit.triggerAt \in Int /\ mandatoryExit.triggerAt \in Int
         /\ lastBookReceivedAt \in Int /\ lastFundingAt \in Int
         /\ lastObservation.at \in Int
         /\ CausalBoundary \in Int
         /\ normalExit \in Slot /\ mandatoryExit \in Slot
<1>1. pending.decidedAt \in Int
  BY BrokerAssumption DEF TypeOK, NoPending, Times
<1>2. lastObservation.at \in Int
  BY BrokerAssumption DEF TypeOK, NoObservation, Cursor, Times
<1>3. normalExit.triggerAt \in Int /\ mandatoryExit.triggerAt \in Int
  BY BrokerAssumption, RequestFacts DEF TypeOK, Times
<1> QED BY <1>1, <1>2, <1>3, BoundaryFacts, BrokerAssumption
        DEF TypeOK, Times, Slot

(* Initially everything is empty. *)
LEMMA InitIInv == Init => IInv
<1> SUFFICES ASSUME Init PROVE IInv
  OBVIOUS
<1>1. TypeOK
  BY BrokerAssumption
  DEF Init, TypeOK, BrokerStates, Times, NoWalk, NoObservation, Cursor
<1>2. SlotsMatchState
  BY DEF Init, SlotsMatchState
<1>3. MemoryIsPast
  BY DEF Init, MemoryIsPast, CausalBoundary, NoPending, NoExit, NoObservation,
         Cursor
<1> QED BY <1>1, <1>2, <1>3 DEF IInv

-----------------------------------------------------------------------------
(* The slots of a started mandatory exit. *)
LEMMA StartMandatoryFacts ==
  ASSUME NEW request \in RequestType, mandatoryExit \in Slot,
         StartMandatory(request)
  PROVE  /\ normalExit' = NoExit
         /\ state' = "MandatoryExit"
         /\ mandatoryExit' \in RequestType
         /\ mandatoryExit' # NoExit
         /\ mandatoryExit'.triggerAt
              \in {mandatoryExit.triggerAt, request.triggerAt}
<1>1. mandatoryExit' = Escalated(mandatoryExit, request)
  BY DEF StartMandatory
<1>2. Escalated(mandatoryExit, request) \in RequestType
      /\ Escalated(mandatoryExit, request).triggerAt
           \in {mandatoryExit.triggerAt, request.triggerAt}
  BY EscalatedFacts
<1> QED BY <1>1, <1>2, RequestFacts DEF StartMandatory

(* An order of the engine. *)
LEMMA QueueEntryIInv ==
  ASSUME IInv, NEW at \in Times, NEW qty \in 1 .. OrderQuantity,
         QueueEntry(at, qty)
  PROVE  IInv'
<1> USE DEF IInv
<1>1. TypeOK'
  BY BrokerAssumption
  DEF TypeOK, QueueEntry, ObserveAsOf, BrokerStates, Times, NoWalk
<1>2. SlotsMatchState'
  BY BrokerAssumption DEF TypeOK, SlotsMatchState, QueueEntry, NoPending, Times
<1>3. MemoryIsPast'
  <2>1. /\ pending'.decidedAt = at /\ at \in Int
        /\ CausalBoundary' >= at /\ CausalBoundary' >= CausalBoundary
        /\ CausalBoundary' \in Int
    BY BrokerAssumption
    DEF TypeOK, QueueEntry, ObserveAsOf, CausalBoundary, Times
  <2> QED BY <2>1, MemoryTypes DEF MemoryIsPast, QueueEntry
<1> QED BY <1>1, <1>2, <1>3

(* The clocks after a walk. *)
LEMMA ConsumeFacts ==
  ASSUME TypeOK, MemoryIsPast, NEW receivedAt \in Times, NEW asOf \in Times,
         receivedAt <= asOf, FreshExecutionBook(receivedAt, asOf),
         ConsumeBook(receivedAt, asOf)
  PROVE  /\ lastFundingAt' = lastFundingAt
         /\ lastObservation' = lastObservation
         /\ lastBookReceivedAt' = receivedAt
         /\ lastTransitionAt' \in Times
         /\ latestSeenAsOf' \in Times
         /\ CausalBoundary' >= CausalBoundary
         /\ CausalBoundary' >= receivedAt
         /\ CausalBoundary \in Int /\ CausalBoundary' \in Int
BY BrokerAssumption
DEF TypeOK, FreshExecutionBook, ConsumeBook, ObserveAsOf, CausalBoundary, Times

(* The single walk of an entry order. *)
LEMMA ExecuteEntryIInv ==
  ASSUME IInv, NEW receivedAt \in Times, NEW asOf \in Times,
         receivedAt <= asOf, NEW filled \in 0 .. OrderQuantity,
         NEW liquidated \in BOOLEAN,
         ExecuteEntry(receivedAt, asOf, filled, liquidated)
  PROVE  IInv'
<1> USE DEF IInv
<1>1. /\ FreshExecutionBook(receivedAt, asOf) /\ ConsumeBook(receivedAt, asOf)
      /\ state = "PendingEntry" /\ pending' = NoPending /\ quantity' = filled
      /\ walk' = IF filled = 0 THEN NoWalk
                 ELSE [role |-> "Entry", band |-> 0, filled |-> filled,
                       at |-> receivedAt]
  BY DEF ExecuteEntry
<1>2. /\ lastFundingAt' = lastFundingAt
      /\ lastObservation' = lastObservation
      /\ lastBookReceivedAt' = receivedAt
      /\ lastTransitionAt' \in Times
      /\ latestSeenAsOf' \in Times
      /\ CausalBoundary' >= CausalBoundary
      /\ CausalBoundary' >= receivedAt
      /\ CausalBoundary \in Int /\ CausalBoundary' \in Int
  BY <1>1, ConsumeFacts
<1>3. mandatoryExit = NoExit /\ normalExit = NoExit
  BY <1>1 DEF SlotsMatchState
<1>4. mandatoryExit \in Slot
  BY <1>3 DEF Slot
<1>5. walk' \in [role : {"none", "Entry", "NormalExit", "MandatoryExit",
                         "Liquidation"},
                 band : {0} \cup Bands, filled : 0 .. OrderQuantity,
                 at : Times \cup {-1}]
  BY <1>1, BrokerAssumption DEF NoWalk, Times
<1>6. \/ /\ filled = 0
         /\ state' = "Flat"
         /\ normalExit' = NoExit /\ mandatoryExit' = NoExit
      \/ /\ filled > 0
         /\ state' = "Open"
         /\ normalExit' = NoExit /\ mandatoryExit' = NoExit
      \/ /\ filled > 0
         /\ state' = "MandatoryExit"
         /\ normalExit' = NoExit
         /\ mandatoryExit' \in RequestType
         /\ mandatoryExit' # NoExit
         /\ mandatoryExit'.triggerAt \in {-1, receivedAt}
  <2>1. \A reason \in {"Dust", "Liquidation"} :
          ExitRequest(reason, receivedAt) \in RequestType
          /\ ExitRequest(reason, receivedAt).triggerAt = receivedAt
    BY RequestFacts DEF ExitReasons, MandatoryReasons
  <2>2. CASE filled = 0 /\ state' = "Flat"
               /\ UNCHANGED <<normalExit, mandatoryExit>>
    BY <2>2, <1>3
  <2>3. CASE filled > 0 /\ StartMandatory(ExitRequest("Dust", receivedAt))
    <3>1. /\ normalExit' = NoExit
          /\ state' = "MandatoryExit"
          /\ mandatoryExit' \in RequestType
          /\ mandatoryExit' # NoExit
          /\ mandatoryExit'.triggerAt
              \in {mandatoryExit.triggerAt, receivedAt}
      BY <2>1, <2>3, <1>4, StartMandatoryFacts
    <3> QED BY <3>1, <2>3, <1>3, RequestFacts
  <2>4. CASE filled > 0 /\ StartMandatory(ExitRequest("Liquidation", receivedAt))
    <3>1. /\ normalExit' = NoExit
          /\ state' = "MandatoryExit"
          /\ mandatoryExit' \in RequestType
          /\ mandatoryExit' # NoExit
          /\ mandatoryExit'.triggerAt
              \in {mandatoryExit.triggerAt, receivedAt}
      BY <2>1, <2>4, <1>4, StartMandatoryFacts
    <3> QED BY <3>1, <2>4, <1>3, RequestFacts
  <2>5. CASE filled > 0 /\ state' = "Open"
               /\ UNCHANGED <<normalExit, mandatoryExit>>
    BY <2>5, <1>3
  <2> QED BY <2>2, <2>3, <2>4, <2>5 DEF ExecuteEntry
<1>7. TypeOK'
  BY <1>1, <1>2, <1>5, <1>6, BrokerAssumption
  DEF TypeOK, BrokerStates, Times
<1>8. SlotsMatchState'
  BY <1>1, <1>6, BrokerAssumption DEF SlotsMatchState
<1>9. MemoryIsPast'
  BY <1>1, <1>2, <1>6, <1>3, RequestFacts, BrokerAssumption
  DEF MemoryIsPast, TypeOK, NoPending, Times, NoObservation, Cursor
<1> QED BY <1>7, <1>8, <1>9

(* A walk of an exit, whichever of the three ways it started. *)
LEMMA ExecuteExitIInv ==
  ASSUME IInv, NEW request \in RequestType, NEW band \in Bands,
         NEW role \in {"NormalExit", "MandatoryExit", "Liquidation"},
         NEW normal \in Slot, NEW mandatory \in Slot,
         NEW receivedAt \in Times, NEW asOf \in Times, receivedAt <= asOf,
         NEW filled \in 0 .. OrderQuantity, NEW capped \in BOOLEAN,
         NEW margin \in MarginClasses,
         FreshExecutionBook(receivedAt, asOf),
         state \in {"NormalExit", "MandatoryExit"},
         request.triggerAt <= CausalBoundary,
         mandatory.triggerAt <= CausalBoundary,
         \/ role = "NormalExit" /\ normal = normalExit /\ normalExit # NoExit
         \/ role # "NormalExit" /\ normal = NoExit,
         ExecuteExit(request, band, role, normal, mandatory,
                     receivedAt, asOf, filled, capped, margin)
  PROVE  IInv'
<1> DEFINE inForce ==
      CASE margin # "healthy" ->
             Escalated(mandatory, ExitRequest("Liquidation", receivedAt))
        [] margin = "healthy" /\ role # "NormalExit" ->
             [request EXCEPT !.nextBand = WidenedBand(band)]
        [] OTHER -> mandatory
<1> USE DEF IInv
<1>1. /\ ConsumeBook(receivedAt, asOf)
      /\ walk' = [role |-> role, band |-> band, filled |-> filled,
                  at |-> receivedAt]
      /\ pending' = pending
  BY DEF ExecuteExit
<1>2. /\ lastFundingAt' = lastFundingAt
      /\ lastObservation' = lastObservation
      /\ lastBookReceivedAt' = receivedAt
      /\ lastTransitionAt' \in Times
      /\ latestSeenAsOf' \in Times
      /\ CausalBoundary' >= CausalBoundary
      /\ CausalBoundary' >= receivedAt
      /\ CausalBoundary \in Int /\ CausalBoundary' \in Int
  BY <1>1, ConsumeFacts
<1>3. walk' \in [role : {"none", "Entry", "NormalExit", "MandatoryExit",
                         "Liquidation"},
                 band : {0} \cup Bands, filled : 0 .. OrderQuantity,
                 at : Times \cup {-1}]
  BY <1>1
<1>4. /\ inForce \in Slot
      /\ inForce.triggerAt \in {mandatory.triggerAt, request.triggerAt,
                                receivedAt}
      /\ inForce = NoExit => role = "NormalExit"
  <2>1. CASE margin # "healthy"
    <3>1. /\ ExitRequest("Liquidation", receivedAt) \in RequestType
          /\ ExitRequest("Liquidation", receivedAt).triggerAt = receivedAt
      BY RequestFacts DEF ExitReasons, MandatoryReasons
    <3>2. inForce = Escalated(mandatory, ExitRequest("Liquidation", receivedAt))
      BY <2>1
    <3>3. /\ inForce \in RequestType
          /\ inForce.triggerAt \in {mandatory.triggerAt, receivedAt}
      BY <3>1, <3>2, EscalatedFacts
    <3> QED BY <3>3, RequestFacts DEF Slot
  <2>2. CASE margin = "healthy" /\ role # "NormalExit"
    <3>1. inForce = [request EXCEPT !.nextBand = WidenedBand(band)]
      BY <2>2
    <3>2. WidenedBand(band) \in {0} \cup Bands
      BY BandFacts
    <3> HIDE DEF inForce
    <3>3. inForce \in RequestType /\ inForce.triggerAt = request.triggerAt
      BY <3>1, <3>2, RequestFacts
    <3> QED BY <3>3, RequestFacts DEF Slot
  <2>3. CASE margin = "healthy" /\ role = "NormalExit"
    BY <2>3
  <2> QED BY <2>1, <2>2, <2>3
<1>5. \/ /\ quantity' = 0 /\ normalExit' = NoExit /\ mandatoryExit' = NoExit
         /\ state' \in {"Flat", "Liquidated"}
      \/ /\ quantity' \in 1 .. OrderQuantity
         /\ mandatoryExit' = inForce
         /\ normalExit' = IF inForce = NoExit THEN normal ELSE NoExit
         /\ state' = IF inForce = NoExit THEN "NormalExit"
                                         ELSE "MandatoryExit"
  <2>1. quantity - filled \in 0 .. OrderQuantity
    BY BrokerAssumption DEF ExecuteExit, TypeOK
  <2>2. CASE quantity - filled = 0
    BY <2>2 DEF ExecuteExit
  <2>3. CASE quantity - filled # 0
    BY <2>1, <2>3 DEF ExecuteExit
  <2> QED BY <2>2, <2>3
<1> HIDE DEF inForce
<1>6. TypeOK'
  <2>1. pending' \in [quantity : 1 .. OrderQuantity, decidedAt : Times]
                        \cup {NoPending}
    BY <1>1 DEF TypeOK
  <2>2. normalExit' \in Slot /\ mandatoryExit' \in Slot
    BY <1>4, <1>5 DEF Slot
  <2>3. state' \in BrokerStates /\ quantity' \in 0 .. OrderQuantity
    BY <1>5, BrokerAssumption DEF BrokerStates
  <2> QED BY <2>1, <2>2, <2>3, <1>2, <1>3 DEF TypeOK, Slot
<1>7. SlotsMatchState'
  <2>1. pending = NoPending
    BY DEF SlotsMatchState
  <2>2. normalExit # NoExit => normalExit.reason \in NormalReasons
    BY DEF SlotsMatchState
  <2>3. CASE quantity' = 0
    BY <2>1, <2>3, <1>1, <1>5 DEF SlotsMatchState
  <2>4. CASE quantity' # 0 /\ inForce = NoExit
    BY <2>1, <2>2, <2>4, <1>1, <1>4, <1>5 DEF SlotsMatchState
  <2>5. CASE quantity' # 0 /\ inForce # NoExit
    BY <2>1, <2>5, <1>1, <1>5 DEF SlotsMatchState
  <2> QED BY <2>3, <2>4, <2>5
<1>8. MemoryIsPast'
  <2>1. NoExit.triggerAt <= CausalBoundary /\ request.triggerAt \in Int
        /\ mandatory.triggerAt \in Int
    BY RequestFacts, BoundaryFacts, BrokerAssumption DEF Times, Slot
  <2>2. mandatoryExit'.triggerAt <= CausalBoundary'
        /\ normalExit'.triggerAt <= CausalBoundary'
    <3>1. inForce.triggerAt <= CausalBoundary'
      BY <1>2, <1>4, <2>1
    <3>2. NoExit.triggerAt <= CausalBoundary' /\ NoExit.triggerAt \in Int
      BY <1>2, <2>1, RequestFacts
    <3>3. normal.triggerAt <= CausalBoundary'
      BY <1>2, <3>2, MemoryTypes DEF MemoryIsPast
    <3> QED BY <1>5, <3>1, <3>2, <3>3
  <2> QED BY <1>1, <1>2, <2>2, MemoryTypes DEF MemoryIsPast
<1> QED BY <1>6, <1>7, <1>8

(* A book, whatever it finds to execute. *)
LEMMA OnExecutableBookIInv == ASSUME IInv, OnExecutableBook PROVE IInv'
<1> USE DEF IInv
<1>1. PICK eventTime \in Times, receivedAt \in Times, delay \in AsOfDelays :
        /\ receivedAt + delay \in Times
        /\ AdmissibleBook(eventTime, receivedAt, receivedAt + delay)
        /\ \/ IdleBook(receivedAt, receivedAt + delay)
           \/ \E filled \in 0 .. OrderQuantity, liquidated \in BOOLEAN :
                ExecuteEntry(receivedAt, receivedAt + delay, filled, liquidated)
           \/ \E filled \in 0 .. OrderQuantity, capped \in BOOLEAN,
                 margin \in MarginClasses :
                NormalWalk(receivedAt, receivedAt + delay, filled, capped,
                           margin)
           \/ \E filled \in 0 .. OrderQuantity, capped \in BOOLEAN,
                 margin \in MarginClasses, spread \in SpreadBands :
                \/ ExpiredWalk(receivedAt, receivedAt + delay, spread, filled,
                               capped, margin)
                \/ MandatoryWalk(receivedAt, receivedAt + delay, spread,
                                 filled, capped, margin)
  BY DEF OnExecutableBook
<1> DEFINE asOf == receivedAt + delay
<1>2. asOf \in Times /\ receivedAt <= asOf
  BY <1>1 DEF AdmissibleBook
<1> HIDE DEF asOf
<1>3. CASE IdleBook(receivedAt, asOf)
  <2>1. TypeOK'
    BY <1>2, <1>3, BrokerAssumption
    DEF TypeOK, IdleBook, ObserveAsOf, Times, NoWalk
  <2>2. SlotsMatchState'
    BY <1>3 DEF SlotsMatchState, IdleBook
  <2>3. CausalBoundary' >= CausalBoundary /\ CausalBoundary' \in Int
    BY <1>2, <1>3, BrokerAssumption
    DEF TypeOK, IdleBook, ObserveAsOf, CausalBoundary, Times
  <2>4. MemoryIsPast'
    BY <1>3, <2>3, MemoryTypes DEF MemoryIsPast, IdleBook
  <2> QED BY <2>1, <2>2, <2>4
<1>4. CASE \E filled \in 0 .. OrderQuantity, liquidated \in BOOLEAN :
             ExecuteEntry(receivedAt, asOf, filled, liquidated)
  BY <1>2, <1>4, ExecuteEntryIInv
<1>5. ASSUME NEW filled \in 0 .. OrderQuantity, NEW capped \in BOOLEAN,
             NEW margin \in MarginClasses,
             NormalWalk(receivedAt, asOf, filled, capped, margin)
      PROVE  IInv'
  <2>1. /\ FreshExecutionBook(receivedAt, asOf) /\ state = "NormalExit"
        /\ ExecuteExit(normalExit, NormalExitBand, "NormalExit", normalExit,
                       mandatoryExit, receivedAt, asOf, filled, capped, margin)
    BY <1>5 DEF NormalWalk
  <2>2. /\ normalExit # NoExit
        /\ normalExit \in Slot /\ normalExit \in RequestType
        /\ mandatoryExit \in Slot
        /\ normalExit.triggerAt <= CausalBoundary
        /\ mandatoryExit.triggerAt <= CausalBoundary
    BY <2>1 DEF SlotsMatchState, MemoryIsPast, TypeOK, Slot
  <2> QED BY <1>2, <2>1, <2>2, BandFacts, ExecuteExitIInv
<1>6. ASSUME NEW filled \in 0 .. OrderQuantity, NEW capped \in BOOLEAN,
             NEW margin \in MarginClasses, NEW spread \in SpreadBands,
             ExpiredWalk(receivedAt, asOf, spread, filled, capped, margin)
      PROVE  IInv'
  <2> DEFINE forced == Escalated(mandatoryExit, normalExit)
  <2>1. /\ FreshExecutionBook(receivedAt, asOf) /\ state = "NormalExit"
        /\ ExecuteExit(normalExit, MandatoryInitialBand(spread),
                       "MandatoryExit", NoExit, forced,
                       receivedAt, asOf, filled, capped, margin)
    BY <1>6 DEF ExpiredWalk
  <2>2. /\ normalExit \in RequestType
        /\ mandatoryExit \in Slot /\ NoExit \in Slot
        /\ normalExit.triggerAt <= CausalBoundary
        /\ mandatoryExit.triggerAt <= CausalBoundary
    BY <2>1 DEF SlotsMatchState, MemoryIsPast, TypeOK, Slot
  <2>3. forced \in Slot /\ forced.triggerAt <= CausalBoundary
    BY <2>2, EscalatedFacts DEF Slot
  <2>4. MandatoryInitialBand(spread) \in Bands
    BY BandFacts, BrokerAssumption
  <2> HIDE DEF forced
  <2> QED BY <1>2, <2>1, <2>2, <2>3, <2>4, ExecuteExitIInv
<1>7. ASSUME NEW filled \in 0 .. OrderQuantity, NEW capped \in BOOLEAN,
             NEW margin \in MarginClasses, NEW spread \in SpreadBands,
             MandatoryWalk(receivedAt, asOf, spread, filled, capped, margin)
      PROVE  IInv'
  <2> DEFINE band == IF mandatoryExit.nextBand # 0
                       THEN mandatoryExit.nextBand
                       ELSE MandatoryInitialBand(spread)
             role == IF mandatoryExit.reason = "Liquidation"
                       THEN "Liquidation" ELSE "MandatoryExit"
  <2>1. /\ FreshExecutionBook(receivedAt, asOf) /\ state = "MandatoryExit"
        /\ ExecuteExit(mandatoryExit, band, role, NoExit, mandatoryExit,
                       receivedAt, asOf, filled, capped, margin)
    BY <1>7 DEF MandatoryWalk
  <2>2. /\ mandatoryExit \in RequestType
        /\ mandatoryExit \in Slot /\ NoExit \in Slot
        /\ mandatoryExit.triggerAt <= CausalBoundary
    BY <2>1 DEF SlotsMatchState, MemoryIsPast, TypeOK, Slot
  <2>3. band \in Bands
    BY <2>2, BandFacts, RequestFacts, BrokerAssumption
  <2>4. role \in {"NormalExit", "MandatoryExit", "Liquidation"}
        /\ role # "NormalExit"
    OBVIOUS
  <2> HIDE DEF band, role
  <2> QED BY <1>2, <2>1, <2>2, <2>3, <2>4, ExecuteExitIInv
<1> QED BY <1>1, <1>3, <1>4, <1>5, <1>6, <1>7 DEF asOf

-----------------------------------------------------------------------------
(* The clocks after an observation that leaves lastTransitionAt alone or sets
   it to a receipt no later than the as-of time. *)
LEMMA ObservationFacts ==
  ASSUME TypeOK, NEW asOf \in Times, asOf >= CausalBoundary, ObserveAsOf(asOf),
         \/ lastTransitionAt' = lastTransitionAt
         \/ lastTransitionAt' \in Times /\ lastTransitionAt' <= asOf
  PROVE  /\ latestSeenAsOf' \in Times /\ lastTransitionAt' \in Times
         /\ CausalBoundary' >= CausalBoundary
         /\ CausalBoundary' >= asOf
         /\ CausalBoundary' >= lastTransitionAt'
         /\ CausalBoundary' \in Int
BY BrokerAssumption DEF TypeOK, ObserveAsOf, CausalBoundary, Times

(* An exit accepted at the present by an active position. *)
LEMMA BeginExitFacts ==
  ASSUME TypeOK, SlotsMatchState, NEW reason \in ExitReasons, NEW at \in Times,
         Active, reason \notin MandatoryReasons => state = "Open",
         BeginExit(reason, at)
  PROVE  /\ lastTransitionAt' = at
         /\ \/ /\ state' = "NormalExit"
               /\ normalExit' \in RequestType /\ normalExit' # NoExit
               /\ normalExit'.reason \in NormalReasons
               /\ normalExit'.triggerAt = at
               /\ mandatoryExit' = NoExit
            \/ /\ state' = "MandatoryExit"
               /\ normalExit' = NoExit
               /\ mandatoryExit' \in RequestType /\ mandatoryExit' # NoExit
               /\ mandatoryExit'.triggerAt \in {mandatoryExit.triggerAt, at}
<1>1. /\ ExitRequest(reason, at) \in RequestType
      /\ ExitRequest(reason, at).triggerAt = at
      /\ ExitRequest(reason, at).reason = reason
      /\ ExitRequest(reason, at) # NoExit
  BY RequestFacts
<1>2. CASE reason \in MandatoryReasons
  <2>1. StartMandatory(ExitRequest(reason, at)) /\ lastTransitionAt' = at
    BY <1>2 DEF BeginExit
  <2> QED BY <2>1, <1>1, StartMandatoryFacts DEF TypeOK, Slot
<1>3. CASE reason \notin MandatoryReasons
  <2>1. reason \in NormalReasons
    BY <1>3 DEF ExitReasons
  <2>2. mandatoryExit = NoExit
    BY <1>3 DEF SlotsMatchState
  <2> QED BY <1>1, <1>3, <2>1, <2>2 DEF BeginExit
<1> QED BY <1>2, <1>3

(* An admitted mark keeps the invariant if the exit it begins, if any, is one
   an active position may begin. *)
LEMMA AdmittedMarkIInv ==
  ASSUME IInv, NEW id \in EventIds, NEW eventTime \in Times,
         NEW receivedAt \in Times, NEW asOf \in Times,
         AdmitMark(id, eventTime, receivedAt, asOf),
         \/ \E reason \in ExitReasons :
              /\ Active
              /\ reason \notin MandatoryReasons => state = "Open"
              /\ BeginExit(reason, receivedAt)
         \/ UNCHANGED <<state, normalExit, mandatoryExit, lastTransitionAt>>
  PROVE  IInv'
<1> USE DEF IInv
<1>1. /\ receivedAt <= asOf /\ eventTime <= receivedAt
      /\ asOf >= CausalBoundary /\ ObserveAsOf(asOf)
      /\ lastObservation' = Cursor(eventTime, MarkKind, id)
      /\ walk' = NoWalk
      /\ UNCHANGED <<pending, quantity, lastFundingAt, lastBookReceivedAt>>
  BY DEF AdmitMark, AdmissibleMark, FreshObservation
<1>2. lastTransitionAt' = lastTransitionAt \/ lastTransitionAt' = receivedAt
  BY DEF BeginExit
<1>3. /\ latestSeenAsOf' \in Times /\ lastTransitionAt' \in Times
      /\ CausalBoundary' >= CausalBoundary
      /\ CausalBoundary' >= asOf
      /\ CausalBoundary' >= lastTransitionAt'
      /\ CausalBoundary' \in Int
  BY <1>1, <1>2, ObservationFacts
<1>4. walk' \in [role : {"none", "Entry", "NormalExit", "MandatoryExit",
                         "Liquidation"},
                 band : {0} \cup Bands, filled : 0 .. OrderQuantity,
                 at : Times \cup {-1}]
  BY <1>1, BrokerAssumption DEF NoWalk, Times
<1>5. /\ lastObservation' \in [at : Times, kind : {MarkKind, FundingKind},
                               id : EventIds] \cup {NoObservation}
      /\ lastObservation'.at <= CausalBoundary'
  BY <1>1, <1>3, BrokerAssumption DEF Cursor, Times
<1>6. \/ /\ lastTransitionAt' = receivedAt
         /\ Active
         /\ \/ /\ state' = "NormalExit"
               /\ normalExit' \in RequestType /\ normalExit' # NoExit
               /\ normalExit'.reason \in NormalReasons
               /\ normalExit'.triggerAt = receivedAt
               /\ mandatoryExit' = NoExit
            \/ /\ state' = "MandatoryExit"
               /\ normalExit' = NoExit
               /\ mandatoryExit' \in RequestType /\ mandatoryExit' # NoExit
               /\ mandatoryExit'.triggerAt
                    \in {mandatoryExit.triggerAt, receivedAt}
      \/ UNCHANGED <<state, normalExit, mandatoryExit, lastTransitionAt>>
  BY BeginExitFacts
<1>7. TypeOK'
  BY <1>1, <1>3, <1>4, <1>5, <1>6 DEF TypeOK, BrokerStates
<1>8. SlotsMatchState'
  BY <1>1, <1>6 DEF SlotsMatchState, Active
<1>9. MemoryIsPast'
  <2>1. normalExit'.triggerAt <= CausalBoundary'
        /\ mandatoryExit'.triggerAt <= CausalBoundary'
    BY <1>1, <1>3, <1>6, MemoryTypes, RequestFacts, BrokerAssumption
    DEF MemoryIsPast, Times
  <2> QED BY <1>1, <1>3, <1>5, <2>1, MemoryTypes DEF MemoryIsPast
<1> QED BY <1>7, <1>8, <1>9

(* A mark, with or without the strategy's request to leave. *)
LEMMA OnMarkIInv == ASSUME IInv, OnMark PROVE IInv'
<1>1. PICK eventTime \in Times, receivedAt \in Times, delay \in AsOfDelays,
           id \in EventIds, class \in MarkClasses :
        /\ receivedAt + delay \in Times
        /\ \/ ObserveMark(id, eventTime, receivedAt, receivedAt + delay, class)
           \/ \E reason \in ExitReasons :
                RequestExit(id, eventTime, receivedAt, receivedAt + delay,
                            class, reason)
  BY DEF OnMark
<1> DEFINE asOf == receivedAt + delay
<1>2. asOf \in Times /\ AdmitMark(id, eventTime, receivedAt, asOf)
  BY <1>1 DEF ObserveMark, RequestExit
<1> HIDE DEF asOf
<1>3. Active /\ MarkedReason(class) # "none" =>
        /\ MarkedReason(class) \in ExitReasons
        /\ MarkedReason(class) \notin MandatoryReasons => state = "Open"
  BY DEF MarkedReason, MarkClasses, ExitReasons, NormalReasons,
         MandatoryReasons
<1>4. \/ \E reason \in ExitReasons :
           /\ Active
           /\ reason \notin MandatoryReasons => state = "Open"
           /\ BeginExit(reason, receivedAt)
      \/ UNCHANGED <<state, normalExit, mandatoryExit, lastTransitionAt>>
  BY <1>1, <1>3 DEF ObserveMark, RequestExit, Active
<1> QED BY <1>2, <1>4, AdmittedMarkIInv

(* A clock tick. *)
LEMMA AdvanceTimeIInv ==
  ASSUME IInv, NEW at \in Times, AdvanceTime(at) PROVE IInv'
<1> USE DEF IInv
<1>1. /\ at >= CausalBoundary /\ ObserveAsOf(at) /\ walk' = NoWalk
      /\ UNCHANGED <<pending, quantity, lastFundingAt, lastBookReceivedAt,
                     lastObservation>>
      /\ lastTransitionAt' = lastTransitionAt \/ lastTransitionAt' = at
  BY DEF AdvanceTime
<1>2. /\ latestSeenAsOf' \in Times /\ lastTransitionAt' \in Times
      /\ CausalBoundary' >= CausalBoundary
      /\ CausalBoundary' \in Int
  BY <1>1, ObservationFacts, BrokerAssumption DEF Times
<1>3. walk' \in [role : {"none", "Entry", "NormalExit", "MandatoryExit",
                         "Liquidation"},
                 band : {0} \cup Bands, filled : 0 .. OrderQuantity,
                 at : Times \cup {-1}]
  BY <1>1, BrokerAssumption DEF NoWalk, Times
<1>4. \/ /\ state = "NormalExit" /\ state' = "MandatoryExit"
         /\ normalExit' = NoExit
         /\ mandatoryExit' \in RequestType /\ mandatoryExit' # NoExit
         /\ mandatoryExit'.triggerAt
              \in {mandatoryExit.triggerAt, normalExit.triggerAt}
      \/ UNCHANGED <<state, normalExit, mandatoryExit>>
  <2>1. CASE state = "NormalExit" /\ StartMandatory(normalExit)
    <3>1. normalExit \in RequestType /\ mandatoryExit \in Slot
      BY <2>1 DEF SlotsMatchState, TypeOK, Slot
    <3> QED BY <2>1, <3>1, StartMandatoryFacts
  <2>2. CASE UNCHANGED <<state, normalExit, mandatoryExit>>
    BY <2>2
  <2> QED BY <2>1, <2>2 DEF AdvanceTime
<1>5. TypeOK'
  BY <1>1, <1>2, <1>3, <1>4 DEF TypeOK, BrokerStates
<1>6. SlotsMatchState'
  BY <1>1, <1>4 DEF SlotsMatchState
<1>7. MemoryIsPast'
  <2>1. normalExit'.triggerAt <= CausalBoundary'
        /\ mandatoryExit'.triggerAt <= CausalBoundary'
    BY <1>2, <1>4, MemoryTypes, RequestFacts, BoundaryFacts, BrokerAssumption
    DEF MemoryIsPast, Times
  <2> QED BY <1>1, <1>2, <2>1, MemoryTypes DEF MemoryIsPast
<1> QED BY <1>5, <1>6, <1>7

(* A funding event. *)
LEMMA OnFundingIInv == ASSUME IInv, OnFunding PROVE IInv'
<1> USE DEF IInv
<1>1. PICK venueAt \in Times, receivedAt \in Times, delay \in AsOfDelays,
           id \in EventIds, liquidated \in BOOLEAN :
        /\ receivedAt + delay \in Times
        /\ ApplyFunding(id, venueAt, receivedAt, receivedAt + delay, liquidated)
  BY DEF OnFunding
<1> DEFINE asOf == receivedAt + delay
<1>2. /\ asOf \in Times /\ venueAt <= receivedAt /\ receivedAt <= asOf
      /\ asOf >= CausalBoundary /\ ObserveAsOf(asOf)
      /\ quantity > 0 /\ state # "Unresolved"
      /\ lastObservation' = Cursor(venueAt, FundingKind, id)
      /\ lastFundingAt' = venueAt /\ lastTransitionAt' = receivedAt
      /\ walk' = NoWalk
      /\ UNCHANGED <<pending, quantity, lastBookReceivedAt>>
      /\ \/ StartMandatory(ExitRequest("Liquidation", receivedAt))
         \/ UNCHANGED <<state, normalExit, mandatoryExit>>
  BY <1>1 DEF ApplyFunding, AdmissibleMark, FreshObservation
<1> HIDE DEF asOf
<1>3. /\ latestSeenAsOf' \in Times /\ lastTransitionAt' \in Times
      /\ CausalBoundary' >= CausalBoundary
      /\ CausalBoundary' >= asOf
      /\ CausalBoundary' \in Int
  BY <1>2, ObservationFacts
<1>4. walk' \in [role : {"none", "Entry", "NormalExit", "MandatoryExit",
                         "Liquidation"},
                 band : {0} \cup Bands, filled : 0 .. OrderQuantity,
                 at : Times \cup {-1}]
  BY <1>2, BrokerAssumption DEF NoWalk, Times
<1>5. /\ lastObservation' \in [at : Times, kind : {MarkKind, FundingKind},
                               id : EventIds] \cup {NoObservation}
      /\ lastObservation'.at <= CausalBoundary'
  BY <1>2, <1>3, BrokerAssumption DEF Cursor, Times
<1>6. \/ /\ state' = "MandatoryExit" /\ normalExit' = NoExit
         /\ mandatoryExit' \in RequestType /\ mandatoryExit' # NoExit
         /\ mandatoryExit'.triggerAt \in {mandatoryExit.triggerAt, receivedAt}
      \/ UNCHANGED <<state, normalExit, mandatoryExit>>
  <2>1. /\ ExitRequest("Liquidation", receivedAt) \in RequestType
        /\ ExitRequest("Liquidation", receivedAt).triggerAt = receivedAt
    BY RequestFacts DEF ExitReasons, MandatoryReasons
  <2>2. mandatoryExit \in Slot
    BY DEF TypeOK, Slot
  <2>3. CASE StartMandatory(ExitRequest("Liquidation", receivedAt))
    BY <2>1, <2>2, <2>3, StartMandatoryFacts
  <2>4. CASE UNCHANGED <<state, normalExit, mandatoryExit>>
    BY <2>4
  <2> QED BY <1>2, <2>3, <2>4
<1>7. TypeOK'
  BY <1>2, <1>3, <1>4, <1>5, <1>6 DEF TypeOK, BrokerStates
<1>8. SlotsMatchState'
  BY <1>2, <1>6 DEF SlotsMatchState
<1>9. MemoryIsPast'
  BY <1>2, <1>3, <1>5, <1>6, MemoryTypes, RequestFacts, BrokerAssumption
  DEF MemoryIsPast, Times
<1> QED BY <1>7, <1>8, <1>9

(* The end of the data. *)
LEMMA EndOfDataIInv ==
  ASSUME IInv, NEW at \in Times, EndOfData(at) PROVE IInv'
<1> USE DEF IInv
<1>1. /\ at >= CausalBoundary /\ ObserveAsOf(at) /\ walk' = NoWalk
      /\ UNCHANGED <<quantity, normalExit, mandatoryExit, lastFundingAt,
                     lastBookReceivedAt, lastObservation>>
      /\ lastTransitionAt' = lastTransitionAt \/ lastTransitionAt' = at
  BY DEF EndOfData
<1>2. /\ latestSeenAsOf' \in Times /\ lastTransitionAt' \in Times
      /\ CausalBoundary' >= CausalBoundary
      /\ CausalBoundary' \in Int
  BY <1>1, ObservationFacts, BrokerAssumption DEF Times
<1>3. walk' \in [role : {"none", "Entry", "NormalExit", "MandatoryExit",
                         "Liquidation"},
                 band : {0} \cup Bands, filled : 0 .. OrderQuantity,
                 at : Times \cup {-1}]
  BY <1>1, BrokerAssumption DEF NoWalk, Times
<1>4. TypeOK'
  BY <1>1, <1>2, <1>3 DEF TypeOK, EndOfData, BrokerStates
<1>5. SlotsMatchState'
  BY <1>1 DEF SlotsMatchState, EndOfData, Active, NoPending
<1>6. MemoryIsPast'
  <2>1. pending' = pending \/ pending'.decidedAt = -1
    BY DEF EndOfData, NoPending
  <2> QED BY <1>1, <1>2, <2>1, MemoryTypes, BoundaryFacts, BrokerAssumption
          DEF MemoryIsPast, Times
<1> QED BY <1>4, <1>5, <1>6

-----------------------------------------------------------------------------
(* Every step keeps the invariant. *)
LEMMA NextIInv == IInv /\ [Next]_vars => IInv'
<1> SUFFICES ASSUME IInv, [Next]_vars PROVE IInv'
  OBVIOUS
<1>1. CASE \E at \in Times, qty \in 1 .. OrderQuantity : QueueEntry(at, qty)
  BY <1>1, QueueEntryIInv
<1>2. CASE OnExecutableBook
  BY <1>2, OnExecutableBookIInv
<1>3. CASE OnMark
  BY <1>3, OnMarkIInv
<1>4. CASE OnFunding
  BY <1>4, OnFundingIInv
<1>5. CASE \E at \in Times : AdvanceTime(at) \/ EndOfData(at)
  BY <1>5, AdvanceTimeIInv, EndOfDataIInv
<1>6. CASE UNCHANGED vars
  BY <1>6 DEF vars, IInv, TypeOK, SlotsMatchState, MemoryIsPast, CausalBoundary
<1> QED BY <1>1, <1>2, <1>3, <1>4, <1>5, <1>6 DEF Next

(* Every reachable state of PaperBroker satisfies the inductive invariant. *)
THEOREM BrokerInvariant == Spec => []IInv
BY InitIInv, NextIInv, PTL DEF Spec

(* PaperBroker's fields keep their types. *)
THEOREM TypeCorrect == Spec => []TypeOK
<1>1. IInv => TypeOK
  BY DEF IInv
<1> QED BY <1>1, BrokerInvariant, PTL

(* No state of PaperBroker lacks the slot it needs, and no slot outlives its
   state. *)
THEOREM SlotsCorrect == Spec => []SlotsMatchState
<1>1. IInv => SlotsMatchState
  BY DEF IInv
<1> QED BY <1>1, BrokerInvariant, PTL

(* Nothing PaperBroker remembers lies after its causal boundary. *)
THEOREM MemoryCorrect == Spec => []MemoryIsPast
<1>1. IInv => MemoryIsPast
  BY DEF IInv
<1> QED BY <1>1, BrokerInvariant, PTL

(* Every step but a stutter observes an as-of time at or after the boundary. *)
LEMMA StepObserves ==
  ASSUME Next
  PROVE  \E asOf \in Times : asOf >= CausalBoundary /\ ObserveAsOf(asOf)
<1>1. CASE \E at \in Times, qty \in 1 .. OrderQuantity : QueueEntry(at, qty)
  BY <1>1 DEF QueueEntry
<1>2. CASE OnExecutableBook
  BY <1>2 DEF OnExecutableBook, IdleBook, ExecuteEntry, NormalWalk, ExpiredWalk,
              MandatoryWalk, ExecuteExit, FreshExecutionBook, ConsumeBook
<1>3. CASE OnMark
  BY <1>3 DEF OnMark, ObserveMark, RequestExit, AdmitMark, FreshObservation
<1>4. CASE OnFunding
  BY <1>4 DEF OnFunding, ApplyFunding, FreshObservation
<1>5. CASE \E at \in Times : AdvanceTime(at) \/ EndOfData(at)
  BY <1>5 DEF AdvanceTime, EndOfData
<1> QED BY <1>1, <1>2, <1>3, <1>4, <1>5 DEF Next

(* PaperBroker::causal_boundary never moves back. *)
THEOREM BoundaryMonotone == Spec => BoundaryNeverRegresses
<1>1. ASSUME IInv, [Next]_vars
      PROVE  [CausalBoundary' >= CausalBoundary]_vars
  <2>1. CASE UNCHANGED vars
    BY <2>1
  <2>2. CASE Next
    <3>1. PICK asOf \in Times : asOf >= CausalBoundary /\ ObserveAsOf(asOf)
      BY <2>2, StepObserves
    <3>2. TypeOK /\ TypeOK'
      BY <1>1, NextIInv DEF IInv
    <3> QED BY <3>1, <3>2, BrokerAssumption
            DEF TypeOK, ObserveAsOf, CausalBoundary, Times
  <2> QED BY <1>1, <2>1, <2>2
<1> QED BY <1>1, BrokerInvariant, PTL DEF Spec, BoundaryNeverRegresses

NotDowngraded ==
  /\ state' \in {"MandatoryExit", "Flat", "Liquidated", "Unresolved"}
  /\ state' = "MandatoryExit" =>
       Severity(mandatoryExit'.reason) >= Severity(mandatoryExit.reason)

(* Neither a stronger nor a weaker cause downgrades a mandatory exit. *)
LEMMA StartMandatoryKeeps ==
  ASSUME TypeOK, SlotsMatchState, state = "MandatoryExit",
         NEW request \in RequestType, StartMandatory(request)
  PROVE  NotDowngraded
<1>1. mandatoryExit \in Slot /\ mandatoryExit # NoExit
  BY DEF TypeOK, SlotsMatchState, Slot
<1>2. Severity(Escalated(mandatoryExit, request).reason)
        >= Severity(mandatoryExit.reason)
  BY <1>1, EscalatedFacts
<1> QED BY <1>2 DEF NotDowngraded, StartMandatory

(* The walks of a mandatory exit. *)
LEMMA MandatoryWalkKeeps ==
  ASSUME TypeOK, SlotsMatchState, state = "MandatoryExit", OnExecutableBook
  PROVE  NotDowngraded
<1>1. PICK receivedAt \in Times, asOf \in Times, spread \in SpreadBands,
           filled \in 0 .. OrderQuantity, capped \in BOOLEAN,
           margin \in MarginClasses :
        MandatoryWalk(receivedAt, asOf, spread, filled, capped, margin)
  BY DEF OnExecutableBook, IdleBook, ExecuteEntry, NormalWalk, ExpiredWalk
<1> DEFINE band == IF mandatoryExit.nextBand # 0
                     THEN mandatoryExit.nextBand
                     ELSE MandatoryInitialBand(spread)
           role == IF mandatoryExit.reason = "Liquidation"
                     THEN "Liquidation" ELSE "MandatoryExit"
<1>2. ExecuteExit(mandatoryExit, band, role, NoExit, mandatoryExit,
                  receivedAt, asOf, filled, capped, margin)
  BY <1>1 DEF MandatoryWalk
<1>3. role # "NormalExit"
  OBVIOUS
<1>4. mandatoryExit \in RequestType /\ mandatoryExit \in Slot
      /\ mandatoryExit # NoExit
  BY DEF TypeOK, SlotsMatchState, Slot
<1>5. band \in Bands
  BY <1>4, BandFacts, RequestFacts, BrokerAssumption
<1> HIDE DEF band, role
<1>6. CASE state' \in {"Flat", "Liquidated"}
  BY <1>6 DEF NotDowngraded
<1>7. CASE state' \notin {"Flat", "Liquidated"}
  <2>1. CASE margin # "healthy"
    <3>1. /\ ExitRequest("Liquidation", receivedAt) \in RequestType
          /\ ExitRequest("Liquidation", receivedAt) # NoExit
      BY RequestFacts DEF ExitReasons, MandatoryReasons
    <3> DEFINE forced ==
          Escalated(mandatoryExit, ExitRequest("Liquidation", receivedAt))
    <3>2. forced \in RequestType /\ forced # NoExit
          /\ Severity(forced.reason) >= Severity(mandatoryExit.reason)
      BY <1>4, <3>1, EscalatedFacts, RequestFacts
    <3>3. mandatoryExit' = forced
          /\ state' = IF forced = NoExit THEN "NormalExit" ELSE "MandatoryExit"
      BY <1>2, <1>7, <2>1 DEF ExecuteExit
    <3> HIDE DEF forced
    <3> QED BY <3>2, <3>3 DEF NotDowngraded
  <2>2. CASE margin = "healthy"
    <3> DEFINE widened == [mandatoryExit EXCEPT !.nextBand = WidenedBand(band)]
    <3>1. WidenedBand(band) \in {0} \cup Bands
      BY <1>5, BandFacts
    <3>2. widened # NoExit /\ widened.reason = mandatoryExit.reason
      BY <1>4, <3>1, RequestFacts
    <3>3. mandatoryExit' = widened
          /\ state' = IF widened = NoExit THEN "NormalExit" ELSE "MandatoryExit"
      BY <1>2, <1>3, <1>7, <2>2 DEF ExecuteExit
    <3> HIDE DEF widened
    <3>4. Severity(mandatoryExit.reason) \in Nat
      BY DEF Severity
    <3> QED BY <3>2, <3>3, <3>4 DEF NotDowngraded
  <2> QED BY <2>1, <2>2
<1> QED BY <1>6, <1>7

(* A mandatory exit of PaperBroker ends by a walk or the end of data, and no
   weaker cause replaces the one in force. *)
THEOREM MandatoryIrrevocable == Spec => MandatoryNeverDowngraded
<1>1. ASSUME IInv, [Next]_vars
      PROVE  [state = "MandatoryExit" => NotDowngraded]_vars
  <2> SUFFICES ASSUME Next, state = "MandatoryExit" PROVE NotDowngraded
    BY <1>1
  <2>0. TypeOK /\ SlotsMatchState /\ Severity(mandatoryExit.reason) \in Nat
    BY <1>1 DEF IInv, Severity
  <2>1. CASE \E at \in Times, qty \in 1 .. OrderQuantity : QueueEntry(at, qty)
    BY <2>1 DEF QueueEntry
  <2>2. CASE OnExecutableBook
    BY <2>0, <2>2, MandatoryWalkKeeps
  <2>3. CASE OnMark
    <3>1. CASE UNCHANGED <<state, mandatoryExit>>
      BY <2>0, <3>1 DEF NotDowngraded
    <3>2. CASE \E reason \in ExitReasons, at \in Times :
                 /\ reason \in MandatoryReasons
                 /\ StartMandatory(ExitRequest(reason, at))
      BY <2>0, <3>2, StartMandatoryKeeps, RequestFacts
    <3>3. \A class \in MarkClasses :
            MarkedReason(class) # "none" =>
              MarkedReason(class) \in MandatoryReasons
      BY DEF MarkedReason, MarkClasses, MandatoryReasons
    <3>4. MandatoryReasons \subseteq ExitReasons
      BY DEF ExitReasons
    <3> QED BY <2>3, <3>1, <3>2, <3>3, <3>4
            DEF OnMark, ObserveMark, RequestExit, BeginExit, Active
  <2>4. CASE OnFunding
    <3>1. CASE UNCHANGED <<state, mandatoryExit>>
      BY <2>0, <3>1 DEF NotDowngraded
    <3>2. CASE \E at \in Times : StartMandatory(ExitRequest("Liquidation", at))
      BY <2>0, <3>2, StartMandatoryKeeps, RequestFacts
      DEF ExitReasons, MandatoryReasons
    <3> QED BY <2>4, <3>1, <3>2 DEF OnFunding, ApplyFunding
  <2>5. CASE \E at \in Times : AdvanceTime(at) \/ EndOfData(at)
    BY <2>0, <2>5 DEF AdvanceTime, EndOfData, NotDowngraded, Active
  <2> QED BY <2>1, <2>2, <2>3, <2>4, <2>5 DEF Next
<1> QED BY <1>1, BrokerInvariant, PTL
        DEF Spec, MandatoryNeverDowngraded, NotDowngraded

-----------------------------------------------------------------------------

(* A walk of an exit sells at most what is held, and only a sale or the
   backstop empties the position. *)
LEMMA ExecuteExitReduces ==
  ASSUME TypeOK, NEW request, NEW band, NEW role, NEW normal, NEW mandatory,
         NEW receivedAt, NEW asOf, NEW filled, NEW capped, NEW margin,
         ExecuteExit(request, band, role, normal, mandatory,
                     receivedAt, asOf, filled, capped, margin)
  PROVE  \/ quantity' = 0 /\ state' \in {"Flat", "Liquidated"}
         \/ /\ quantity' \in 1 .. quantity
            /\ state' \in {"NormalExit", "MandatoryExit"}
<1>1. filled \in 0 .. quantity /\ quantity \in Nat
  BY BrokerAssumption DEF ExecuteExit, TypeOK
<1>2. CASE quantity - filled = 0
  BY <1>2 DEF ExecuteExit
<1>3. CASE quantity - filled # 0 /\ role = "Liquidation" /\ margin = "backstop"
  BY <1>1, <1>3 DEF ExecuteExit
<1>4. CASE /\ quantity - filled # 0
           /\ ~(role = "Liquidation" /\ margin = "backstop")
  BY <1>1, <1>4 DEF ExecuteExit
<1> QED BY <1>2, <1>3, <1>4

(* A book is a cancellation, an entry, a reduction or a close. *)
LEMMA BookRefines ==
  ASSUME IInv, OnExecutableBook, SlotsMatchState'
  PROVE  Abstract!Step \/ UNCHANGED Abstract!lifecycleVars
<1>1. CASE \E receivedAt, asOf \in Times : IdleBook(receivedAt, asOf)
  BY <1>1 DEF IdleBook, Abstract!lifecycleVars, Phase
<1>2. CASE \E receivedAt, asOf, filled, liquidated :
             ExecuteEntry(receivedAt, asOf, filled, liquidated)
  <2>1. PICK receivedAt, asOf, filled, liquidated :
          ExecuteEntry(receivedAt, asOf, filled, liquidated)
    BY <1>2
  <2>2. /\ state = "PendingEntry" /\ quantity = 0
        /\ quantity' = filled /\ filled \in 0 .. OrderQuantity
        /\ \/ filled = 0 /\ state' = "Flat"
           \/ filled > 0 /\ state' \in {"MandatoryExit", "Open"}
    BY <2>1, BrokerAssumption
    DEF ExecuteEntry, StartMandatory, IInv, TypeOK, SlotsMatchState, NoPending
  <2>3. CASE filled = 0
    BY <2>2, <2>3 DEF Abstract!Step, Abstract!Cancel, Phase
  <2>4. CASE filled # 0
    BY <2>2, <2>4, BrokerAssumption DEF Abstract!Step, Abstract!Enter, Phase
  <2> QED BY <2>3, <2>4
<1>3. CASE /\ state \in {"NormalExit", "MandatoryExit"}
           /\ \E request, band, role, normal, mandatory,
                 receivedAt, asOf, filled, capped, margin :
                ExecuteExit(request, band, role, normal, mandatory,
                            receivedAt, asOf, filled, capped, margin)
  <2>1. \/ quantity' = 0 /\ state' \in {"Flat", "Liquidated"}
        \/ /\ quantity' \in 1 .. quantity
           /\ state' \in {"NormalExit", "MandatoryExit"}
    BY <1>3, ExecuteExitReduces DEF IInv
  <2>2. state = "MandatoryExit" => state' # "NormalExit"
    BY MandatoryWalkKeeps DEF IInv, NotDowngraded
  <2>3. CASE quantity' = 0 /\ state' \in {"Flat", "Liquidated"}
    BY <1>3, <2>3 DEF Abstract!Step, Abstract!Close, Phase
  <2>4. CASE /\ quantity' \in 1 .. quantity
             /\ state' \in {"NormalExit", "MandatoryExit"}
    BY <1>3, <2>2, <2>4 DEF Abstract!Step, Abstract!Reduce, Phase
  <2> QED BY <2>1, <2>3, <2>4
<1>4. \/ \E receivedAt, asOf \in Times : IdleBook(receivedAt, asOf)
      \/ \E receivedAt, asOf, filled, liquidated :
           ExecuteEntry(receivedAt, asOf, filled, liquidated)
      \/ /\ state \in {"NormalExit", "MandatoryExit"}
         /\ \E request, band, role, normal, mandatory,
               receivedAt, asOf, filled, capped, margin :
              ExecuteExit(request, band, role, normal, mandatory,
                          receivedAt, asOf, filled, capped, margin)
  BY DEF OnExecutableBook, NormalWalk, ExpiredWalk, MandatoryWalk
<1> QED BY <1>1, <1>2, <1>3, <1>4

(* Outside a walk the exposure is untouched and the phase moves forward. *)
LEMMA OtherStepsRefine ==
  ASSUME IInv, Next, ~OnExecutableBook
  PROVE  Abstract!Step \/ UNCHANGED Abstract!lifecycleVars
<1>1. CASE \E at \in Times, qty \in 1 .. OrderQuantity : QueueEntry(at, qty)
  BY <1>1 DEF QueueEntry, Abstract!Step, Abstract!Order, Phase
<1> DEFINE Forward ==
      /\ quantity' = quantity
      /\ \/ state' = state
         \/ state = "Open" /\ state' = "NormalExit"
         \/ Active /\ state' = "MandatoryExit"
<1>2. ASSUME Forward
      PROVE  Abstract!Step \/ UNCHANGED Abstract!lifecycleVars
  BY <1>2 DEF Abstract!Step, Abstract!Leave, Abstract!Force,
              Abstract!lifecycleVars, Phase, Active
<1>3. CASE OnMark
  <2>1. \A class \in MarkClasses :
          MarkedReason(class) \in NormalReasons => state = "Open"
    BY DEF MarkedReason, MarkClasses, NormalReasons
  <2>2. \A class \in MarkClasses :
          MarkedReason(class) \in {"none"} \cup ExitReasons
    BY DEF MarkedReason, MarkClasses, ExitReasons, NormalReasons,
           MandatoryReasons
  <2>3. Forward
    BY <1>3, <2>1, <2>2
    DEF OnMark, ObserveMark, RequestExit, AdmitMark, BeginExit, StartMandatory,
        Active, ExitReasons
  <2> QED BY <1>2, <2>3
<1>4. CASE OnFunding
  <2>1. quantity > 0 => Active \/ state = "Unresolved"
    BY DEF IInv, SlotsMatchState, Active
  <2>2. Forward
    BY <1>4, <2>1 DEF OnFunding, ApplyFunding, StartMandatory
  <2> QED BY <1>2, <2>2
<1>5. CASE \E at \in Times : AdvanceTime(at)
  <2>1. Forward
    BY <1>5 DEF AdvanceTime, StartMandatory, Active
  <2> QED BY <1>2, <2>1
<1>6. CASE \E at \in Times : EndOfData(at)
  BY <1>6 DEF EndOfData, Active, Phase, Abstract!Step, Abstract!Cancel,
              Abstract!Strand, Abstract!lifecycleVars
<1> QED BY <1>1, <1>3, <1>4, <1>5, <1>6 DEF Next

(* PaperBroker implements the abstract lifecycle of one position: one entry,
   an exit that only shrinks, no position declared closed unsold. *)
THEOREM BrokerRefines == Spec => ImplementsLifecycle
<1>1. Init => Abstract!Start
  BY DEF Init, Abstract!Start, Phase
<1>2. IInv /\ [Next]_vars => [Abstract!Step]_(Abstract!lifecycleVars)
  <2> SUFFICES ASSUME IInv, [Next]_vars
               PROVE  Abstract!Step \/ UNCHANGED Abstract!lifecycleVars
    OBVIOUS
  <2>1. CASE UNCHANGED vars
    BY <2>1 DEF vars, Abstract!lifecycleVars, Phase
  <2>2. CASE OnExecutableBook
    BY <2>2, NextIInv, BookRefines DEF IInv
  <2>3. CASE Next /\ ~OnExecutableBook
    BY <2>3, OtherStepsRefine
  <2> QED BY <2>1, <2>2, <2>3
<1> QED BY <1>1, <1>2, BrokerInvariant, PTL
        DEF Spec, ImplementsLifecycle, Abstract!Lifecycle

-----------------------------------------------------------------------------
(* Only a book that walks changes the exposure. *)
LEMMA FillsAreWalks ==
  ASSUME IInv, Next, quantity' # quantity
  PROVE  \E receivedAt \in Times :
           /\ lastBookReceivedAt' = receivedAt
           /\ receivedAt > lastBookReceivedAt
           /\ \/ state = "PendingEntry" /\ receivedAt > pending.decidedAt
              \/ state = "NormalExit" /\ receivedAt > normalExit.triggerAt
              \/ state = "MandatoryExit" /\ receivedAt > mandatoryExit.triggerAt
<1>1. CASE OnExecutableBook
  BY <1>1 DEF OnExecutableBook, IdleBook, ExecuteEntry, NormalWalk, ExpiredWalk,
              MandatoryWalk, ExecuteExit, FreshExecutionBook, ConsumeBook
<1>2. CASE ~OnExecutableBook
  BY <1>2 DEF Next, QueueEntry, OnMark, ObserveMark, RequestExit, AdmitMark,
              OnFunding, ApplyFunding, AdvanceTime, EndOfData
<1> QED BY <1>1, <1>2

(* No fill of PaperBroker uses a book twice, or one that was received before
   the decision or the trigger it executes. *)
THEOREM FillsAreLater == Spec => EveryFillOnItsOwnLaterBook
<1> DEFINE Later ==
      /\ lastBookReceivedAt' > lastBookReceivedAt
      /\ lastBookReceivedAt' > pending.decidedAt
      /\ lastBookReceivedAt' > normalExit.triggerAt
      /\ lastBookReceivedAt' > mandatoryExit.triggerAt
<1>1. ASSUME IInv, [Next]_vars PROVE [quantity' # quantity => Later]_vars
  <2> SUFFICES ASSUME Next, quantity' # quantity PROVE Later
    BY <1>1
  <2>1. PICK receivedAt \in Times :
          /\ lastBookReceivedAt' = receivedAt
          /\ receivedAt > lastBookReceivedAt
          /\ \/ state = "PendingEntry" /\ receivedAt > pending.decidedAt
             \/ state = "NormalExit" /\ receivedAt > normalExit.triggerAt
             \/ state = "MandatoryExit"
                /\ receivedAt > mandatoryExit.triggerAt
    BY <1>1, FillsAreWalks
  <2>2. receivedAt > -1
    BY BrokerAssumption DEF Times
  <2>3. /\ state # "PendingEntry" => pending.decidedAt = -1
        /\ state \notin {"NormalExit", "Unresolved"} => normalExit.triggerAt = -1
        /\ state \notin {"MandatoryExit", "Unresolved"}
             => mandatoryExit.triggerAt = -1
        /\ state = "NormalExit" => mandatoryExit.triggerAt = -1
    BY <1>1 DEF IInv, SlotsMatchState, NoPending, NoExit
  <2> QED BY <2>1, <2>2, <2>3
<1> QED BY <1>1, BrokerInvariant, PTL DEF Spec, EveryFillOnItsOwnLaterBook

(* A normal exit of PaperBroker keeps its first trigger, and with it its grace,
   as long as it stays normal. *)
THEOREM GraceCountsOnce == Spec => GraceNeverRestarted
<1>1. ASSUME IInv, [Next]_vars
      PROVE  [state = "NormalExit" /\ state' = "NormalExit" =>
                normalExit' = normalExit]_vars
  <2> SUFFICES ASSUME Next, state = "NormalExit", state' = "NormalExit"
               PROVE  normalExit' = normalExit
    BY <1>1
  <2>1. CASE \E at \in Times, qty \in 1 .. OrderQuantity : QueueEntry(at, qty)
    BY <2>1 DEF QueueEntry
  <2>2. CASE OnExecutableBook
    <3>1. ASSUME NEW receivedAt, NEW asOf, NEW spread \in SpreadBands, NEW filled,
                 NEW capped, NEW margin \in MarginClasses,
                 receivedAt \in Times, asOf \in Times,
                 ExpiredWalk(receivedAt, asOf, spread, filled, capped, margin)
          PROVE  FALSE
      <4> DEFINE band == MandatoryInitialBand(spread)
                 forced == Escalated(mandatoryExit, normalExit)
                 liquidation == Escalated(forced,
                                  ExitRequest("Liquidation", receivedAt))
      <4>1. ExecuteExit(normalExit, band, "MandatoryExit", NoExit, forced,
                        receivedAt, asOf, filled, capped, margin)
        BY <3>1 DEF ExpiredWalk
      <4>2. normalExit \in RequestType /\ mandatoryExit \in Slot
            /\ band \in Bands
        BY <1>1, BandFacts, BrokerAssumption
        DEF IInv, TypeOK, SlotsMatchState, Slot
      <4>3. forced \in Slot
        BY <4>2, EscalatedFacts DEF Slot
      <4>4. WidenedBand(band) \in {0} \cup Bands
        BY <4>2, BandFacts
      <4>5. [normalExit EXCEPT !.nextBand = WidenedBand(band)] # NoExit
        BY <4>2, <4>4, RequestFacts
      <4>6. ExitRequest("Liquidation", receivedAt) \in RequestType
        BY <3>1, RequestFacts DEF ExitReasons, MandatoryReasons
      <4> HIDE DEF forced
      <4>7. liquidation # NoExit
        BY <4>3, <4>6, EscalatedFacts, RequestFacts
      <4> HIDE DEF band
      <4> QED BY <4>1, <4>5, <4>7 DEF ExecuteExit
    <3>2. CASE \E receivedAt, asOf, filled, capped, margin :
                 NormalWalk(receivedAt, asOf, filled, capped, margin)
      BY <3>2 DEF NormalWalk, ExecuteExit
    <3> QED BY <2>2, <3>1, <3>2
            DEF OnExecutableBook, IdleBook, ExecuteEntry, MandatoryWalk
  <2>3. CASE OnMark
    <3>1. \A class \in MarkClasses :
            MarkedReason(class) # "none" =>
              MarkedReason(class) \in MandatoryReasons
      BY DEF MarkedReason, MarkClasses, MandatoryReasons
    <3> QED BY <2>3, <3>1 DEF OnMark, ObserveMark, RequestExit, BeginExit,
                              StartMandatory
  <2>4. CASE OnFunding
    BY <2>4 DEF OnFunding, ApplyFunding, StartMandatory
  <2>5. CASE \E at \in Times : AdvanceTime(at) \/ EndOfData(at)
    BY <2>5 DEF AdvanceTime, EndOfData, StartMandatory
  <2> QED BY <2>1, <2>2, <2>3, <2>4, <2>5 DEF Next
<1> QED BY <1>1, BrokerInvariant, PTL DEF Spec, GraceNeverRestarted
=============================================================================
