------------------------- MODULE CaptureProperties -------------------------
(***************************************************************************)
(* What the capture schedule guarantees.                                   *)
(***************************************************************************)
EXTENDS Capture

Jobs == [phase : Phases, batch : SUBSET VenueMarkets,
         seen : SUBSET (VenueMarkets \X (0 .. MaxVolume)), done : SUBSET VenueMarkets]

(* The types of the scheduler's, the worker's and readiness's state. *)
CaptureTypeOK ==
  /\ listed \subseteq VenueMarkets /\ whole \subseteq VenueMarkets
  /\ volume \in [VenueMarkets -> 0 .. MaxVolume]
  /\ markets \subseteq VenueMarkets
  /\ next \in Nat /\ (next = 0 \/ next < Cardinality(markets))
  /\ inFlight \in {NoBatch} \cup Nat
  /\ requests \in Seq(SUBSET VenueMarkets)
  /\ worker \in Jobs
  /\ results \in Seq(Jobs)
  /\ scope \subseteq VenueMarkets /\ registered \subseteq VenueMarkets
  /\ freshBooks \subseteq VenueMarkets /\ stored \subseteq VenueMarkets
  /\ open \in BOOLEAN /\ metadataCurrent \in BOOLEAN /\ captureCurrent \in BOOLEAN
  /\ faults \in 0 .. MaxFaults

Working == worker.phase \notin {"idle", "stopped"}
Carried == Len(requests) + (IF Working THEN 1 ELSE 0) + Len(results)

(* One capture is in flight at most, and it is the batch the scheduler will
   turn away from when its answer comes: ticks, a worker that ends and a scope
   that changes never leave two batches, a batch nobody waits for, or the
   wait for a batch that nobody has, except for an ended worker's, which the
   closed channel resolves. *)
SingleFlight ==
  LET due == Batch(markets, next) IN
  /\ Carried <= 1
  /\ Carried = 1 => inFlight = Cardinality(due)
  /\ inFlight # NoBatch => Carried = 1 \/ (worker.phase = "stopped" /\ open)
  /\ \A i \in DOMAIN requests : requests[i] = due
  /\ Working => worker.batch = due
  /\ \A i \in DOMAIN results :
       /\ results[i].batch = due
       /\ results[i].phase \in {"rejected", "captured"}
       /\ results[i].phase = "captured" => results[i].done = due

(* Batches are taken from the very scope that is streamed and gated, and
   entries are only let through by a capture that selected it. *)
ScopeIsScheduled ==
  /\ markets = scope /\ freshBooks = scope /\ scope \subseteq registered
  /\ captureCurrent => metadataCurrent /\ open

(* The scheduler turns to another batch of the same scope only when the whole
   of this one is in the store: a batch that was rejected, or lost with its
   worker, is asked for again first. *)
RotatesOnlyOnStored ==
  [][(markets' = markets /\ next' # next) => Batch(markets, next) \subseteq stored']_captureVars

Healthy == open /\ markets \subseteq listed \cap whole

(* src/crates/trenchd/src/capture_scheduler.rs:16 keeps "each batch bounded
   while rotating the complete dynamic universe across successive captures":
   a market that stays in a healthy scope has its history stored. *)
EveryMarketIsStored ==
  \A m \in VenueMarkets : <>[](Healthy /\ m \in markets) => <>(m \in stored)
=============================================================================
