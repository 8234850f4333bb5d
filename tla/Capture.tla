------------------------------ MODULE Capture ------------------------------
(***************************************************************************)
(* Context capture: an hourly timer asks for the history of one batch of   *)
(* the markets in scope, a worker outside the authority reads it from the  *)
(* venue all or nothing, and the authority stores the answer, turns to the *)
(* next batch and selects the scope anew.                                  *)
(*                                                                         *)
(* Markets are numbers in canonical symbol order.  Of a market's history   *)
(* only whether the venue returns every candle of the requested windows    *)
(* matters, of its metadata and context whether it is listed and its daily *)
(* volume (0 stands for one below the minimum, or for too low a leverage). *)
(* The metadata of a batch is stamped with the time of its receipt, so a   *)
(* batch always has a fact that is not stored yet: the early return of     *)
(* admit_capture_output for a batch without one is not taken.  Epochs of   *)
(* the stream, which the scope starts, are those of LiveFeed.              *)
(*                                                                         *)
(* Translated from crates/trenchd/src/capture_scheduler.rs, capture_worker *)
(* and admit_capture_output of crates/trenchd/src/app.rs and               *)
(* crates/trench-hyperliquid/src/capture.rs.                               *)
(***************************************************************************)
EXTENDS Integers, FiniteSets, Sequences

CONSTANTS VenueMarkets,
          MaxVolume,
          MaxBatch,        \* MAX_HISTORICAL_DETAILED_MARKETS
          ScopeLimit,      \* tradeable_market_count + warm_buffer_market_count
          RequestCapacity, \* CAPTURE_CHANNEL_CAPACITY
          ResultCapacity,  \* CAPTURE_RESULT_CHANNEL_CAPACITY
          MaxFaults        \* bounds what may happen to the venue and the daemon

ASSUME CaptureAssumption == /\ VenueMarkets \subseteq Nat /\ IsFiniteSet(VenueMarkets)
                            /\ MaxVolume \in Nat
                            /\ MaxBatch \in Nat \ {0}
                            /\ ScopeLimit \in Nat
                            /\ RequestCapacity \in Nat \ {0}
                            /\ ResultCapacity \in Nat \ {0}
                            /\ MaxFaults \in Nat

VARIABLES listed, whole, volume,     \* the venue: what is traded, with which history
          markets, next, inFlight,   \* CaptureScheduler
          requests, worker, results, \* the worker and its two channels
          open,                      \* capture_results_open
          scope, registered, freshBooks, metadataCurrent, captureCurrent,
          stored,                    \* the markets whose history is in the store
          faults

venue == <<listed, whole, volume>>
scheduler == <<markets, next, inFlight>>
readiness == <<registered, freshBooks, metadataCurrent, captureCurrent>>
captureVars == <<venue, scheduler, requests, worker, results, open, scope,
                 readiness, stored, faults>>

NoBatch == -1
Job(phase, batch) == [phase |-> phase, batch |-> batch, seen |-> {}, done |-> {}]
Idle == Job("idle", {})
Stopped == Job("stopped", {})
Phases == {"idle", "metadata", "details", "rejected", "captured", "stopped"}

CaptureInit == /\ listed = VenueMarkets /\ whole = VenueMarkets
               /\ volume \in [VenueMarkets -> 1 .. MaxVolume]
               /\ markets = {} /\ next = 0 /\ inFlight = NoBatch
               /\ requests = <<>> /\ worker = Idle /\ results = <<>> /\ open = TRUE
               /\ scope = {} /\ registered = {} /\ freshBooks = {}
               /\ metadataCurrent = FALSE /\ captureCurrent = FALSE
               /\ stored = {} /\ faults = 0

----------------------------------------------------------------------------
(* The scheduler. *)

Least(a, b) == IF a < b THEN a ELSE b
Place(m, set) == Cardinality({o \in set : o < m})

\* The next MaxBatch markets of the sorted scope, from `from` on and around.
Batch(set, from) ==
  LET size == Cardinality(set)
  IN {m \in set : (Place(m, set) - from) % size < Least(size, MaxBatch)}

\* The same batch is asked for again and again.
NextAfterVariant(persisted) == next

NextAfter(persisted) ==
  IF persisted /\ inFlight # NoBatch /\ markets # {}
  THEN (next + inFlight) % Cardinality(markets) ELSE next

Complete(persisted) ==
  /\ inFlight' = NoBatch
  /\ next' = NextAfter(persisted)
  /\ UNCHANGED markets

\* A tick starts a capture whatever is in flight.
DispatchableVariant == TRUE

Dispatchable == inFlight = NoBatch

\* A tick: the next batch is asked for, unless one is in flight.  A full or a
\* closed channel resolves it at once.
Tick ==
  /\ open
  /\ Dispatchable
  /\ IF worker.phase # "stopped" /\ Len(requests) < RequestCapacity
     THEN /\ requests' = Append(requests, Batch(markets, next))
          /\ inFlight' = Cardinality(Batch(markets, next))
          /\ UNCHANGED <<markets, next, open, captureCurrent>>
     ELSE /\ open' = (worker.phase # "stopped")
          /\ captureCurrent' = FALSE
          /\ UNCHANGED <<scheduler, requests>>
  /\ UNCHANGED <<venue, worker, results, scope, registered, freshBooks,
                 metadataCurrent, stored, faults>>

----------------------------------------------------------------------------
(* The worker: capture_worker and ContextCapture::capture. *)

authority == <<scheduler, open, scope, readiness, stored, faults>>

WorkerTakes ==
  /\ worker.phase = "idle" /\ requests # <<>>
  /\ worker' = Job("metadata", Head(requests))
  /\ requests' = Tail(requests)
  /\ UNCHANGED <<venue, authority, results>>

\* A market of the batch that is not listed any more rejects the whole of it.
ReadMetadata ==
  /\ worker.phase = "metadata"
  /\ worker' = IF worker.batch \subseteq listed /\ listed # {}
               THEN [worker EXCEPT !.phase = "details",
                                   !.seen = {<<m, volume[m]>> : m \in listed}]
               ELSE [worker EXCEPT !.phase = "rejected"]
  /\ UNCHANGED <<venue, authority, requests, results>>

\* The details of the markets are read concurrently, in any order; a series
\* with a candle missing rejects the whole batch.
ReadDetail(m) ==
  /\ worker.phase = "details" /\ m \in worker.batch \ worker.done
  /\ worker' = IF m \in whole
               THEN [worker EXCEPT !.done = @ \cup {m}]
               ELSE [worker EXCEPT !.phase = "rejected"]
  /\ UNCHANGED <<venue, authority, requests, results>>

DetailsRead ==
  /\ worker.phase = "details" /\ worker.done = worker.batch
  /\ worker' = [worker EXCEPT !.phase = "captured"]
  /\ UNCHANGED <<venue, authority, requests, results>>

WorkerAnswers ==
  /\ worker.phase \in {"rejected", "captured"} /\ Len(results) < ResultCapacity
  /\ results' = Append(results, worker)
  /\ worker' = Idle
  /\ UNCHANGED <<venue, authority, requests>>

----------------------------------------------------------------------------
(* The authority: admit_capture_output. *)

\* The markets of most volume, the canonical order deciding between equals.
Selected(seen) ==
  LET eligible == {s \in seen : s[2] > 0}
      Precedes(s, t) == s[2] > t[2] \/ (s[2] = t[2] /\ s[1] < t[1])
      chosen == {s \in eligible :
                   Cardinality({t \in eligible : Precedes(t, s)}) < ScopeLimit}
  IN {s[1] : s \in chosen}

\* Turns to the next batch, then replaces the scope the batches are taken from.
Rescheduled(selection) ==
  /\ inFlight' = NoBatch
  /\ markets' = selection
  /\ next' = IF selection # markets THEN 0 ELSE NextAfter(TRUE)

AdmitCaptured ==
  /\ open /\ results # <<>> /\ Head(results).phase = "captured"
  /\ LET selection == Selected(Head(results).seen) IN
       /\ Rescheduled(selection)
       /\ scope' = selection /\ freshBooks' = selection
       /\ registered' = registered \cup selection
  /\ stored' = stored \cup Head(results).done
  /\ metadataCurrent' = TRUE /\ captureCurrent' = TRUE
  /\ results' = Tail(results)
  /\ UNCHANGED <<venue, requests, worker, open, faults>>

AdmitRejected ==
  /\ open /\ results # <<>> /\ Head(results).phase = "rejected"
  /\ Complete(FALSE)
  /\ captureCurrent' = FALSE
  /\ results' = Tail(results)
  /\ UNCHANGED <<venue, requests, worker, open, scope, registered, freshBooks,
                 metadataCurrent, stored, faults>>

\* The worker is gone and its last answer read.
ResultsClosed ==
  /\ open /\ worker.phase = "stopped" /\ results = <<>>
  /\ open' = FALSE
  /\ Complete(FALSE)
  /\ captureCurrent' = FALSE
  /\ UNCHANGED <<venue, requests, worker, results, scope, registered,
                 freshBooks, metadataCurrent, stored, faults>>

----------------------------------------------------------------------------
(* What happens to the venue and to the daemon. *)

Fault == faults < MaxFaults /\ faults' = faults + 1

Daemon == <<scheduler, requests, worker, results, open, scope, readiness, stored>>

ListingChanges(m) ==
  /\ Fault
  /\ listed' = IF m \in listed THEN listed \ {m} ELSE listed \cup {m}
  /\ UNCHANGED <<whole, volume, Daemon>>

HistoryChanges(m) ==
  /\ Fault
  /\ whole' = IF m \in whole THEN whole \ {m} ELSE whole \cup {m}
  /\ UNCHANGED <<listed, volume, Daemon>>

VolumeChanges(m) ==
  /\ Fault
  /\ \E v \in 0 .. MaxVolume : volume' = [volume EXCEPT ![m] = v]
  /\ UNCHANGED <<listed, whole, Daemon>>

\* One request of the batch fails.
RequestFails ==
  /\ Fault
  /\ worker.phase \in {"metadata", "details"}
  /\ worker' = [worker EXCEPT !.phase = "rejected"]
  /\ UNCHANGED <<venue, scheduler, requests, results, open, scope, readiness, stored>>

\* The worker's task ends; what waits in its channel is dropped.
WorkerStops ==
  /\ Fault
  /\ worker.phase # "stopped"
  /\ worker' = Stopped /\ requests' = <<>>
  /\ UNCHANGED <<venue, scheduler, results, open, scope, readiness, stored>>

\* The daemon is started again, perhaps after it stored the batch it was
\* admitting.
Restart ==
  /\ Fault
  /\ stored' \in {stored} \cup {stored \cup results[i].done :
                                  i \in {j \in DOMAIN results : results[j].phase = "captured"}}
  /\ markets' = {} /\ next' = 0 /\ inFlight' = NoBatch
  /\ requests' = <<>> /\ worker' = Idle /\ results' = <<>> /\ open' = TRUE
  /\ scope' = {} /\ registered' = {} /\ freshBooks' = {}
  /\ metadataCurrent' = FALSE /\ captureCurrent' = FALSE
  /\ UNCHANGED venue

WorkerSteps == \/ WorkerTakes \/ ReadMetadata \/ DetailsRead \/ WorkerAnswers
               \/ \E m \in VenueMarkets : ReadDetail(m)
AuthoritySteps == AdmitCaptured \/ AdmitRejected \/ ResultsClosed

CaptureNext ==
  \/ Tick
  \/ WorkerSteps
  \/ AuthoritySteps
  \/ \E m \in VenueMarkets :
       ListingChanges(m) \/ HistoryChanges(m) \/ VolumeChanges(m)
  \/ RequestFails
  \/ WorkerStops
  \/ Restart

CaptureSpec == CaptureInit /\ [][CaptureNext]_captureVars

\* The timer ticks for as long as the worker runs, requests of the venue are
\* answered or time out, and the authority reads what it is sent.
FairCaptureSpec ==
  /\ CaptureSpec
  /\ WF_captureVars(Tick)
  /\ WF_captureVars(WorkerSteps)
  /\ WF_captureVars(AuthoritySteps)
=============================================================================
