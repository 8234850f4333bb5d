------------------------------ MODULE LiveFeed ------------------------------
(***************************************************************************)
(* The live path of the daemon: the public WebSocket client               *)
(* (src/crates/trench-hyperliquid/src/ws.rs) that stages market books,    *)
(* gaps and recovery requests into one bounded channel, the authority     *)
(* loop (src/crates/trenchd/src/app.rs) that buffers books but handles    *)
(* gaps and requests at once, the router                                  *)
(* (src/crates/trenchd/src/execution.rs) that fences a market from its    *)
(* gap to its recovery, and the FIFO recovery worker                      *)
(* (src/crates/trench-hyperliquid/src/recovery.rs).                       *)
(*                                                                         *)
(* Market events are order books: every other kind reaches the router as  *)
(* a clock advance, which a fenced book is too.  Time advances with every *)
(* receipt, so a receipt time identifies a snapshot; no event is received *)
(* at its own event time.                                                  *)
(***************************************************************************)
EXTENDS Integers, FiniteSets, SequencesExt

CONSTANTS
  Markets,
  Scopes,         \* the market sets a capture may select
  MaxRetries,     \* max_reconnect_attempts
  BatchCapacity,  \* LIVE_SOURCE_BATCH_CAPACITY
  OutCapacity,    \* capacity of the client's output channel
  MaxAge,         \* MAXIMUM_BOOK_AGE_NS
  Delayed,        \* bound: the markets whose books may take longer than 1
  MaxLatency,     \* bound: latest receipt of a book after its event time
  Bar,            \* the candle interval a recovery completes at
  MaxTime,        \* bound: the last receipt time
  MaxEpoch        \* bound: the last stream epoch

ASSUME FeedAssumption ==
  /\ IsFiniteSet(Markets) /\ Scopes \subseteq SUBSET Markets
  /\ Delayed \subseteq Markets
  /\ MaxRetries \in Nat
  /\ BatchCapacity \in Nat \ {0} /\ OutCapacity \in Nat
  /\ MaxAge \in Nat \ {0} /\ MaxLatency \in Nat \ {0}
  /\ Bar \in Nat \ {0} /\ MaxTime \in Nat \ {0} /\ MaxEpoch \in Nat

VARIABLES
  now,
  conn, retries, generation, pending, lastBook, out,         \* run_client
  scope, active, epoch, restart, observed, connected,        \* LiveSubscription
  buffer, boundary, failed,                                  \* authority loop
  gap, recoveredAt, deferred, books,                         \* TypedMarketRouter
  worker, requests, lastGeneration,                          \* GapRecovery
  delivered, executed, recoveredIn                           \* history

client == <<conn, retries, generation, pending, lastBook, out>>
live == <<scope, active, epoch, restart, observed, connected>>
router == <<gap, recoveredAt, deferred, books>>
recovery == <<worker, requests, lastGeneration>>
history == <<delivered, executed, recoveredIn>>
vars == <<now, client, live, buffer, boundary, failed, router, recovery,
          history>>

\* Generation 0 is no gap, time 0 no book, receipt 0 no snapshot.
Nowhere == [m \in Markets |-> 0]
NoGap == [epoch |-> 0, generation |-> 0]

Item(kind, m, g, at, rx) ==
  [kind |-> kind, market |-> m, generation |-> g, at |-> at, rx |-> rx,
   epoch |-> epoch]

Init ==
  /\ now = 1
  /\ conn = "off" /\ retries = 0 /\ generation = 0
  /\ pending = Nowhere /\ lastBook = Nowhere /\ out = <<>>
  /\ scope = {} /\ active = FALSE /\ epoch = 0 /\ restart = FALSE
  /\ observed = {} /\ connected = FALSE
  /\ buffer = <<>> /\ boundary = 0 /\ failed = "none"
  /\ gap = [m \in Markets |-> NoGap]
  /\ recoveredAt = Nowhere /\ deferred = Nowhere /\ books = Nowhere
  /\ worker = "running" /\ requests = <<>> /\ lastGeneration = Nowhere
  /\ delivered = {} /\ recoveredIn = Nowhere
  /\ executed = [m \in Markets |-> [at |-> 0, epoch |-> 0]]

\* The daemon has not returned an error.
Running == failed = "none"
-----------------------------------------------------------------------------
(* The client, one task per epoch. *)

\* The client sends one item at a time and waits for room; a burst that does
\* not fit is sent whole once the channel is empty.
Emit(items) ==
  /\ out = <<>> \/ Len(out) + Len(items) <= OutCapacity
  /\ out' = out \o items

\* Every subscribed market has had a book on this connection.
Healthy == \A m \in scope : lastBook[m] > 0

\* Markets without a pending gap, in the order of open_gaps.
Affected == SetToSeq({m \in scope : pending[m] = 0})

\* run_connection: subscriptions sent, the decoder's book times cleared.
Connect ==
  /\ Running /\ conn = "down"
  /\ conn' = "up"
  /\ lastBook' = Nowhere
  /\ UNCHANGED <<now, retries, generation, pending, out, live, buffer,
                 boundary, failed, router, recovery, history>>

\* handle_frame: a book is sent, and behind it the request of its market's
\* pending gap.
Snapshot(m, latency) ==
  LET rx == now + 1
      at == rx - latency
      request == IF pending[m] = 0 THEN <<>>
                 ELSE <<Item("request", m, pending[m], at, rx)>>
  IN /\ Running /\ conn = "up" /\ m \in scope
     /\ latency > 1 => m \in Delayed
     /\ rx <= MaxTime /\ at > lastBook[m]
     /\ Emit(<<Item("book", m, 0, at, rx)>> \o request)
     /\ now' = rx
     /\ lastBook' = [lastBook EXCEPT ![m] = at]
     /\ pending' = [pending EXCEPT ![m] = 0]
     /\ UNCHANGED <<conn, retries, generation, live, buffer, boundary, failed,
                    router, recovery, history>>

\* emit_gaps then schedule_reconnect, after a lost connection or a failed
\* attempt; the exhausted client repeats every gap and ends.
Disconnect ==
  LET opened == [i \in DOMAIN Affected |->
                   Item("gap", Affected[i], generation + 1, 0, 0)]
      pendingNow == [m \in Markets |->
                       IF m \in scope /\ pending[m] = 0
                       THEN generation + 1 ELSE pending[m]]
      tries == (IF conn = "up" /\ Healthy THEN 0 ELSE retries) + 1
      order == SetToSeq(scope)
      again == [i \in DOMAIN order |->
                  Item("gap", order[i], pendingNow[order[i]], 0, 0)]
  IN /\ Running /\ conn \in {"up", "down"}
     /\ pending' = pendingNow
     /\ generation' = IF opened = <<>> THEN generation ELSE generation + 1
     /\ IF tries > MaxRetries
        THEN conn' = "ended" /\ retries' = 0 /\ Emit(opened \o again)
        ELSE conn' = "down" /\ retries' = tries /\ Emit(opened)
     /\ UNCHANGED <<now, lastBook, live, buffer, boundary, failed, router,
                    recovery, history>>

\* A trade batch past max_trade_identities is dropped and ends the client; no
\* gap is opened.
IdentityLimit ==
  /\ Running /\ conn = "up"
  /\ Emit(<<Item("terminal", CHOOSE m \in scope : TRUE, 0, 0, 0)>>)
  /\ conn' = "ended"
  /\ UNCHANGED <<now, retries, generation, pending, lastBook, live, buffer,
                 boundary, failed, router, recovery, history>>

\* WsClient::start, a client with a state of its own.
StartClient ==
  /\ conn' = "down" /\ retries' = 0 /\ generation' = 0
  /\ pending' = Nowhere /\ lastBook' = Nowhere /\ out' = <<>>

\* WsStream::shutdown, with what was not received.
StopClient ==
  /\ conn' = "off" /\ retries' = 0 /\ generation' = 0
  /\ pending' = Nowhere /\ lastBook' = Nowhere /\ out' = <<>>
-----------------------------------------------------------------------------
(* The commit of a source batch: persist_live_market_events. *)

\* The completed recovery boundary forgotten.
IsLateFenceVariant(s, b) == b.at < s.boundary

\* source_is_late
IsLate(s, b) ==
  \/ b.at < s.boundary
  \/ recoveredAt[b.market] > 0
     /\ (b.at <= recoveredAt[b.market] \/ b.rx <= recoveredAt[b.market])

\* admit_market_event for one book and route_book behind it: an error keeps
\* the daemon from admitting the rest.
Admit(s, b) ==
  IF s.failed # "none" \/ IsLate(s, b) THEN s
  ELSE IF s.books[b.market] >= b.at
       THEN [s EXCEPT !.failed = "non_monotonic_book"]
  ELSE IF b.rx - b.at > MaxAge THEN s
  ELSE IF recoveredAt[b.market] = 0
       THEN [s EXCEPT !.boundary = b.rx,
                      !.deferred[b.market] = IF @ = 0 THEN b.rx ELSE @]
  ELSE [s EXCEPT !.boundary = b.rx, !.books[b.market] = b.at,
                 !.executed[b.market] = [at |-> b.at, epoch |-> b.epoch]]

\* The batch one book after the other, from the authority's state.
Committed(batch) ==
  LET after[i \in 0 .. Len(batch)] ==
        IF i = 0
        THEN [boundary |-> boundary, books |-> books, failed |-> failed,
              deferred |-> deferred, executed |-> executed]
        ELSE Admit(after[i - 1], batch[i])
  IN after[Len(batch)]

\* flush_live_source_batch, after which the broker's clock is at.
Flushed(batch, at) ==
  LET s == Committed(batch) IN
  /\ buffer' = <<>>
  /\ boundary' = at /\ failed' = s.failed
  /\ books' = s.books /\ deferred' = s.deferred /\ executed' = s.executed
  /\ UNCHANGED <<gap, recoveredAt>>

\* update_live_l2_readiness and observe_l2
ObserveL2(batch) ==
  LET seen == {batch[i].market : i \in DOMAIN batch} \cap scope
  IN IF active
     THEN /\ observed' = observed \cup seen
          /\ connected' = (connected \/ (seen # {} /\ observed' = scope))
     ELSE UNCHANGED <<observed, connected>>

FlushBatch(batch) ==
  /\ Flushed(batch, Committed(batch).boundary)
  /\ ObserveL2(batch)
  /\ UNCHANGED <<scope, active, epoch, restart>>

\* The tick of live_flush_clock.
Flush ==
  /\ Running /\ buffer # <<>>
  /\ FlushBatch(buffer)
  /\ UNCHANGED <<now, client, recovery, delivered, recoveredIn>>
-----------------------------------------------------------------------------
(* The arms of the select loop that receive from the client. *)

Receives(kind) ==
  /\ Running /\ out # <<>> /\ Head(out).kind = kind
  /\ out' = Tail(out)
  /\ UNCHANGED <<now, conn, retries, generation, pending, lastBook>>

\* Only a full buffer is committed at once.
ReceiveBook ==
  LET batch == Append(buffer, Head(out))
  IN /\ Receives("book")
     /\ delivered' = delivered \cup {Head(out).market}
     /\ IF Len(batch) >= BatchCapacity
        THEN FlushBatch(batch)
        ELSE /\ buffer' = batch
             /\ UNCHANGED <<live, boundary, failed, router, executed>>
     /\ UNCHANGED <<recovery, recoveredIn>>

\* The gap is noted, the market stays recovered.
ReceiveGapVariant ==
  LET m == Head(out).market
  IN /\ Receives("gap")
     /\ gap' = [gap EXCEPT ![m] = [epoch |-> Head(out).epoch,
                                   generation |-> Head(out).generation]]
     /\ deferred' = [deferred EXCEPT ![m] = 0]
     /\ UNCHANGED <<recoveredAt, books, live, buffer, boundary, failed,
                    recovery, history>>

\* TypedMarketRouter::open_gap
ReceiveGap ==
  LET m == Head(out).market
  IN /\ Receives("gap")
     /\ gap' = [gap EXCEPT ![m] = [epoch |-> Head(out).epoch,
                                   generation |-> Head(out).generation]]
     /\ recoveredAt' = [recoveredAt EXCEPT ![m] = 0]
     /\ deferred' = [deferred EXCEPT ![m] = 0]
     /\ UNCHANGED <<books, live, buffer, boundary, failed, recovery, history>>

\* GapRecovery::enqueue behind submit_recovery_request; a worker that refused
\* a request has ended.
Submit(r) ==
  IF worker # "running" THEN UNCHANGED recovery
  ELSE IF r.generation <= lastGeneration[r.market]
       THEN worker' = "failing" /\ UNCHANGED <<requests, lastGeneration>>
  ELSE /\ requests' = Append(requests, r)
       /\ lastGeneration' = [lastGeneration EXCEPT ![r.market] = r.generation]
       /\ UNCHANGED worker

\* TypedEngineEvent::RecoveryRequested advances the broker's clock to the
\* receipt of the snapshot before the request is submitted.
ReceiveRequest ==
  LET r == Head(out)
  IN /\ Receives("request")
     /\ IF r.rx < boundary
        THEN failed' = "backward_time" /\ UNCHANGED <<boundary, recovery>>
        ELSE boundary' = r.rx /\ Submit(r) /\ UNCHANGED failed
     /\ UNCHANGED <<live, buffer, router, history>>

\* end_live_epoch, on the terminal record or when the channel closes.
ReceiveEnd ==
  /\ Running /\ conn = "ended"
  /\ out # <<>> => Head(out).kind = "terminal"
  /\ StopClient
  /\ connected' = FALSE /\ observed' = {} /\ active' = FALSE
  /\ restart' = (scope # {})
  /\ UNCHANGED <<now, scope, epoch, buffer, boundary, failed, router, recovery,
                 history>>
-----------------------------------------------------------------------------
(* Epochs: replace_persisted_scope, restart_due, apply_stream_scope_action. *)

StartEpoch(newScope) ==
  /\ epoch < MaxEpoch
  /\ epoch' = epoch + 1
  /\ scope' = newScope /\ observed' = {} /\ restart' = FALSE
  /\ connected' = FALSE /\ active' = TRUE
  /\ delivered' = {}
  /\ StartClient

RestartDue ==
  /\ Running /\ restart /\ ~active
  /\ StartEpoch(scope)
  /\ UNCHANGED <<now, buffer, boundary, failed, router, recovery, executed,
                 recoveredIn>>

KeepScope == UNCHANGED <<client, live, delivered>>

StopEpoch ==
  /\ scope' = {} /\ observed' = {} /\ restart' = FALSE
  /\ active' = FALSE
  /\ IF active THEN connected' = FALSE /\ StopClient
     ELSE UNCHANGED <<connected, client>>
  /\ UNCHANGED <<epoch, delivered>>

\* The restart timer is cleared for an unchanged scope too.
ReplaceScopeVariant(newScope) ==
  IF newScope = {} THEN StopEpoch
  ELSE IF newScope = scope
       THEN /\ restart' = FALSE
            /\ UNCHANGED <<client, scope, active, epoch, observed, connected,
                           delivered>>
  ELSE StartEpoch(newScope)

ReplaceScope(newScope) ==
  IF newScope = {} THEN StopEpoch
  ELSE IF newScope = scope /\ active THEN KeepScope
  ELSE StartEpoch(newScope)

\* The capture arm: the buffer is committed without its L2 readiness, then
\* the captured facts: of no later receipt than the buffer, or received now.
CaptureAdmitted(newScope, at) ==
  /\ Running
  /\ at \in {Committed(buffer).boundary, now}
  /\ Flushed(buffer, at)
  /\ IF Committed(buffer).failed = "none" THEN ReplaceScope(newScope)
     ELSE KeepScope
  /\ UNCHANGED <<now, recovery, recoveredIn>>
-----------------------------------------------------------------------------
(* Results of the recovery worker: admit_recovery_output. *)

\* next_completion_boundary
NextBoundary(at) == ((at + Bar - 1) \div Bar) * Bar

\* The identity of the snapshot is not compared.
RefusalVariant(r) ==
  IF gap[r.market].generation # r.generation THEN "generation_mismatch"
  ELSE IF deferred[r.market] = 0 THEN "missing_snapshot"
  ELSE "none"

\* complete_recovery: its checks, in their order.
Refusal(r) ==
  IF gap[r.market].generation # r.generation THEN "generation_mismatch"
  ELSE IF deferred[r.market] = 0 THEN "missing_snapshot"
  ELSE IF deferred[r.market] # r.rx THEN "snapshot_mismatch"
  ELSE "none"

Complete(r) ==
  /\ gap' = [gap EXCEPT ![r.market] = NoGap]
  /\ deferred' = [deferred EXCEPT ![r.market] = 0]
  /\ books' = [books EXCEPT ![r.market] = 0]
  /\ recoveredAt' = [recoveredAt EXCEPT ![r.market] = NextBoundary(r.at)]
  /\ recoveredIn' = [recoveredIn EXCEPT ![r.market] = r.epoch]

\* The worker answers its head once the clock reached the boundary.
Reconciled ==
  LET r == Head(requests)
  IN /\ Running /\ requests # <<>> /\ worker # "fenced"
     /\ now >= NextBoundary(r.at)
     /\ failed' = Refusal(r)
     /\ IF failed' = "none" THEN Complete(r) ELSE UNCHANGED <<router, recoveredIn>>
     /\ requests' = Tail(requests)
     /\ UNCHANGED <<now, client, live, buffer, boundary, worker,
                    lastGeneration, delivered, executed>>

\* A RecoveryStatus::Unavailable result fences whatever gap is open.
Unavailable ==
  LET m == Head(requests).market
  IN /\ Running /\ requests # <<>> /\ worker # "fenced"
     /\ requests' = Tail(requests)
     /\ recoveredAt' = [recoveredAt EXCEPT ![m] = 0]
     /\ deferred' = [deferred EXCEPT ![m] = 0]
     /\ UNCHANGED <<now, client, live, buffer, boundary, failed, gap, books,
                    worker, lastGeneration, history>>

\* RecoveryOutput::Failed, and fence_recovery_worker for good.
WorkerFailed ==
  /\ Running /\ worker = "failing"
  /\ worker' = "fenced" /\ requests' = <<>>
  /\ UNCHANGED <<now, client, live, buffer, boundary, failed, router,
                 lastGeneration, history>>
-----------------------------------------------------------------------------
ClientNext ==
  \/ Connect \/ Disconnect \/ IdentityLimit
  \/ \E m \in Markets, latency \in 1 .. MaxLatency : Snapshot(m, latency)

AuthorityNext ==
  \/ ReceiveBook \/ ReceiveGap \/ ReceiveRequest \/ ReceiveEnd
  \/ Flush \/ RestartDue
  \/ \E newScope \in Scopes, at \in 0 .. MaxTime :
       CaptureAdmitted(newScope, at)

Next ==
  \/ ClientNext \/ AuthorityNext
  \/ Reconciled \/ Unavailable \/ WorkerFailed

\* The loop serves the client's channel and the restart timer.
Fairness ==
  /\ WF_vars(ReceiveBook) /\ WF_vars(ReceiveGap) /\ WF_vars(ReceiveRequest)
  /\ WF_vars(ReceiveEnd) /\ WF_vars(RestartDue)

Spec == Init /\ [][Next]_vars /\ Fairness
=============================================================================
