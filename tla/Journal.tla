------------------------------- MODULE Journal -------------------------------
(***************************************************************************)
(* The two durable stores of the daemon and what a crash leaves of them:  *)
(* the Parquet source evidence                                            *)
(* (src/crates/trench-storage/src/parquet.rs), which every public fact    *)
(* enters first, and the SQLite journal                                   *)
(* (src/crates/trench-storage/src/sqlite.rs), which records the typed     *)
(* transition each fact or recovery caused.  A restart                     *)
(* (src/crates/trenchd/src/app.rs, reconstruct_authority) replays the     *)
(* journal through the router from the source facts, refuses what it      *)
(* cannot reproduce, and admits the facts the journal does not hold.       *)
(*                                                                         *)
(* A book, a trade, a mark or a funding fact is identified by its kind,   *)
(* market and event time; its receipt time is not part of its identity.    *)
(***************************************************************************)
EXTENDS Integers, FiniteSets, SequencesExt

CONSTANTS
  Markets,
  BatchCapacity,  \* LIVE_SOURCE_BATCH_CAPACITY
  MaxAge,         \* MAXIMUM_BOOK_AGE_NS
  Bar,            \* the candle interval a recovery completes at
  Latencies,      \* bound: how long after its event time a book may arrive
  FundingTimes,   \* bound: the event times of funding facts
  CaptureTimes,   \* bound: the receipt times of captures
  MaxGaps,        \* bound: the gaps of one connection task
  MaxTime,        \* bound: the last receipt or start time
  MaxStarts       \* bound: how often the daemon is started

ASSUME JournalAssumption ==
  /\ IsFiniteSet(Markets)
  /\ BatchCapacity \in Nat \ {0} /\ MaxAge \in Nat \ {0}
  /\ Bar \in Nat \ {0} /\ Latencies \subseteq Nat \ {0}
  /\ FundingTimes \subseteq Nat /\ CaptureTimes \subseteq Nat
  /\ MaxGaps \in Nat /\ MaxTime \in Nat /\ MaxStarts \in Nat

VARIABLES
  now,
  source, journal,                          \* durable
  status, starts, started, historical,      \* the process
  auth, rolling, buffer, unwritten, queue,  \* the authority
  generation, pending, last, asked,         \* the WebSocket client
  requests,                                 \* the recovery worker
  lived, fenced, plain, settled             \* history

stores == <<source, journal>>
process == <<status, starts, started, historical>>
batch == <<buffer, unwritten, queue>>
client == <<generation, pending, last, asked>>
history == <<lived, fenced, plain, settled>>
vars == <<now, stores, process, auth, rolling, batch, client, requests,
          history>>

Nowhere == [m \in Markets |-> 0]

\* new_authority: the ledger and the broker's clock open at one moment.
NewAuthority(at) ==
  [opened |-> at, clock |-> at, gap |-> Nowhere, recovered |-> Nowhere,
   deferred |-> Nowhere, books |-> Nowhere]

Fact(kind, m, at, rx) == [kind |-> kind, market |-> m, at |-> at, rx |-> rx]
Identity(f) == [kind |-> f.kind, market |-> f.market, at |-> f.at]
Identities(facts) == {Identity(f) : f \in facts}

Init ==
  /\ now = 0
  /\ source = {} /\ journal = <<>>
  /\ status = "down" /\ starts = 0 /\ started = 0 /\ historical = {}
  /\ auth = NewAuthority(0) /\ rolling = FALSE
  /\ buffer = <<>> /\ unwritten = {} /\ queue = <<>>
  /\ generation = 0 /\ pending = Nowhere /\ last = Nowhere /\ asked = <<>>
  /\ requests = {}
  /\ lived = NewAuthority(0) /\ fenced = {} /\ plain = TRUE /\ settled = TRUE
-----------------------------------------------------------------------------
(* What the router and the engine make of a fact, live and in a replay. *)

IsLate(a, f) ==
  LET boundary == a.recovered[f.market] IN
  \/ f.at < a.clock
  \/ boundary > 0 /\ (f.at <= boundary \/ f.rx <= boundary)

Routed(kind, a) == [kind |-> kind, auth |-> a]
Unroutable(error) == [kind |-> "error", error |-> error]

\* OrderBook::apply_snapshot, then the fence.
RouteBook(a, f) ==
  IF a.books[f.market] >= f.at THEN Unroutable("non_monotonic_book")
  ELSE IF f.rx - f.at > MaxAge THEN Unroutable("stale")
  ELSE IF a.recovered[f.market] = 0
       THEN Routed("source_clock",
                   [a EXCEPT !.clock = f.rx,
                             !.deferred[f.market] = IF @ = 0 THEN f.at ELSE @])
  ELSE Routed("executable_book",
              [a EXCEPT !.clock = f.rx, !.books[f.market] = f.at])

\* source_is_late, then route_market_event; a fenced mark is a clock advance.  So
\* is a funding: one with a mark price would be observed, but every producer
\* makes Funding::historical, which has none.
Route(a, f) ==
  IF IsLate(a, f) THEN Routed("source_retained", a)
  ELSE IF f.kind = "book" THEN RouteBook(a, f)
  ELSE IF f.kind = "mark" /\ a.recovered[f.market] > 0
       THEN Routed("market_mark", [a EXCEPT !.clock = f.rx])
  ELSE Routed("source_clock", [a EXCEPT !.clock = f.rx])

GapsOpenedVariant(a, opened, g) ==
  [a EXCEPT
     !.gap = [m \in Markets |-> IF m \in opened THEN g ELSE @[m]],
     !.deferred = [m \in Markets |-> IF m \in opened THEN 0 ELSE @[m]]]

\* open_gap for each market of a set.
GapsOpened(a, opened, g) ==
  [a EXCEPT
     !.gap = [m \in Markets |-> IF m \in opened THEN g ELSE @[m]],
     !.recovered = [m \in Markets |-> IF m \in opened THEN 0 ELSE @[m]],
     !.deferred = [m \in Markets |-> IF m \in opened THEN 0 ELSE @[m]]]

\* Why complete_recovery refuses the answer to request r.
Refusal(a, r) ==
  IF a.gap[r.market] # r.generation THEN "generation_mismatch"
  ELSE IF a.deferred[r.market] = 0 THEN "missing_snapshot"
  ELSE IF a.deferred[r.market] # r.at THEN "snapshot_mismatch"
  ELSE "none"

CompletedVariant(a, m, boundary) ==
  [a EXCEPT !.gap[m] = 0, !.deferred[m] = 0, !.recovered[m] = boundary]

\* complete_recovery; the broker's clock stays.
Completed(a, m, boundary) ==
  [a EXCEPT !.gap[m] = 0, !.deferred[m] = 0, !.books[m] = 0,
            !.recovered[m] = boundary]

\* The candle boundary at or after a snapshot.
NextBoundary(at) == ((at + Bar - 1) \div Bar) * Bar

\* A journal row: its identity, its kind and time, the start of its run, and
\* the part of its checkpoint digest that a replay may miss.
Row(id, kind, g, time, a) ==
  [id |-> id, kind |-> kind, generation |-> g, time |-> time,
   started |-> started, opened |-> a.opened, clock |-> a.clock]

RequestId(r) == [kind |-> "request", market |-> r.market, at |-> r.at]
RecoveredId(r) == [kind |-> "recovered", market |-> r.market, at |-> r.at]

Journaled(id, g) ==
  \E i \in DOMAIN journal : journal[i].id = id /\ journal[i].generation = g

\* One SQLite transaction: the row and its checkpoint.
Commit(id, kind, g, time, a) ==
  /\ journal' = Append(journal, Row(id, kind, g, time, a))
  /\ auth' = a /\ lived' = a
  /\ UNCHANGED status

Fail(error) ==
  /\ status' = error
  /\ UNCHANGED <<journal, auth, lived>>
-----------------------------------------------------------------------------
(* Restart. *)

\* replay_order: event time, kind, identity.
KindOrder == [mark |-> 1, book |-> 2, trade |-> 4, funding |-> 5]
MarketOrder == SetToSeq(Markets)
Precedes(f, g) ==
  \/ f.at < g.at
  \/ f.at = g.at /\ KindOrder[f.kind] < KindOrder[g.kind]
  \/ /\ f.at = g.at /\ f.kind = g.kind
     /\ \E i, j \in DOMAIN MarketOrder :
          i < j /\ MarketOrder[i] = f.market /\ MarketOrder[j] = g.market
InReplayOrder(facts) ==
  [i \in 1 .. Cardinality(facts) |->
     CHOOSE f \in facts : Cardinality({g \in facts : Precedes(g, f)}) = i - 1]

Stop(s, error) == [s EXCEPT !.error = error]

VerifiedVariant(s, row, kind, a) == [s EXCEPT !.auth = a]

\* reconstruct_typed_event with verify_historical_outcome.
Verified(s, row, kind, a) ==
  IF kind = row.kind /\ a.opened = row.opened /\ a.clock = row.clock
  THEN [s EXCEPT !.auth = a]
  ELSE Stop(s, "parity")

\* reconstruct_market_event
ReplaySource(s, row, f) ==
  LET r == Route(s.auth, f)
  IN IF r.kind = "error" THEN Stop(s, r.error)
     ELSE Verified(s, row, r.kind, r.auth)

\* restore_recovery_request; the engine never moves its clock back.
ReplayRequest(s, row) ==
  LET m == row.id.market
      a == [s.auth EXCEPT !.gap[m] = row.generation, !.recovered[m] = 0,
                          !.clock = row.time]
  IN IF s.auth.deferred[m] = 0 THEN Stop(s, "missing_snapshot")
     ELSE IF s.auth.deferred[m] # row.id.at THEN Stop(s, "snapshot_mismatch")
     ELSE IF row.time < s.auth.clock THEN Stop(s, "parity")
     ELSE Verified(s, row, "recovery_request", a)

\* restore_recovery_completion
ReplayRecovered(s, row) ==
  LET m == row.id.market
      r == [market |-> m, generation |-> row.generation, at |-> row.id.at]
  IN IF Refusal(s.auth, r) # "none" THEN Stop(s, Refusal(s.auth, r))
     ELSE Verified(s, row, "market_recovered",
                   Completed(s.auth, m, row.time))

\* One row of the journal.
Replay(s, row) ==
  LET facts == {f \in source : Identity(f) = row.id} IN
  IF s.error # "none" THEN s
  ELSE IF facts # {} THEN ReplaySource(s, row, CHOOSE f \in facts : TRUE)
  ELSE IF row.kind = "recovery_request" THEN ReplayRequest(s, row)
  ELSE IF row.kind = "market_recovered" THEN ReplayRecovered(s, row)
  ELSE Stop(s, "missing_source")

\* reconstruct_historical_journal: the rows in order, from a new authority.
Rebuilt(opening) ==
  LET s[i \in 0 .. Len(journal)] ==
        IF i = 0 THEN [auth |-> NewAuthority(opening), error |-> "none"]
        ELSE Replay(s[i - 1], journal[i])
  IN s[Len(journal)]

Lesser(a, b) == IF a < b THEN a ELSE b

CandidatesVariant ==
  LET first == Head(InReplayOrder(source)).at
      start == Head(journal).started
  IN <<Lesser(first, start), Lesser(first, start)>>

\* The opening moments a replay tries: the first run's start, and the moment
\* a first run that began from source facts would have opened at.
Candidates ==
  LET start == Head(journal).started
  IN <<start, Lesser(Head(InReplayOrder(source)).at, start)>>

\* The second candidate is tried after a parity failure only.
Reconstruction ==
  LET first == Rebuilt(Candidates[1])
  IN IF first.error = "parity" THEN Rebuilt(Candidates[2]) ELSE first

UnjournaledVariant ==
  {f \in source : ~Journaled(Identity(f), 0) /\ f.at > Last(journal).time}

\* Facts of the store the journal does not hold.
Unjournaled == {f \in source : ~Journaled(Identity(f), 0)}

\* What a start makes of the stores: the authority, the facts to admit and
\* the facts it has verified, or the reason it refuses.
Started(error, a, fresh, verified) ==
  [error |-> error, auth |-> a, fresh |-> fresh, verified |-> verified]

Refused(error) == Started(error, NewAuthority(0), <<>>, {})

FirstRun(at) ==
  LET facts == InReplayOrder(source)
      opening == IF source = {} THEN at ELSE Lesser(Head(facts).at, at)
  IN Started("none", NewAuthority(opening), facts, {})

LaterRun ==
  LET r == Reconstruction
  IN IF source = {} THEN Refused("missing_source")
     ELSE IF r.error # "none" THEN Refused(r.error)
     ELSE IF r.auth.gap # Nowhere THEN Refused("incomplete_recovery")
     ELSE IF \E f \in Unjournaled : f.rx <= r.auth.clock
          THEN Refused("uncovered_source")
     ELSE Started("none", r.auth, InReplayOrder(Unjournaled),
                  Identities(source \ Unjournaled))

\* A process leaves nothing but the stores.
Forgotten ==
  /\ auth' = NewAuthority(0) /\ rolling' = FALSE /\ historical' = {}
  /\ buffer' = <<>> /\ unwritten' = {} /\ queue' = <<>>
  /\ generation' = 0 /\ pending' = Nowhere /\ last' = Nowhere
  /\ asked' = <<>> /\ requests' = {}

\* A new process: recover_source_stream, reconstruct_authority, create_run.
Start ==
  LET s == IF journal = <<>> THEN FirstRun(now + 1) ELSE LaterRun
  IN /\ status = "down" /\ starts < MaxStarts /\ now < MaxTime
     /\ now' = now + 1 /\ starts' = starts + 1 /\ started' = now + 1
     /\ status' = IF s.error = "none" THEN "up" ELSE s.error
     /\ auth' = s.auth /\ historical' = s.verified /\ queue' = s.fresh
     /\ UNCHANGED <<stores, rolling, buffer, unwritten, client, requests,
                    history>>

\* The process is killed at any point, or ends by the error it returned; only
\* the stores survive.
Crash ==
  /\ status # "down"
  /\ status' = "down"
  /\ fenced' = {m \in Markets : auth.recovered[m] = 0}
  /\ settled' = (/\ settled /\ buffer = <<>> /\ queue = <<>> /\ asked = <<>>
                 /\ auth.gap = Nowhere)
  /\ Forgotten
  /\ UNCHANGED <<now, stores, starts, started, lived, plain>>
-----------------------------------------------------------------------------
(* The authority loop. *)

WrittenVariant == TRUE

\* Every partition of a live batch is in place.
Written == unwritten = {}

\* Between two batches.
Idle == status = "up" /\ Written /\ queue = <<>>

\* The loop serves its channels; a full buffer is flushed first.
Ready == Idle /\ Len(buffer) < BatchCapacity

Receive(f) ==
  /\ Ready /\ rolling /\ asked = <<>>
  /\ f.rx <= MaxTime
  /\ buffer' = Append(buffer, f)
  /\ now' = f.rx
  /\ UNCHANGED <<stores, process, auth, rolling, unwritten, queue, generation,
                 requests, history>>

\* handle_frame: the request of a pending gap follows the market's book.
ReceiveBook(m, latency) ==
  LET rx == now + 1
      at == rx - latency
  IN /\ at > last[m]
     /\ last' = [last EXCEPT ![m] = at]
     /\ asked' = IF pending[m] = 0 THEN <<>>
                 ELSE <<[market |-> m, generation |-> pending[m],
                         at |-> at, rx |-> rx]>>
     /\ pending' = [pending EXCEPT ![m] = 0]
     /\ Receive(Fact("book", m, at, rx))

ReceiveTrade(m) ==
  /\ Receive(Fact("trade", m, now + 1, now + 1))
  /\ UNCHANGED <<pending, last, asked>>

\* A lost connection: the client numbers a gap for every market without one
\* and the router, told at once, fences them.
Disconnect ==
  LET opened == {m \in Markets : pending[m] = 0}
  IN /\ Ready /\ rolling /\ asked = <<>> /\ opened # {}
     /\ generation < MaxGaps
     /\ generation' = generation + 1
     /\ pending' = [m \in Markets |-> IF m \in opened THEN generation + 1
                                      ELSE pending[m]]
     /\ auth' = GapsOpened(auth, opened, generation + 1)
     /\ last' = Nowhere
     /\ plain' = FALSE
     /\ UNCHANGED <<now, stores, process, rolling, batch, asked, requests,
                    lived, fenced, settled>>

\* A request is journaled when it arrives, whatever the buffer holds.
ReceiveRequest ==
  LET r == asked[1] IN
  /\ Ready /\ asked # <<>>
  /\ asked' = <<>>
  /\ IF Journaled(RequestId(r), r.generation) THEN Fail("event_conflict")
     ELSE IF r.rx < auth.clock THEN Fail("backward_time")
     ELSE Commit(RequestId(r), "recovery_request", r.generation, r.rx,
                 [auth EXCEPT !.clock = r.rx])
  /\ requests' = requests \cup {r}
  /\ UNCHANGED <<now, source, starts, started, historical, rolling, batch,
                 generation, pending, last, fenced, plain, settled>>

\* admit_recovery_result of a reconciled recovery
Answer(r) ==
  LET m == r.market
      boundary == NextBoundary(r.at)
  IN /\ Ready /\ boundary <= now
     /\ requests' = requests \ {r}
     /\ IF Refusal(auth, r) # "none" THEN Fail(Refusal(auth, r))
        ELSE IF Journaled(RecoveredId(r), r.generation)
        THEN Fail("event_conflict")
        ELSE Commit(RecoveredId(r), "market_recovered", r.generation,
                    boundary, Completed(auth, m, boundary))
     /\ UNCHANGED <<now, source, starts, started, historical, rolling, batch,
                    client, fenced, plain, settled>>

\* route_recovery_result without evidence: the market stays fenced, and
\* nothing is journaled.
Unavailable(r) ==
  /\ Ready
  /\ requests' = requests \ {r}
  /\ auth' = [auth EXCEPT !.recovered[r.market] = 0, !.deferred[r.market] = 0]
  /\ UNCHANGED <<now, stores, process, rolling, batch, client, history>>

\* The received facts that the restart has not verified.
Unverified(facts) ==
  LET kept[i \in 0 .. Len(facts)] ==
        IF i = 0 THEN <<>>
        ELSE IF Identity(facts[i]) \in historical THEN kept[i - 1]
        ELSE Append(kept[i - 1], facts[i])
  IN kept[Len(facts)]

\* flush_live_source_batch: facts verified at the restart are dropped; the
\* rest is fenced against the store and queued for both stores.
Flush ==
  LET fresh == Unverified(buffer)
      ids == Identities(ToSet(fresh))
      known == ids \cap Identities(source) # {}
  IN /\ Idle /\ buffer # <<>>
     /\ buffer' = <<>>
     /\ IF known \/ Cardinality(ids) < Len(fresh)
        THEN /\ status' = "conflicting_event"
             /\ UNCHANGED <<unwritten, queue>>
        ELSE /\ unwritten' = ToSet(fresh) /\ queue' = fresh
             /\ UNCHANGED status
     /\ UNCHANGED <<now, stores, starts, started, historical, auth, rolling,
                    client, requests, history>>

\* write_partition: one kind and market of a live batch, renamed into place.
WritePartition ==
  \E f \in unwritten :
    LET partition == {g \in unwritten : g.kind = f.kind
                                        /\ g.market = f.market}
    IN /\ status = "up"
       /\ source' = source \cup partition
       /\ unwritten' = unwritten \ partition
       /\ UNCHANGED <<now, journal, process, auth, rolling, buffer, queue,
                      client, requests, history>>

\* capture_fresh_events: a fact of the store is left out of a rolling
\* capture, one verified at the restart of any.
FreshlyCaptured(facts) ==
  {f \in facts :
     /\ Identity(f) \notin historical
     /\ rolling => Identity(f) \notin Identities(source)}

\* admit_capture_output: the capture is published by one rename, then its
\* facts are admitted, and the stream follows its scope.
Capture(facts) ==
  LET fresh == FreshlyCaptured(facts)
      known == Identities(fresh) \cap Identities(source) # {}
  IN /\ Idle /\ buffer = <<>>
     /\ now < MaxTime /\ now + 1 \in CaptureTimes
     /\ now' = now + 1
     /\ IF known
        THEN /\ status' = "conflicting_event"
             /\ UNCHANGED <<source, queue, rolling>>
        ELSE /\ source' = source \cup fresh
             /\ queue' = InReplayOrder(fresh)
             /\ rolling' = (rolling \/ fresh # {})
             /\ UNCHANGED status
     /\ UNCHANGED <<journal, starts, started, historical, auth, buffer,
                    unwritten, client, requests, history>>

\* The marks a capture at rx can hold, and the funding history behind it.
Capturable(rx) ==
  {Fact("mark", m, rx, rx) : m \in Markets} \cup
  {Fact("funding", m, at, rx) : m \in Markets,
                                   at \in FundingTimes \cap (0 .. rx)}

\* admit_market_event for the next fact of a written batch; a stale book is
\* kept as evidence.
AdmitNext ==
  LET f == Head(queue)
      r == Route(auth, f)
      stale == r.kind = "error" /\ r.error = "stale"
      routed == IF stale THEN Routed("source_retained", auth) ELSE r
  IN /\ status = "up" /\ Written /\ queue # <<>>
     /\ queue' = Tail(queue)
     /\ plain' = (plain /\ ~stale)
     /\ IF routed.kind = "error" THEN Fail(routed.error)
        ELSE Commit(Identity(f), routed.kind, 0,
                    IF routed.kind = "source_retained" THEN f.at ELSE f.rx,
                    routed.auth)
     /\ UNCHANGED <<now, source, starts, started, historical, rolling, buffer,
                    unwritten, client, requests, fenced, settled>>
-----------------------------------------------------------------------------
Next ==
  \/ Start \/ Crash
  \/ \E m \in Markets :
       \/ \E latency \in Latencies : ReceiveBook(m, latency)
       \/ ReceiveTrade(m)
  \/ Disconnect \/ ReceiveRequest
  \/ \E r \in requests : Answer(r) \/ Unavailable(r)
  \/ Flush \/ WritePartition \/ AdmitNext
  \/ \E facts \in SUBSET Capturable(now + 1) :
       facts # {} /\ Capture(facts)

Spec == Init /\ [][Next]_vars
=============================================================================
