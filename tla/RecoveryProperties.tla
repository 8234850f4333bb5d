------------------------- MODULE RecoveryProperties -------------------------
(***************************************************************************)
(* What gap recovery promises: requests are answered in their order, no    *)
(* evidence a waiting request needs is dropped, what was final stays       *)
(* final, and neither task waits on the other for ever.                    *)
(***************************************************************************)
EXTENDS Recovery


IsAnswer(a) == IF a.kind = "answer"
               THEN a.number \in 1 .. MaxRequests /\ a.bars \subseteq Bar
                    /\ a.local \subseteq Trade
               ELSE a.kind = "failed" /\ a.market \in Markets

\* Type invariant.
RecoveryTypeOK ==
  /\ now \in Times /\ venue \subseteq Trade
  /\ live \in Seq(Trade)
  /\ \A i \in DOMAIN channel : channel[i] \in Input
  /\ authority.available \in BOOLEAN /\ authority.markets \subseteq Markets
  /\ \A i \in DOMAIN authority.pending : authority.pending[i] \in Input
  /\ Len(channel) <= ChannelCapacity /\ Len(results) <= ResultCapacity
  /\ Len(authority.pending) <= PendingCapacity
  /\ worker.phase \in {"waiting", "fetching", "sending", "ended"}
  /\ \A i \in DOMAIN worker.queue : worker.queue[i] \in Request
  /\ worker.phase = "fetching" => worker.queue # <<>>
  /\ worker.phase = "sending" <=> worker.answer # NoAnswer
  /\ \A m \in Markets : Cardinality(worker.evidence[m].trades) <= RetainedTrades
  /\ \A i \in DOMAIN results : IsAnswer(results[i])

\* The authority admits the answers in the order it submitted the requests,
\* each once and none left out, for as long as recovery is not fenced
\* (enqueue_recovery_input, GapRecovery::process_next, admit_recovery_output).
AnswersFollowRequests ==
  history.answered = [i \in 1 .. Len(history.answered) |-> i]

\* Every trade the worker was given while a request waited, and that the
\* request needs, is still there when its turn comes, or the request knows that
\* its evidence overflowed (retain_committed_source_event and
\* cleanup_after_terminal_result).
EvidenceIsKept ==
  \A r \in Queued(worker) : \A trade \in history.heard[r.number] :
    After(r, trade) => \/ trade \in worker.evidence[r.market].trades
                       \/ worker.evidence[r.market].exhausted

Given == {history.given[i] : i \in DOMAIN history.given}
Answers == {a \in Given : a.kind = "answer"}

\* A bar that one reconciliation made final is never made final by another and
\* is never declared unavailable by any answer, earlier or later
\* (mark_gap_unavailable and complete_market_through behind reconcile).
FinalBarsStayFinal ==
  \A a, b \in Answers : a.market = b.market /\ a.number # b.number =>
    /\ a.bars \cap b.bars = {}
    /\ b.status # "reconciled" =>
         \A bar \in a.bars : ~Overlaps(Span(history.asked[b.number]), bar)

Unanswered == {n \in DOMAIN history.asked :
                 n \notin {history.answered[i] : i \in DOMAIN history.answered}}

OneEach == \A n, k \in Unanswered :
             history.asked[n].market = history.asked[k].market => n = k

AllAnswered == Unanswered = {} \/ ~authority.available

\* As long as no market has two requests out at once, every request is answered
\* or recovery is fenced, on a feed as quiet as it may be: the clock moves the
\* head on, and the authority never waits on a worker that waits to deliver
\* (advance_recovery_clock, enqueue_recovery_input, recovery_worker).  The
\* premise is needed: see EveryRequestIsAnswered.
LoneRequestsAreAnswered == []OneEach => []<>AllAnswered

\* "The authority may use this from its bounded timer when the public feed is
\* quiet, so a mid-bar recovery cannot wait indefinitely for an unrelated trade"
\* (advance_time): without the premise.  It is violated, since the first answer
\* of a market takes the market off the recovery clock (admit_recovery_output).
EveryRequestIsAnswered == []<>AllAnswered

\* "Reconnect obtains a fresh snapshot, backfills recoverable gaps": a request
\* whose every trade was retained is not answered as a conflict with the
\* exchange's candles.
WholeEvidenceIsNoConflict ==
  \A a \in Answers : a.status = "conflict" =>
    a.local # {trade \in venue :
                 /\ trade.market = a.market /\ After(history.asked[a.number], trade)
                 /\ trade.time < NextBoundary(history.asked[a.number].snapshot)}

==============================================================================
