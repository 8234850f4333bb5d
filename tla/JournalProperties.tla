-------------------------- MODULE JournalProperties --------------------------
(***************************************************************************)
(* What the stores hold for each other, and what a restart reproduces.     *)
(***************************************************************************)
EXTENDS Journal

(* Every journaled fact is in the source store: whenever the process ends, a
   replay finds the evidence of each row (app.rs, persist_live_market_events
   and admit_capture_output). *)
SourceBeforeJournal ==
  \A i \in DOMAIN journal :
    journal[i].kind \in {"recovery_request", "market_recovered"}
      \/ journal[i].id \in Identities(source)

(* A process with nothing left to admit has journaled every fact of the
   store exactly once, over all crashes and restarts before. *)
NothingLostOrTwice ==
  Idle =>
    \A f \in source :
      Cardinality({i \in DOMAIN journal : journal[i].id = Identity(f)}) = 1

(* A start that succeeds continues the ledger the journal ends with: the same
   opening, the same clock of the broker, the same last book of every market
   (app.rs, reconstruct_authority). *)
RestoredIsLived ==
  [][(Start /\ status' = "up" /\ journal # <<>>) =>
       /\ auth'.opened = lived.opened
       /\ auth'.clock = lived.clock
       /\ auth'.books = lived.books]_vars

(* A daemon that kept its connection, retained no stale book and stopped with
   nothing queued starts again, whatever it captured, received and dropped
   before, in one run or over several. *)
OrderlyStopsRestart ==
  [][(Start /\ settled /\ plain) => status' = "up"]_vars

(* In the journal, over all runs, a market's book executes behind a completed
   recovery with no request since, later than its boundary and later than
   every book of the market executed before (execution.rs, route_book). *)
ExecutedOnEvidence ==
  \A i \in DOMAIN journal :
    journal[i].kind = "executable_book" =>
      LET m == journal[i].id.market
          before == {j \in 1 .. i - 1 : journal[j].id.market = m}
          fences == {j \in before : journal[j].kind \in
                       {"recovery_request", "market_recovered"}}
          books == {j \in before : journal[j].kind = "executable_book"}
      IN /\ \E j \in fences :
              /\ \A k \in fences : k <= j
              /\ journal[j].kind = "market_recovered"
              /\ journal[j].time < journal[i].id.at
         /\ \A j \in books : journal[j].id.at < journal[i].id.at

\* The ledger of the running process.
Memory ==
  IF status = "up"
  THEN {[opened |-> auth.opened, clock |-> auth.clock, books |-> auth.books]}
  ELSE {}

Abstract == INSTANCE DurableLedger WITH
              evidence <- Identities(source), log <- journal, memory <- Memory

(* The daemon implements the event-sourced ledger: the ledger in memory never
   differs from what the journal says, before the first crash and after any
   (app.rs, admit_market_event, admit_recovery_result and
   reconstruct_authority). *)
ImplementsDurableLedger == Abstract!Durable
=============================================================================
