---------------------------- MODULE DurableLedger ----------------------------
(***************************************************************************)
(* What the two stores of the daemon promise together, without sockets,    *)
(* batches, fences or replays: an event-sourced ledger.  The log gains one *)
(* entry at a time, each once, behind stored evidence; the ledger a        *)
(* process holds in memory is at every moment the one the log says; the    *)
(* process may end at any moment, and the next one resumes that ledger.    *)
(***************************************************************************)
EXTENDS Integers, Sequences

CONSTANTS Markets, MaxTime

VARIABLES
  evidence,  \* the identities of the stored facts
  log,       \* the journaled entries
  memory     \* the ledger of the running process, as a set of at most one

durableVars == <<evidence, log, memory>>

\* A recovery is journaled without evidence of its own, and books nothing or
\* takes a market's book back.
Recoveries == {"recovery_request", "market_recovered"}
Bookings == {"executable_book", "market_recovered"}

\* The last book of market m the entries say, 0 for none.
LastBook(entries, m) ==
  LET booked == {i \in DOMAIN entries : /\ entries[i].id.market = m
                                        /\ entries[i].kind \in Bookings}
      latest == CHOOSE i \in booked : \A j \in booked : j <= i
  IN IF booked # {} /\ entries[latest].kind = "executable_book"
     THEN entries[latest].id.at ELSE 0

\* The ledger the entries say, and the one no entry has changed.
Ledger(entries) ==
  [opened |-> entries[Len(entries)].opened,
   clock |-> entries[Len(entries)].clock,
   books |-> [m \in Markets |-> LastBook(entries, m)]]
NewLedger(at) ==
  [opened |-> at, clock |-> at, books |-> [m \in Markets |-> 0]]

Blank == evidence = {} /\ log = <<>> /\ memory = {}

Store ==
  /\ memory # {} /\ evidence \subseteq evidence'
  /\ UNCHANGED <<log, memory>>

Open ==
  /\ log = <<>> /\ memory = {}
  /\ \E at \in 0 .. MaxTime : memory' = {NewLedger(at)}
  /\ UNCHANGED <<evidence, log>>

Resume ==
  /\ log # <<>> /\ memory = {}
  /\ memory' = {Ledger(log)}
  /\ UNCHANGED <<evidence, log>>

\* An entry may be admitted to a ledger: it keeps its opening, never moves its
\* clock back, and a book is later than the one booked and earlier than now.
Continues(entry, ledger) ==
  /\ entry.opened = ledger.opened /\ ledger.clock <= entry.clock
  /\ entry.kind = "executable_book" =>
       ledger.books[entry.id.market] < entry.id.at /\ entry.id.at < entry.clock

\* The log gains one entry, and the ledger in memory what it says.
Admit ==
  /\ log' # <<>>
  /\ LET entry == log'[Len(log')] IN
     /\ log' = Append(log, entry)
     /\ \E ledger \in memory : Continues(entry, ledger)
     /\ entry.kind \in Recoveries \/ entry.id \in evidence
     /\ \A i \in DOMAIN log :
          log[i].id = entry.id => log[i].generation # entry.generation
  /\ memory' = {Ledger(log')}
  /\ UNCHANGED evidence

End == memory # {} /\ memory' = {} /\ UNCHANGED <<evidence, log>>

Step == Store \/ Open \/ Resume \/ Admit \/ End

Durable == Blank /\ [][Step]_durableVars
=============================================================================
