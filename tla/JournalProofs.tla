---------------------------- MODULE JournalProofs ----------------------------
(***************************************************************************)
(* Evidence before journal, every fact journaled exactly once, books only  *)
(* behind a completed recovery, a restart that continues the ledger lived: *)
(* proofs for every set of markets, capacity and bound, over any number of *)
(* crashes and restarts.                                                   *)
(*                                                                         *)
(* The stores are what survives, so the invariant is about them: a fact    *)
(* has one identity in the source store, a row of a fact has its source,   *)
(* and a fact that is neither queued nor journaled is in no store yet      *)
(* (StoreInv, QueueInv).  The books and the boundaries of the authority    *)
(* are those of the last rows of their kinds (IsBook, IsRecovered), and    *)
(* each replayed row makes the same change (Makes), so a replay that       *)
(* verifies every row ends with the ledger lived.  Replays are recursive   *)
(* functions over the rows; what they keep is proved by induction.         *)
(***************************************************************************)
EXTENDS JournalProperties, FiniteSetTheorems, SequenceTheorems,
        WellFoundedInduction, TLAPS

FactKinds == {"book", "mark", "trade", "funding"}

(* A fact is received no earlier than its event time, a book later than that. *)
Facts ==
  {f \in [kind : FactKinds, market : Markets, at : Nat, rx : Nat] :
     /\ f.at <= f.rx
     /\ f.kind = "book" => 0 < f.at /\ f.at < f.rx}

FactIds == [kind : FactKinds, market : Markets, at : Nat]
RecoveryIds == [kind : {"request", "recovered"}, market : Markets, at : Nat]

(* A row of a fact or of a recovery. A book commits at a clock later than it. *)
Rows ==
  {r \in [id : FactIds \cup RecoveryIds,
          kind : {"source_retained", "source_clock", "market_mark",
                  "executable_book", "recovery_request", "market_recovered"},
          generation : Nat, time : Nat, started : Nat, opened : Nat,
          clock : Nat] :
     /\ r.kind = "recovery_request" <=> r.id.kind = "request"
     /\ r.kind = "market_recovered" <=> r.id.kind = "recovered"
     /\ r.id.kind \in FactKinds => r.generation = 0
     /\ r.kind = "executable_book" => r.id.at < r.clock}

Authorities ==
  [opened : Nat, clock : Nat, gap : [Markets -> Nat],
   recovered : [Markets -> Nat], deferred : [Markets -> Nat],
   books : [Markets -> Nat]]

Asks == [market : Markets, generation : Nat \ {0}, at : Nat, rx : Nat]

(* What every state has: the types of the variables. *)
Typed ==
  /\ now \in Nat
  /\ IsFiniteSet(source) /\ source \in SUBSET Facts
  /\ journal \in Seq(Rows)
  /\ starts \in Nat /\ started \in Nat
  /\ auth \in Authorities /\ lived \in Authorities
  /\ buffer \in Seq(Facts) /\ queue \in Seq(Facts)
  /\ unwritten \in SUBSET Facts
  /\ generation \in Nat /\ pending \in [Markets -> Nat]
  /\ last \in [Markets -> Nat]
  /\ requests \in SUBSET Asks
  /\ asked = <<>> \/ (asked \in Seq(Asks) /\ Len(asked) = 1)

(* A process that is down holds nothing. *)
Forgot ==
  /\ rolling = FALSE /\ historical = {}
  /\ buffer = <<>> /\ unwritten = {} /\ queue = <<>>
  /\ generation = 0 /\ pending = Nowhere /\ last = Nowhere
  /\ asked = <<>> /\ requests = {}

IsJournaled(id) == \E i \in DOMAIN journal : journal[i].id = id

(* The stores: one fact of an identity, one row of a fact, and its source. *)
StoreInv ==
  /\ \A f, g \in source : Identity(f) = Identity(g) => f = g
  /\ \A i \in DOMAIN journal :
       journal[i].id.kind \in FactKinds => journal[i].id \in Identities(source)
  /\ \A i, j \in DOMAIN journal :
       journal[i].id = journal[j].id /\ journal[i].id.kind \in FactKinds => i = j

(* A fact of the store is queued or journaled, never both. *)
QueueInv ==
  /\ unwritten \subseteq ToSet(queue)
  /\ ToSet(queue) \subseteq source \cup unwritten
  /\ \A i, j \in DOMAIN queue : Identity(queue[i]) = Identity(queue[j]) => i = j
  /\ \A f \in unwritten : Identity(f) \notin Identities(source)
  /\ \A i \in DOMAIN queue : ~ IsJournaled(Identity(queue[i]))
  /\ \A f \in source : f \in ToSet(queue) \/ IsJournaled(Identity(f))

(* Row k of q is of market m and of one of the kinds. *)
Matches(q, k, m, kinds) == q[k].id.market = m /\ q[k].kind \in kinds

(* Row j is the last of the first n rows that matches. *)
Latest(q, n, m, kinds, j) ==
  /\ j \in 1 .. n /\ Matches(q, j, m, kinds)
  /\ \A k \in 1 .. n : k > j => ~ Matches(q, k, m, kinds)
BookKinds == {"executable_book", "market_recovered"}
FenceKinds == {"recovery_request", "market_recovered"}

(* b is the last book of market m in the first n rows, 0 for none. *)
IsBook(q, n, m, b) ==
  \/ b = 0 /\ \A k \in 1 .. n : ~ Matches(q, k, m, BookKinds)
  \/ \E j \in 1 .. n :
       /\ Latest(q, n, m, BookKinds, j)
       /\ b = IF q[j].kind = "executable_book" THEN q[j].id.at ELSE 0

(* b is the boundary of market m behind the first n rows, 0 for none. *)
IsRecovered(q, n, m, b) ==
  \/ b = 0
  \/ \E j \in 1 .. n :
       /\ Latest(q, n, m, FenceKinds, j)
       /\ q[j].kind = "market_recovered" /\ q[j].time = b

(* The ledger lived is the one the journal ends with. *)
LivedInv ==
  /\ \A m \in Markets : IsBook(journal, Len(journal), m, lived.books[m])
  /\ journal # <<>> =>
       /\ journal[Len(journal)].opened = lived.opened
       /\ journal[Len(journal)].clock = lived.clock
  /\ \A i \in DOMAIN journal : journal[i].clock <= lived.clock

(* So is the authority of a running process. *)
AuthInv ==
  /\ journal # <<>> => /\ auth.opened = lived.opened
                       /\ auth.clock = lived.clock
  /\ auth.books = lived.books
  /\ \A m \in Markets :
       IsRecovered(journal, Len(journal), m, auth.recovered[m])

(* A gap pending or asked for is open in the router, and no request of it is *)
(* under way yet.                                                            *)
FenceInv ==
  /\ \A m \in Markets :
       pending[m] # 0 =>
         /\ auth.gap[m] = pending[m] /\ auth.recovered[m] = 0
         /\ pending[m] <= generation
         /\ \A r \in requests : r.market = m => r.generation # pending[m]
  /\ asked # <<>> =>
       LET m == asked[1].market IN
       /\ pending[m] = 0 /\ asked[1].generation <= generation
       /\ auth.gap[m] = asked[1].generation /\ auth.recovered[m] = 0
       /\ \A r \in requests : r.market = m => r.generation # asked[1].generation
  /\ \A r \in requests : r.generation <= generation

UpInv == status = "up" => QueueInv /\ AuthInv /\ FenceInv
DownInv == status = "down" => Forgot

(* The inductive invariant. *)
IInv == Typed /\ StoreInv /\ LivedInv /\ UpInv /\ DownInv

(* The kinds of facts have different places in the replay order. *)
LEMMA KindRanks ==
  /\ \A k \in FactKinds : KindOrder[k] \in Nat
  /\ \A k, l \in FactKinds : KindOrder[k] = KindOrder[l] => k = l
  BY DEF FactKinds, KindOrder

(* Every market has exactly one place in the order of the markets. *)
LEMMA MarketsOrdered ==
  /\ DOMAIN MarketOrder = 1 .. Cardinality(Markets)
  /\ Cardinality(Markets) \in Nat
  /\ \A i \in DOMAIN MarketOrder : MarketOrder[i] \in Markets
  /\ \A m \in Markets : \E i \in DOMAIN MarketOrder : MarketOrder[i] = m
  /\ \A i, j \in DOMAIN MarketOrder : MarketOrder[i] = MarketOrder[j] => i = j
<1> DEFINE n == Cardinality(Markets)
           q == MarketOrder
<1>1. IsFiniteSet(Markets)
  BY JournalAssumption
<1>2. n \in Nat /\ ExistsBijection(1 .. n, Markets)
  BY <1>1, FS_CardinalityType
<1>3. \E f \in [1 .. n -> Markets] : IsInjective(f)
  BY <1>2 DEF ExistsBijection, Bijection, Injection
<1>4. q \in [1 .. n -> Markets] /\ IsInjective(q)
  BY <1>3 DEF SetToSeq, MarketOrder
<1>5. q \in Injection(1 .. n, Markets)
  BY <1>4 DEF Injection
<1>6. IsFiniteSet(1 .. n) /\ Cardinality(1 .. n) = n
  BY <1>2, FS_Interval
<1>7. q \in Surjection(1 .. n, Markets)
  BY <1>1, <1>5, <1>6, FS_Injection
<1> HIDE DEF q
<1>8. \A m \in Markets : \E i \in 1 .. n : q[i] = m
  BY <1>7 DEF Surjection
<1>9. \A i, j \in 1 .. n : q[i] = q[j] => i = j
  BY <1>4, <1>5 DEF Injection, IsInjective
<1>10. DOMAIN q = 1 .. n /\ \A i \in 1 .. n : q[i] \in Markets
  BY <1>4
<1> QED BY <1>2, <1>8, <1>9, <1>10 DEF q

(* The fields of a fact. *)
LEMMA FactFields ==
  ASSUME NEW f \in Facts
  PROVE  /\ f.kind \in FactKinds /\ f.market \in Markets
         /\ f.at \in Nat /\ f.rx \in Nat /\ f.at <= f.rx
         /\ f.kind = "book" => 0 < f.at /\ f.at < f.rx
  BY DEF Facts

(* No fact precedes itself. *)
LEMMA PrecedesIrreflexive ==
  ASSUME NEW f \in Facts
  PROVE  ~ Precedes(f, f)
<1>1. ~ (\E i, j \in DOMAIN MarketOrder :
           i < j /\ MarketOrder[i] = f.market /\ MarketOrder[j] = f.market)
  <2> SUFFICES ASSUME NEW i \in DOMAIN MarketOrder, NEW j \in DOMAIN MarketOrder,
                      i < j, MarketOrder[i] = f.market, MarketOrder[j] = f.market
               PROVE  FALSE
    OBVIOUS
  <2>1. i = j /\ i \in Nat
    BY MarketsOrdered
  <2> QED BY <2>1
<1> QED BY <1>1, FactFields, KindRanks DEF Precedes

(* The replay order is transitive. *)
LEMMA PrecedesTransitive ==
  ASSUME NEW f \in Facts, NEW g \in Facts, NEW h \in Facts,
         Precedes(f, g), Precedes(g, h)
  PROVE  Precedes(f, h)
<1>1. /\ f.at \in Nat /\ g.at \in Nat /\ h.at \in Nat
      /\ f.kind \in FactKinds /\ g.kind \in FactKinds /\ h.kind \in FactKinds
  BY FactFields
<1>2. /\ KindOrder[f.kind] \in Nat /\ KindOrder[g.kind] \in Nat
      /\ KindOrder[h.kind] \in Nat
  BY <1>1, KindRanks
<1> DEFINE Before(x, y) == \E i, j \in DOMAIN MarketOrder :
             i < j /\ MarketOrder[i] = x.market /\ MarketOrder[j] = y.market
<1>3. Before(f, g) /\ Before(g, h) => Before(f, h)
  <2> SUFFICES ASSUME Before(f, g), Before(g, h) PROVE Before(f, h)
    OBVIOUS
  <2>1. PICK i \in DOMAIN MarketOrder, j \in DOMAIN MarketOrder :
          i < j /\ MarketOrder[i] = f.market /\ MarketOrder[j] = g.market
    OBVIOUS
  <2>2. PICK k \in DOMAIN MarketOrder, l \in DOMAIN MarketOrder :
          k < l /\ MarketOrder[k] = g.market /\ MarketOrder[l] = h.market
    OBVIOUS
  <2>3. j = k /\ i \in Nat /\ j \in Nat /\ k \in Nat /\ l \in Nat
    BY <2>1, <2>2, MarketsOrdered
  <2> QED BY <2>1, <2>2, <2>3
<1>4. \A x, y \in {f, g, h} :
        Precedes(x, y) <=> (\/ x.at < y.at
                            \/ x.at = y.at /\ KindOrder[x.kind] < KindOrder[y.kind]
                            \/ x.at = y.at /\ x.kind = y.kind /\ Before(x, y))
  BY DEF Precedes
<1> HIDE DEF Before
<1> QED BY <1>1, <1>2, <1>3, <1>4

(* Of two facts of different identities one precedes the other. *)
LEMMA PrecedesTotal ==
  ASSUME NEW f \in Facts, NEW g \in Facts, Identity(f) # Identity(g)
  PROVE  Precedes(f, g) \/ Precedes(g, f)
<1>1. /\ f.at \in Nat /\ g.at \in Nat
      /\ f.kind \in FactKinds /\ g.kind \in FactKinds
      /\ f.market \in Markets /\ g.market \in Markets
  BY FactFields
<1>2. KindOrder[f.kind] \in Nat /\ KindOrder[g.kind] \in Nat
  BY <1>1, KindRanks
<1>3. f.kind # g.kind => KindOrder[f.kind] # KindOrder[g.kind]
  BY <1>1, KindRanks
<1>4. CASE f.at # g.at
  BY <1>1, <1>4 DEF Precedes
<1>5. CASE f.at = g.at /\ f.kind # g.kind
  BY <1>2, <1>3, <1>5 DEF Precedes
<1>6. CASE f.at = g.at /\ f.kind = g.kind
  <2>1. f.market # g.market
    BY <1>6 DEF Identity
  <2>2. PICK i \in DOMAIN MarketOrder : MarketOrder[i] = f.market
    BY <1>1, MarketsOrdered
  <2>3. PICK j \in DOMAIN MarketOrder : MarketOrder[j] = g.market
    BY <1>1, MarketsOrdered
  <2>4. i \in Nat /\ j \in Nat /\ i # j
    BY <2>1, <2>2, <2>3, MarketsOrdered
  <2>5. i < j \/ j < i
    BY <2>4
  <2> QED BY <1>6, <2>2, <2>3, <2>5 DEF Precedes
<1> QED BY <1>4, <1>5, <1>6

Distinct(facts) == \A f, g \in facts : Identity(f) = Identity(g) => f = g

(* The facts in replay order are each of them once: as many facts precede the *)
(* one at place i as there are places before i, and only they.                *)
LEMMA ReplayOrder ==
  ASSUME NEW facts \in SUBSET Facts, IsFiniteSet(facts), Distinct(facts)
  PROVE  /\ InReplayOrder(facts) \in Seq(Facts)
         /\ DOMAIN InReplayOrder(facts) = 1 .. Cardinality(facts)
         /\ Cardinality(facts) \in Nat
         /\ ToSet(InReplayOrder(facts)) = facts
         /\ \A i, j \in DOMAIN InReplayOrder(facts) :
              InReplayOrder(facts)[i] = InReplayOrder(facts)[j] => i = j
<1> DEFINE n == Cardinality(facts)
           Earlier(f) == {g \in facts : Precedes(g, f)}
           rank == [f \in facts |-> Cardinality(Earlier(f))]
           q == InReplayOrder(facts)
<1>1. n \in Nat
  BY FS_CardinalityType
<1>2. ASSUME NEW f \in facts
      PROVE  IsFiniteSet(Earlier(f)) /\ rank[f] \in Nat /\ rank[f] < n
  <2>1. Earlier(f) \in SUBSET facts /\ f \notin Earlier(f)
    BY PrecedesIrreflexive
  <2>2. IsFiniteSet(Earlier(f)) /\ Cardinality(Earlier(f)) <= n
        /\ Cardinality(Earlier(f)) # n
    BY <2>1, FS_Subset
  <2>3. Cardinality(Earlier(f)) \in Nat
    BY <2>2, FS_CardinalityType
  <2> QED BY <1>1, <2>2, <2>3
<1>3. ASSUME NEW f \in facts, NEW g \in facts, Precedes(f, g)
      PROVE  rank[f] < rank[g]
  <2>1. Earlier(f) \in SUBSET Earlier(g)
    BY <1>3, PrecedesTransitive
  <2>2. f \in Earlier(g) /\ f \notin Earlier(f)
    BY <1>3, PrecedesIrreflexive
  <2>3. Cardinality(Earlier(f)) <= Cardinality(Earlier(g))
        /\ Cardinality(Earlier(f)) # Cardinality(Earlier(g))
    <3> HIDE DEF Earlier
    <3> QED BY <2>1, <2>2, <1>2, FS_Subset
  <2>4. rank[f] = Cardinality(Earlier(f)) /\ rank[g] = Cardinality(Earlier(g))
    OBVIOUS
  <2>5. rank[f] \in Nat /\ rank[g] \in Nat
    BY <1>2
  <2> HIDE DEF rank, Earlier
  <2> QED BY <2>3, <2>4, <2>5
<1>4. ASSUME NEW f \in facts, NEW g \in facts, rank[f] = rank[g]
      PROVE  f = g
  <2>1. rank[f] \in Nat /\ rank[g] \in Nat
    BY <1>2
  <2>2. Precedes(f, g) => rank[f] < rank[g]
    BY <1>3
  <2>3. Precedes(g, f) => rank[g] < rank[f]
    BY <1>3
  <2>4. ~ Precedes(f, g) /\ ~ Precedes(g, f)
    <3> HIDE DEF rank
    <3> QED BY <1>4, <2>1, <2>2, <2>3
  <2> QED BY <2>4, PrecedesTotal DEF Distinct
<1>5. rank \in Injection(facts, 0 .. n - 1)
  <2>1. rank \in [facts -> 0 .. n - 1]
    <3>1. ASSUME NEW f \in facts PROVE rank[f] \in 0 .. n - 1
      <4>1. rank[f] \in Nat /\ rank[f] < n
        BY <1>2
      <4> HIDE DEF rank, n
      <4> QED BY <1>1, <4>1
    <3> QED BY <3>1
  <2>2. \A f, g \in facts : rank[f] = rank[g] => f = g
    BY <1>4
  <2> HIDE DEF rank
  <2> QED BY <2>1, <2>2 DEF Injection, IsInjective
<1>6. IsFiniteSet(0 .. n - 1) /\ Cardinality(0 .. n - 1) = n
  BY <1>1, FS_Interval
<1>7. \A i \in 0 .. n - 1 : \E f \in facts : rank[f] = i
  <2>1. rank \in Surjection(facts, 0 .. n - 1)
    <3> HIDE DEF rank
    <3> QED BY <1>5, <1>6, FS_Injection
  <2> DEFINE T == 0 .. n - 1
  <2>2. rank \in Surjection(facts, T)
    BY <2>1
  <2> HIDE DEF rank, n, T
  <2>3. \A t \in T : \E f \in facts : rank[f] = t
    BY <2>2 DEF Surjection
  <2> QED BY <2>3 DEF T
<1>8. q = [i \in 1 .. n |->
             CHOOSE f \in facts : Cardinality(Earlier(f)) = i - 1]
  BY DEF InReplayOrder
<1>15. \A f \in facts : rank[f] = Cardinality(Earlier(f))
  OBVIOUS
<1> HIDE DEF rank, q, Earlier
<1>9. ASSUME NEW i \in 1 .. n
      PROVE  q[i] \in facts /\ rank[q[i]] = i - 1
  <2>1. i - 1 \in 0 .. n - 1
    BY <1>1
  <2>2. \E f \in facts : Cardinality(Earlier(f)) = i - 1
    BY <2>1, <1>7, <1>15
  <2>3. q[i] = CHOOSE f \in facts : Cardinality(Earlier(f)) = i - 1
    BY <1>8
  <2> QED BY <2>2, <2>3, <1>15
<1>10. DOMAIN q = 1 .. n /\ \A i \in 1 .. n : q[i] \in Facts
  BY <1>8, <1>9
<1>11. q \in Seq(Facts)
  <2>1. q \in [1 .. n -> Facts]
    BY <1>8, <1>10
  <2> QED BY <2>1, <1>1, SeqDef
<1>12. ASSUME NEW f \in facts PROVE f \in ToSet(q)
  <2>1. rank[f] \in Nat /\ rank[f] < n
    BY <1>2
  <2> DEFINE i == rank[f] + 1
  <2>2. i \in 1 .. n /\ i - 1 = rank[f]
    BY <1>1, <2>1
  <2> HIDE DEF i
  <2>3. q[i] \in facts /\ rank[q[i]] = rank[f]
    BY <2>2, <1>9
  <2>4. q[i] = f
    BY <2>3, <1>4
  <2> QED BY <2>2, <2>4, <1>10 DEF ToSet
<1>13. ToSet(q) = facts
  BY <1>9, <1>10, <1>12 DEF ToSet
<1>14. \A i, j \in DOMAIN q : q[i] = q[j] => i = j
  <2> SUFFICES ASSUME NEW i \in 1 .. n, NEW j \in 1 .. n, q[i] = q[j]
               PROVE  i = j
    BY <1>10
  <2> QED BY <1>9, <1>1
<1> QED BY <1>1, <1>10, <1>11, <1>13, <1>14 DEF q

(* The places of a journal with one more row. *)
LEMMA IndexStep ==
  ASSUME NEW n \in Nat, NEW k \in 1 .. n + 1
  PROVE  k = n + 1 \/ k \in 1 .. n
  OBVIOUS

(* What one more row makes of the last book of a market. *)
LEMMA BookStep ==
  ASSUME NEW q, NEW n \in Nat, NEW m, NEW b, IsBook(q, n, m, b)
  PROVE  /\ ~ Matches(q, n + 1, m, BookKinds) => IsBook(q, n + 1, m, b)
         /\ Matches(q, n + 1, m, BookKinds) =>
              IsBook(q, n + 1, m, IF q[n + 1].kind = "executable_book"
                                  THEN q[n + 1].id.at ELSE 0)
<1>1. n + 1 \in 1 .. n + 1 /\ \A k \in 1 .. n + 1 : ~ (k > n + 1)
  OBVIOUS
<1>2. \A k \in 1 .. n : k \in 1 .. n + 1
  OBVIOUS
<1>3. ASSUME ~ Matches(q, n + 1, m, BookKinds)
      PROVE  IsBook(q, n + 1, m, b)
  <2>1. CASE b = 0 /\ \A k \in 1 .. n : ~ Matches(q, k, m, BookKinds)
    <3>1. \A k \in 1 .. n + 1 : ~ Matches(q, k, m, BookKinds)
      BY <2>1, <1>3, IndexStep
    <3> QED BY <2>1, <3>1 DEF IsBook
  <2>2. ASSUME NEW j \in 1 .. n, Latest(q, n, m, BookKinds, j),
               b = IF q[j].kind = "executable_book" THEN q[j].id.at ELSE 0
        PROVE  IsBook(q, n + 1, m, b)
    <3>1. \A k \in 1 .. n + 1 : k > j => ~ Matches(q, k, m, BookKinds)
      BY <2>2, <1>3, IndexStep DEF Latest
    <3>2. Latest(q, n + 1, m, BookKinds, j)
      BY <1>2, <2>2, <3>1 DEF Latest
    <3> QED BY <1>2, <2>2, <3>2 DEF IsBook
  <2> QED BY <2>1, <2>2 DEF IsBook
<1>4. ASSUME Matches(q, n + 1, m, BookKinds)
      PROVE  IsBook(q, n + 1, m, IF q[n + 1].kind = "executable_book"
                                 THEN q[n + 1].id.at ELSE 0)
  <2>1. Latest(q, n + 1, m, BookKinds, n + 1)
    BY <1>1, <1>4 DEF Latest
  <2> QED BY <1>1, <2>1 DEF IsBook
<1> QED BY <1>3, <1>4

(* What one more row makes of the boundary of a market. *)
LEMMA RecoveredStep ==
  ASSUME NEW q, NEW n \in Nat, NEW m, NEW b, IsRecovered(q, n, m, b)
  PROVE  /\ ~ Matches(q, n + 1, m, FenceKinds) => IsRecovered(q, n + 1, m, b)
         /\ Matches(q, n + 1, m, FenceKinds) /\ q[n + 1].kind = "market_recovered" =>
              IsRecovered(q, n + 1, m, q[n + 1].time)
<1>1. n + 1 \in 1 .. n + 1 /\ \A k \in 1 .. n + 1 : ~ (k > n + 1)
  OBVIOUS
<1>2. \A k \in 1 .. n : k \in 1 .. n + 1
  OBVIOUS
<1>3. ASSUME ~ Matches(q, n + 1, m, FenceKinds)
      PROVE  IsRecovered(q, n + 1, m, b)
  <2>1. CASE b = 0
    BY <2>1 DEF IsRecovered
  <2>2. ASSUME NEW j \in 1 .. n, Latest(q, n, m, FenceKinds, j),
               q[j].kind = "market_recovered", q[j].time = b
        PROVE  IsRecovered(q, n + 1, m, b)
    <3>1. \A k \in 1 .. n + 1 : k > j => ~ Matches(q, k, m, FenceKinds)
      BY <2>2, <1>3, IndexStep DEF Latest
    <3>2. Latest(q, n + 1, m, FenceKinds, j)
      BY <1>2, <2>2, <3>1 DEF Latest
    <3> QED BY <1>2, <2>2, <3>2 DEF IsRecovered
  <2> QED BY <2>1, <2>2 DEF IsRecovered
<1>4. ASSUME Matches(q, n + 1, m, FenceKinds), q[n + 1].kind = "market_recovered"
      PROVE  IsRecovered(q, n + 1, m, q[n + 1].time)
  <2>1. Latest(q, n + 1, m, FenceKinds, n + 1)
    BY <1>1, <1>4 DEF Latest
  <2> QED BY <1>1, <1>4, <2>1 DEF IsRecovered
<1> QED BY <1>3, <1>4

(* The last book and the boundary depend on the rows alone. *)
LEMMA SameRows ==
  ASSUME NEW q, NEW p, NEW n \in Nat, \A i \in 1 .. n : q[i] = p[i], NEW m, NEW b
  PROVE  /\ IsBook(q, n, m, b) => IsBook(p, n, m, b)
         /\ IsRecovered(q, n, m, b) => IsRecovered(p, n, m, b)
<1>1. \A kinds : \A k \in 1 .. n : Matches(q, k, m, kinds) <=> Matches(p, k, m, kinds)
  BY DEF Matches
<1>2. \A kinds : \A j \in 1 .. n : Latest(q, n, m, kinds, j) <=> Latest(p, n, m, kinds, j)
  BY <1>1 DEF Latest
<1>3. IsBook(q, n, m, b) => IsBook(p, n, m, b)
  BY <1>1, <1>2 DEF IsBook
<1>4. IsRecovered(q, n, m, b) => IsRecovered(p, n, m, b)
  BY <1>2 DEF IsRecovered
<1> QED BY <1>3, <1>4

(* A market has one last book. *)
LEMMA BookUnique ==
  ASSUME NEW q, NEW n \in Nat, NEW m, NEW b, NEW c,
         IsBook(q, n, m, b), IsBook(q, n, m, c)
  PROVE  b = c
<1>1. CASE b = 0 /\ \A k \in 1 .. n : ~ Matches(q, k, m, BookKinds)
  BY <1>1 DEF IsBook, Latest
<1>2. ASSUME NEW j \in 1 .. n, Latest(q, n, m, BookKinds, j),
             b = IF q[j].kind = "executable_book" THEN q[j].id.at ELSE 0
      PROVE  b = c
  <2>1. PICK i \in 1 .. n :
          /\ Latest(q, n, m, BookKinds, i)
          /\ c = IF q[i].kind = "executable_book" THEN q[i].id.at ELSE 0
    BY <1>2 DEF IsBook, Latest
  <2>2. ~ (i > j) /\ ~ (j > i)
    BY <1>2, <2>1 DEF Latest
  <2>3. i = j
    BY <2>2
  <2> QED BY <1>2, <2>1, <2>3
<1> QED BY <1>1, <1>2 DEF IsBook

(* The fields of an authority. *)
LEMMA AuthorityFields ==
  ASSUME NEW a \in Authorities
  PROVE  /\ a = [opened |-> a.opened, clock |-> a.clock, gap |-> a.gap,
                 recovered |-> a.recovered, deferred |-> a.deferred,
                 books |-> a.books]
         /\ a.opened \in Nat /\ a.clock \in Nat
         /\ a.gap \in [Markets -> Nat] /\ a.recovered \in [Markets -> Nat]
         /\ a.deferred \in [Markets -> Nat] /\ a.books \in [Markets -> Nat]
  BY DEF Authorities

(* A new authority has no gap, no boundary and no book. *)
LEMMA NewAuthorityTyped ==
  ASSUME NEW at \in Nat
  PROVE  /\ NewAuthority(at) \in Authorities
         /\ NewAuthority(at).opened = at /\ NewAuthority(at).clock = at
         /\ NewAuthority(at).gap = Nowhere /\ NewAuthority(at).recovered = Nowhere
         /\ NewAuthority(at).books = Nowhere
         /\ \A m \in Markets : Nowhere[m] = 0
<1>1. Nowhere \in [Markets -> Nat] /\ \A m \in Markets : Nowhere[m] = 0
  BY DEF Nowhere
<1> QED BY <1>1 DEF NewAuthority, Authorities

FactRows == {"source_retained", "source_clock", "market_mark", "executable_book"}

(* b is what the router makes of a by fact f, under a kind of row. *)
Follows(a, f, kind, b) ==
  /\ kind \in FactRows /\ b \in Authorities
  /\ b.opened = a.opened /\ b.gap = a.gap /\ b.recovered = a.recovered
  /\ b.clock >= a.clock
  /\ kind = "source_retained" => b = a
  /\ kind # "source_retained" => b.clock = f.rx
  /\ kind # "executable_book" => b.books = a.books
  /\ kind = "executable_book" =>
       /\ f.at < f.rx /\ a.clock <= f.at
       /\ a.recovered[f.market] > 0 /\ f.at > a.recovered[f.market]
       /\ b.books = [a.books EXCEPT ![f.market] = f.at]

(* What the router makes of a fact: an error, or one of four rows. *)
LEMMA RouteFollows ==
  ASSUME NEW a \in Authorities, NEW f \in Facts
  PROVE  \/ Route(a, f) = Unroutable("non_monotonic_book")
         \/ Route(a, f) = Unroutable("stale")
         \/ \E kind \in FactRows, b \in Authorities :
              Route(a, f) = Routed(kind, b) /\ Follows(a, f, kind, b)
<1> DEFINE m == f.market
<1>1. /\ a = [opened |-> a.opened, clock |-> a.clock, gap |-> a.gap,
              recovered |-> a.recovered, deferred |-> a.deferred,
              books |-> a.books]
      /\ a.opened \in Nat /\ a.clock \in Nat
      /\ a.gap \in [Markets -> Nat] /\ a.recovered \in [Markets -> Nat]
      /\ a.deferred \in [Markets -> Nat] /\ a.books \in [Markets -> Nat]
  BY AuthorityFields
<1>2. /\ f.kind \in FactKinds /\ m \in Markets
      /\ f.at \in Nat /\ f.rx \in Nat /\ f.at <= f.rx
      /\ f.kind = "book" => 0 < f.at /\ f.at < f.rx
  BY FactFields
<1>3. CASE IsLate(a, f)
  <2>1. Route(a, f) = Routed("source_retained", a)
    BY <1>3 DEF Route
  <2>2. Follows(a, f, "source_retained", a)
    BY <1>1 DEF Follows, FactRows
  <2> QED BY <2>1, <2>2 DEF FactRows
<1>4. ~ IsLate(a, f) => /\ f.at >= a.clock
                        /\ a.recovered[m] > 0 => f.at > a.recovered[m]
  <2> QED BY <1>1, <1>2 DEF IsLate
<1> DEFINE b == [a EXCEPT !.clock = f.rx]
<1>5. b \in Authorities /\ b.opened = a.opened /\ b.gap = a.gap
      /\ b.recovered = a.recovered /\ b.books = a.books /\ b.clock = f.rx
  <2>1. b = [opened |-> a.opened, clock |-> f.rx, gap |-> a.gap,
             recovered |-> a.recovered, deferred |-> a.deferred,
             books |-> a.books]
    BY <1>1
  <2> HIDE DEF b
  <2> QED BY <1>1, <1>2, <2>1 DEF Authorities
<1> HIDE DEF b
<1>6. ASSUME ~ IsLate(a, f), NEW kind \in {"market_mark", "source_clock"}
      PROVE  Follows(a, f, kind, b)
  BY <1>1, <1>2, <1>4, <1>5, <1>6 DEF Follows, FactRows
<1>7. CASE ~ IsLate(a, f) /\ f.kind # "book"
  <2>1. CASE f.kind = "mark" /\ a.recovered[m] > 0
    <3>1. Route(a, f) = Routed("market_mark", b)
      BY <1>7, <2>1 DEF Route, b
    <3> QED BY <1>5, <1>6, <1>7, <3>1 DEF FactRows
  <2>2. CASE ~ (f.kind = "mark" /\ a.recovered[m] > 0)
    <3>1. Route(a, f) = Routed("source_clock", b)
      BY <1>7, <2>2 DEF Route, b
    <3> QED BY <1>5, <1>6, <1>7, <3>1 DEF FactRows
  <2> QED BY <2>1, <2>2
<1>8. CASE ~ IsLate(a, f) /\ f.kind = "book"
  <2>1. Route(a, f) = RouteBook(a, f)
    BY <1>8 DEF Route
  <2>2. CASE a.books[m] >= f.at
    BY <2>1, <2>2 DEF RouteBook
  <2>3. CASE ~ (a.books[m] >= f.at) /\ f.rx - f.at > MaxAge
    BY <2>1, <2>3 DEF RouteBook
  <2>4. CASE ~ (a.books[m] >= f.at) /\ ~ (f.rx - f.at > MaxAge) /\ a.recovered[m] = 0
    <3> DEFINE d == [a EXCEPT !.clock = f.rx,
                              !.deferred[m] = IF @ = 0 THEN f.at ELSE @]
    <3>1. Route(a, f) = Routed("source_clock", d)
      BY <2>1, <2>4 DEF RouteBook
    <3>2. /\ d \in Authorities
          /\ d.opened = a.opened /\ d.gap = a.gap /\ d.recovered = a.recovered
          /\ d.books = a.books /\ d.clock = f.rx
      BY <1>2 DEF Authorities
    <3> HIDE DEF d
    <3>3. Follows(a, f, "source_clock", d)
      BY <1>1, <1>2, <1>4, <1>8, <3>2 DEF Follows, FactRows
    <3> QED BY <3>1, <3>2, <3>3 DEF FactRows
  <2>5. CASE ~ (a.books[m] >= f.at) /\ ~ (f.rx - f.at > MaxAge) /\ a.recovered[m] # 0
    <3> DEFINE d == [a EXCEPT !.clock = f.rx, !.books[m] = f.at]
    <3>1. Route(a, f) = Routed("executable_book", d)
      BY <2>1, <2>5 DEF RouteBook
    <3>2. /\ d \in Authorities
          /\ d.opened = a.opened /\ d.gap = a.gap /\ d.recovered = a.recovered
          /\ d.books = [a.books EXCEPT ![f.market] = f.at] /\ d.clock = f.rx
      BY <1>2 DEF Authorities
    <3> HIDE DEF d
    <3>3. a.recovered[m] > 0
      BY <1>1, <1>2, <2>5
    <3>4. Follows(a, f, "executable_book", d)
      BY <1>1, <1>2, <1>4, <1>8, <3>2, <3>3 DEF Follows, FactRows
    <3> QED BY <3>1, <3>2, <3>4 DEF FactRows
  <2> QED BY <1>8, <2>2, <2>3, <2>4, <2>5
<1> QED BY <1>3, <1>7, <1>8

(* The fields of a row. *)
LEMMA RowFields ==
  ASSUME NEW r \in Rows
  PROVE  /\ r.id \in FactIds \cup RecoveryIds
         /\ r.id.market \in Markets /\ r.id.at \in Nat
         /\ r.id.kind \in FactKinds \cup {"request", "recovered"}
         /\ r.kind \in FactRows \cup {"recovery_request", "market_recovered"}
         /\ r.generation \in Nat /\ r.time \in Nat /\ r.started \in Nat
         /\ r.opened \in Nat /\ r.clock \in Nat
         /\ (r.kind = "recovery_request") <=> (r.id.kind = "request")
         /\ (r.kind = "market_recovered") <=> (r.id.kind = "recovered")
         /\ r.id.kind \in FactKinds => r.generation = 0 /\ r.kind \in FactRows
         /\ r.kind = "executable_book" => r.id.at < r.clock
<1>1. \A id \in FactIds \cup RecoveryIds :
        /\ id.market \in Markets /\ id.at \in Nat
        /\ id.kind \in FactKinds \cup {"request", "recovered"}
  BY DEF FactIds, RecoveryIds
<1>2. /\ r.id \in FactIds \cup RecoveryIds
      /\ r.kind \in FactRows \cup {"recovery_request", "market_recovered"}
      /\ r.generation \in Nat /\ r.time \in Nat /\ r.started \in Nat
      /\ r.opened \in Nat /\ r.clock \in Nat
      /\ (r.kind = "recovery_request") <=> (r.id.kind = "request")
      /\ (r.kind = "market_recovered") <=> (r.id.kind = "recovered")
      /\ r.id.kind \in FactKinds => r.generation = 0
      /\ r.kind = "executable_book" => r.id.at < r.clock
  BY DEF Rows, FactRows
<1> QED BY <1>1, <1>2 DEF FactKinds, FactRows

(* The natural numbers are well ordered by the relation of <. *)
LEMMA NatsWellFounded ==
  \E R : /\ IsWellFoundedOn(R, Nat)
         /\ \A x, y \in Nat : <<y, x>> \in R <=> y < x
<1>1. \A x, y \in Nat : <<y, x>> \in OpToRel(<, Nat) <=> y < x
  BY DEF OpToRel
<1> QED BY <1>1, NatLessThanWellFounded

(* Induction over the natural numbers, for a set of them: what holds of no *)
(* row replayed, and of one more whenever it holds of some, holds of all.  *)
LEMMA SetInduction ==
  ASSUME NEW P \in SUBSET Nat, 0 \in P, \A n \in P : n + 1 \in P
  PROVE  P = Nat
<1> SUFFICES ASSUME Nat \ P # {} PROVE FALSE
  OBVIOUS
<1> DEFINE T == Nat \ P
<1>1. PICK R : /\ IsWellFoundedOn(R, Nat)
               /\ \A x, y \in Nat : <<y, x>> \in R <=> y < x
  BY NatsWellFounded
<1>2. T \subseteq Nat /\ T # {}
  OBVIOUS
<1>3. IsWellFoundedOn(R, Nat)
  BY <1>1
<1> HIDE DEF T
<1>4. \E x \in T : \A y \in T : ~ (<<y, x>> \in R)
  BY <1>2, <1>3, WFMin
<1>5. PICK x \in T : \A y \in T : ~ (<<y, x>> \in R)
  BY <1>4
<1>6. x \in Nat \ {0} /\ x \notin P
  BY DEF T
<1>7. x - 1 \in Nat /\ x - 1 < x /\ x = (x - 1) + 1
  BY <1>6
<1>8. x - 1 \notin P
  BY <1>6, <1>7
<1>9. x - 1 \in T
  BY <1>7, <1>8 DEF T
<1>10. <<x - 1, x>> \in R
  BY <1>1, <1>6, <1>7
<1> QED BY <1>5, <1>9, <1>10

(* What a replay starts with. *)
Blank(o) == [auth |-> NewAuthority(o), error |-> "none"]

(* s is the sequence of states the first n rows of q are replayed through. *)
Replays(s, o, q, n) ==
  s = [i \in 0 .. n |-> IF i = 0 THEN Blank(o) ELSE Replay(s[i - 1], q[i])]

(* The states a replay goes through exist, however long the journal is. *)
LEMMA ReplaySteps ==
  ASSUME NEW q, NEW o, NEW n \in Nat
  PROVE  \E s : Replays(s, o, q, n)
<1> DEFINE Def(s, k) == [i \in 0 .. k |->
                           IF i = 0 THEN Blank(o) ELSE Replay(s[i - 1], q[i])]
           P == {k \in Nat : \E s : s = Def(s, k)}
<1>1. 0 \in P
  <2> DEFINE s == [i \in 0 .. 0 |-> Blank(o)]
  <2>1. s = Def(s, 0)
    OBVIOUS
  <2> QED BY <2>1
<1>2. ASSUME NEW k \in P PROVE k + 1 \in P
  <2>1. PICK s : s = Def(s, k)
    OBVIOUS
  <2> DEFINE t == [i \in 0 .. k + 1 |->
                     IF i = k + 1 THEN Replay(s[k], q[k + 1]) ELSE s[i]]
  <2>2. ASSUME NEW i \in 0 .. k + 1
        PROVE  t[i] = IF i = 0 THEN Blank(o) ELSE Replay(t[i - 1], q[i])
    <3>1. k \in Nat
      OBVIOUS
    <3>2. CASE i = k + 1
      <4>1. i - 1 = k /\ k \in 0 .. k + 1 /\ k # k + 1
        BY <3>1, <3>2
      <4>2. t[i - 1] = s[k]
        BY <4>1
      <4>3. t[i] = Replay(s[k], q[k + 1]) /\ i # 0
        BY <3>1, <3>2
      <4> QED BY <3>2, <4>2, <4>3
    <3>3. CASE i # k + 1 /\ i # 0
      <4>1. i \in 0 .. k /\ i - 1 \in 0 .. k + 1 /\ i - 1 # k + 1
        BY <3>1, <3>3
      <4>2. t[i] = s[i] /\ t[i - 1] = s[i - 1]
        BY <4>1, <3>3
      <4>3. s[i] = Replay(s[i - 1], q[i])
        BY <2>1, <4>1, <3>3
      <4> QED BY <3>3, <4>2, <4>3
    <3>4. CASE i # k + 1 /\ i = 0
      BY <3>1, <3>4, <2>1
    <3> QED BY <3>2, <3>3, <3>4
  <2>3. t = Def(t, k + 1)
    BY <2>2
  <2>4. k + 1 \in Nat
    OBVIOUS
  <2> HIDE DEF t
  <2> QED BY <2>3, <2>4
<1>3. P = Nat
  <2>1. P \in SUBSET Nat
    OBVIOUS
  <2> HIDE DEF P
  <2> QED BY <2>1, <1>1, <1>2, SetInduction
<1> QED BY <1>3 DEF Replays

(* Rebuilt(o) is the last of the states the replay goes through. *)
LEMMA RebuiltIsLast ==
  ASSUME NEW o, Len(journal) \in Nat
  PROVE  \E s : Replays(s, o, journal, Len(journal)) /\ Rebuilt(o) = s[Len(journal)]
<1> DEFINE s == CHOOSE s : Replays(s, o, journal, Len(journal))
<1>1. \E t : Replays(t, o, journal, Len(journal))
  BY ReplaySteps
<1>2. Replays(s, o, journal, Len(journal))
  BY <1>1
<1>3. Rebuilt(o) = s[Len(journal)]
  BY DEF Rebuilt, Replays, Blank
<1> HIDE DEF s
<1> QED BY <1>2, <1>3

(* Why a replay stops. *)
Errors == {"parity", "missing_source", "non_monotonic_book", "stale",
           "generation_mismatch", "missing_snapshot", "snapshot_mismatch"}

ReplayStates == [auth : Authorities, error : Errors \cup {"none"}]

(* What a row of the journal makes of the books and of the boundaries. *)
Makes(row, a, b) ==
  \A m \in Markets :
    /\ row.id.market = m /\ row.kind = "executable_book" => b.books[m] = row.id.at
    /\ row.id.market = m /\ row.kind = "market_recovered" => b.books[m] = 0
    /\ ~ (row.id.market = m /\ row.kind \in BookKinds) => b.books[m] = a.books[m]
    /\ \/ b.recovered[m] = 0
       \/ /\ row.id.market = m /\ row.kind = "market_recovered"
          /\ b.recovered[m] = row.time
       \/ /\ ~ (row.id.market = m /\ row.kind \in FenceKinds)
          /\ b.recovered[m] = a.recovered[m]

(* The books and the boundaries of a are those the first n rows of q made. *)
Stands(q, n, a) ==
  \A m \in Markets : /\ IsBook(q, n, m, a.books[m])
                     /\ IsRecovered(q, n, m, a.recovered[m])

(* One more row: the books and the boundaries are again those the rows made. *)
LEMMA StandsStep ==
  ASSUME NEW q, NEW n \in Nat, NEW a, NEW b, Stands(q, n, a), Makes(q[n + 1], a, b)
  PROVE  Stands(q, n + 1, b)
<1> SUFFICES ASSUME NEW m \in Markets
             PROVE  /\ IsBook(q, n + 1, m, b.books[m])
                    /\ IsRecovered(q, n + 1, m, b.recovered[m])
  BY DEF Stands
<1> DEFINE row == q[n + 1]
<1>1. IsBook(q, n, m, a.books[m]) /\ IsRecovered(q, n, m, a.recovered[m])
  BY DEF Stands
<1>2. /\ row.id.market = m /\ row.kind = "executable_book" => b.books[m] = row.id.at
      /\ row.id.market = m /\ row.kind = "market_recovered" => b.books[m] = 0
      /\ ~ (row.id.market = m /\ row.kind \in BookKinds) => b.books[m] = a.books[m]
      /\ \/ b.recovered[m] = 0
         \/ /\ row.id.market = m /\ row.kind = "market_recovered"
            /\ b.recovered[m] = row.time
         \/ /\ ~ (row.id.market = m /\ row.kind \in FenceKinds)
            /\ b.recovered[m] = a.recovered[m]
  BY DEF Makes
<1>3. /\ Matches(q, n + 1, m, BookKinds) <=> (row.id.market = m /\ row.kind \in BookKinds)
      /\ Matches(q, n + 1, m, FenceKinds) <=> (row.id.market = m /\ row.kind \in FenceKinds)
  BY DEF Matches
<1> HIDE DEF row
<1>4. IsBook(q, n + 1, m, b.books[m])
  <2>1. CASE ~ Matches(q, n + 1, m, BookKinds)
    BY <1>1, <1>2, <1>3, <2>1, BookStep
  <2>2. CASE Matches(q, n + 1, m, BookKinds)
    <3>1. b.books[m] = IF row.kind = "executable_book" THEN row.id.at ELSE 0
      BY <1>2, <1>3, <2>2 DEF BookKinds
    <3>2. IsBook(q, n + 1, m, IF q[n + 1].kind = "executable_book"
                              THEN q[n + 1].id.at ELSE 0)
      BY <1>1, <2>2, BookStep
    <3> QED BY <3>1, <3>2 DEF row
  <2> QED BY <2>1, <2>2
<1>5. IsRecovered(q, n + 1, m, b.recovered[m])
  <2>1. CASE b.recovered[m] = 0
    BY <2>1 DEF IsRecovered
  <2>2. CASE row.id.market = m /\ row.kind = "market_recovered" /\ b.recovered[m] = row.time
    <3>1. Matches(q, n + 1, m, FenceKinds)
      BY <1>3, <2>2 DEF FenceKinds
    <3>2. IsRecovered(q, n + 1, m, q[n + 1].time)
      BY <1>1, <2>2, <3>1, RecoveredStep DEF row
    <3> QED BY <2>2, <3>2 DEF row
  <2>3. CASE ~ (row.id.market = m /\ row.kind \in FenceKinds) /\ b.recovered[m] = a.recovered[m]
    BY <1>1, <1>3, <2>3, RecoveredStep
  <2> QED BY <1>2, <2>1, <2>2, <2>3
<1> QED BY <1>4, <1>5

(* The row of a fact, and what the router made of it. *)
LEMMA FollowsMakes ==
  ASSUME NEW a \in Authorities, NEW f \in Facts, NEW b, NEW row,
         Follows(a, f, row.kind, b), row.id = Identity(f)
  PROVE  Makes(row, a, b)
<1> SUFFICES ASSUME NEW m \in Markets
    PROVE
    /\ row.id.market = m /\ row.kind = "executable_book" => b.books[m] = row.id.at
    /\ row.id.market = m /\ row.kind = "market_recovered" => b.books[m] = 0
    /\ ~ (row.id.market = m /\ row.kind \in BookKinds) => b.books[m] = a.books[m]
    /\ ~ (row.id.market = m /\ row.kind \in FenceKinds)
    /\ b.recovered[m] = a.recovered[m]
  BY DEF Makes
<1>1. row.id.market = f.market /\ row.id.at = f.at /\ f.market \in Markets
  BY FactFields DEF Identity
<1>2. a.books \in [Markets -> Nat]
  BY AuthorityFields
<1>3. row.kind \in FactRows /\ b.recovered = a.recovered
  BY DEF Follows
<1>4. row.kind = "executable_book" => b.books = [a.books EXCEPT ![f.market] = f.at]
  BY DEF Follows
<1>5. row.kind # "executable_book" => b.books = a.books
  BY DEF Follows
<1>6. CASE row.kind = "executable_book"
  BY <1>1, <1>2, <1>3, <1>4, <1>6 DEF BookKinds, FenceKinds
<1>7. CASE row.kind # "executable_book"
  BY <1>1, <1>3, <1>5, <1>7 DEF BookKinds, FenceKinds, FactRows
<1> QED BY <1>6, <1>7

(* The row of a recovery request. *)
LEMMA RequestMakes ==
  ASSUME NEW a \in Authorities, NEW b, NEW row,
         b.books = a.books,
         b.recovered \in [Markets -> Nat],
         \A m \in Markets : b.recovered[m] = IF m = row.id.market THEN 0
                                             ELSE a.recovered[m],
         row.kind = "recovery_request"
  PROVE  Makes(row, a, b)
  BY DEF Makes, BookKinds, FenceKinds

(* The row of a completed recovery. *)
LEMMA CompletedMakes ==
  ASSUME NEW a \in Authorities, NEW row, row.kind = "market_recovered",
         row.time \in Nat, row.id.market \in Markets
  PROVE  /\ Completed(a, row.id.market, row.time) \in Authorities
         /\ Makes(row, a, Completed(a, row.id.market, row.time))
<1> DEFINE m == row.id.market
           b == Completed(a, m, row.time)
<1>1. a.books \in [Markets -> Nat] /\ a.recovered \in [Markets -> Nat]
  BY AuthorityFields
<1>2. /\ b \in Authorities
      /\ b.books = [a.books EXCEPT ![m] = 0]
      /\ b.recovered = [a.recovered EXCEPT ![m] = row.time]
  BY DEF Completed, Authorities
<1> HIDE DEF b
<1>3. Makes(row, a, b)
  BY <1>1, <1>2 DEF Makes, BookKinds, FenceKinds
<1> QED BY <1>2, <1>3 DEF b

(* A replay that stops. *)
LEMMA StopFacts ==
  ASSUME NEW s \in ReplayStates, NEW e \in Errors
  PROVE  Stop(s, e) \in ReplayStates /\ Stop(s, e).error = e
  BY DEF ReplayStates, Stop

(* verify_historical_outcome passes exactly what reproduces the row. *)
LEMMA VerifiedFacts ==
  ASSUME NEW s \in ReplayStates, s.error = "none", NEW row, NEW kind,
         NEW a \in Authorities, NEW v, v = Verified(s, row, kind, a)
  PROVE  /\ v \in ReplayStates
         /\ v.error = "none" =>
              /\ v.auth = a /\ kind = row.kind
              /\ a.opened = row.opened /\ a.clock = row.clock
         /\ kind = row.kind /\ a.opened = row.opened /\ a.clock = row.clock =>
              v = [auth |-> a, error |-> "none"]
<1>1. CASE kind = row.kind /\ a.opened = row.opened /\ a.clock = row.clock
  <2>1. v = [s EXCEPT !.auth = a]
    BY <1>1 DEF Verified
  <2>2. v = [auth |-> a, error |-> "none"]
    BY <2>1 DEF ReplayStates
  <2>3. v \in ReplayStates /\ v.auth = a
    BY <2>2 DEF ReplayStates
  <2> QED BY <1>1, <2>2, <2>3
<1>2. CASE ~ (kind = row.kind /\ a.opened = row.opened /\ a.clock = row.clock)
  <2>1. v = Stop(s, "parity")
    BY <1>2 DEF Verified
  <2>2. v \in ReplayStates /\ v.error = "parity"
    BY <2>1, StopFacts DEF Errors
  <2> QED BY <1>2, <2>2
<1> QED BY <1>1, <1>2

(* What the replay of one row leaves: an error, or the row's own change. *)
Redone(s, row, v) ==
  /\ v \in ReplayStates
  /\ v.error = "none" =>
       /\ s.error = "none" /\ Makes(row, s.auth, v.auth)
       /\ v.auth.opened = row.opened /\ v.auth.clock = row.clock

(* A stopped replay claims nothing. *)
LEMMA StoppedRedone ==
  ASSUME NEW s \in ReplayStates, NEW e \in Errors, NEW row
  PROVE  Redone(s, row, Stop(s, e))
<1>1. Stop(s, e) \in ReplayStates /\ Stop(s, e).error = e
  BY StopFacts
<1>2. e # "none"
  BY DEF Errors
<1> QED BY <1>1, <1>2 DEF Redone

(* A verified row has made what a row of its kind makes. *)
LEMMA VerifiedRedone ==
  ASSUME NEW s \in ReplayStates, s.error = "none", NEW row, NEW kind,
         NEW a \in Authorities, kind = row.kind => Makes(row, s.auth, a)
  PROVE  Redone(s, row, Verified(s, row, kind, a))
<1> DEFINE v == Verified(s, row, kind, a)
<1>1. /\ v \in ReplayStates
      /\ v.error = "none" =>
              /\ v.auth = a /\ kind = row.kind
              /\ a.opened = row.opened /\ a.clock = row.clock
  BY VerifiedFacts
<1> HIDE DEF v
<1>2. Redone(s, row, v)
  BY <1>1 DEF Redone
<1> QED BY <1>2 DEF v

(* The replay of the row of a fact. *)
LEMMA SourceRedone ==
  ASSUME NEW s \in ReplayStates, s.error = "none", NEW row \in Rows,
         NEW f \in Facts, Identity(f) = row.id
  PROVE  Redone(s, row, ReplaySource(s, row, f))
<1> DEFINE a == s.auth
<1>1. a \in Authorities
  BY DEF ReplayStates
<1>2. CASE Route(a, f) = Unroutable("non_monotonic_book")
  <2>1. ReplaySource(s, row, f) = Stop(s, "non_monotonic_book")
    BY <1>2 DEF ReplaySource, Unroutable
  <2> QED BY <2>1, StoppedRedone DEF Errors
<1>3. CASE Route(a, f) = Unroutable("stale")
  <2>1. ReplaySource(s, row, f) = Stop(s, "stale")
    BY <1>3 DEF ReplaySource, Unroutable
  <2> QED BY <2>1, StoppedRedone DEF Errors
<1>4. ASSUME NEW kind \in FactRows, NEW b \in Authorities,
             Route(a, f) = Routed(kind, b), Follows(a, f, kind, b)
      PROVE  Redone(s, row, ReplaySource(s, row, f))
  <2>1. Routed(kind, b).kind = kind /\ Routed(kind, b).auth = b /\ kind # "error"
    BY DEF Routed, FactRows
  <2>2. ReplaySource(s, row, f) = Verified(s, row, kind, b)
    BY <1>4, <2>1 DEF ReplaySource
  <2>3. kind = row.kind => Makes(row, a, b)
    BY <1>1, <1>4, FollowsMakes
  <2> QED BY <2>2, <2>3, VerifiedRedone
<1> QED BY <1>1, <1>2, <1>3, <1>4, RouteFollows

(* The replay of the row of a request. *)
LEMMA RequestRedone ==
  ASSUME NEW s \in ReplayStates, s.error = "none", NEW row \in Rows,
         row.kind = "recovery_request"
  PROVE  Redone(s, row, ReplayRequest(s, row))
<1> DEFINE m == row.id.market
           a == s.auth
           b == [a EXCEPT !.gap[m] = row.generation, !.recovered[m] = 0,
                          !.clock = row.time]
<1>1. a \in Authorities /\ m \in Markets /\ row.generation \in Nat /\ row.time \in Nat
  BY RowFields DEF ReplayStates
<1>2. b \in Authorities /\ b.books = a.books
      /\ b.recovered = [a.recovered EXCEPT ![m] = 0]
  BY <1>1 DEF Authorities
<1>3. a.recovered \in [Markets -> Nat]
  BY <1>1, AuthorityFields
<1>4. \/ ReplayRequest(s, row) = Stop(s, "missing_snapshot")
      \/ ReplayRequest(s, row) = Stop(s, "snapshot_mismatch")
      \/ ReplayRequest(s, row) = Stop(s, "parity")
      \/ ReplayRequest(s, row) = Verified(s, row, "recovery_request", b)
  BY DEF ReplayRequest
<1> HIDE DEF b
<1>5. Makes(row, a, b)
  BY <1>1, <1>2, <1>3, RequestMakes
<1>6. Redone(s, row, Verified(s, row, "recovery_request", b))
  BY <1>2, <1>5, VerifiedRedone
<1> QED BY <1>4, <1>6, StoppedRedone DEF Errors

(* The replay of the row of a completed recovery. *)
LEMMA RecoveredRedone ==
  ASSUME NEW s \in ReplayStates, s.error = "none", NEW row \in Rows,
         row.kind = "market_recovered"
  PROVE  Redone(s, row, ReplayRecovered(s, row))
<1> DEFINE m == row.id.market
           a == s.auth
           b == Completed(a, m, row.time)
           r == [market |-> m, generation |-> row.generation, at |-> row.id.at]
<1>1. a \in Authorities /\ m \in Markets /\ row.generation \in Nat /\ row.time \in Nat
  BY RowFields DEF ReplayStates
<1>2. b \in Authorities /\ Makes(row, a, b)
  BY <1>1, CompletedMakes
<1>3. Refusal(a, r) \in {"generation_mismatch", "missing_snapshot",
                         "snapshot_mismatch", "none"}
  BY DEF Refusal
<1>4. \/ Refusal(a, r) # "none" /\ ReplayRecovered(s, row) = Stop(s, Refusal(a, r))
      \/ ReplayRecovered(s, row) = Verified(s, row, "market_recovered", b)
  BY DEF ReplayRecovered
<1> HIDE DEF b, r
<1>5. Redone(s, row, Verified(s, row, "market_recovered", b))
  BY <1>2, VerifiedRedone
<1>6. Refusal(a, r) # "none" => Refusal(a, r) \in Errors
  BY <1>3 DEF Errors
<1> QED BY <1>4, <1>5, <1>6, StoppedRedone

(* The replay of any row. *)
LEMMA ReplayRedone ==
  ASSUME NEW s \in ReplayStates, NEW row \in Rows, source \in SUBSET Facts
  PROVE  Redone(s, row, Replay(s, row))
<1> DEFINE facts == {f \in source : Identity(f) = row.id}
           f == CHOOSE f \in facts : TRUE
<1>1. CASE s.error # "none"
  <2>1. Replay(s, row) = s
    BY <1>1 DEF Replay
  <2> QED BY <1>1, <2>1 DEF Redone
<1>2. CASE s.error = "none" /\ facts # {}
  <2>1. Replay(s, row) = ReplaySource(s, row, f)
    BY <1>2 DEF Replay
  <2>2. f \in facts
    BY <1>2
  <2>3. f \in Facts /\ Identity(f) = row.id
    BY <2>2
  <2> HIDE DEF f
  <2> QED BY <1>2, <2>1, <2>3, SourceRedone
<1>3. CASE s.error = "none" /\ facts = {} /\ row.kind = "recovery_request"
  <2>1. Replay(s, row) = ReplayRequest(s, row)
    BY <1>3 DEF Replay
  <2> QED BY <1>3, <2>1, RequestRedone
<1>4. CASE s.error = "none" /\ facts = {} /\ row.kind = "market_recovered"
  <2>1. Replay(s, row) = ReplayRecovered(s, row)
    BY <1>4 DEF Replay
  <2> QED BY <1>4, <2>1, RecoveredRedone
<1>5. CASE s.error = "none" /\ facts = {} /\ row.kind \notin FenceKinds
  <2>1. Replay(s, row) = Stop(s, "missing_source")
    BY <1>5 DEF Replay, FenceKinds
  <2> QED BY <2>1, StoppedRedone DEF Errors
<1> QED BY <1>1, <1>2, <1>3, <1>4, <1>5 DEF FenceKinds

(* What a replay of the first i rows of q has made, unless it stopped: the      *)
(* books and the boundaries the rows made, and the opening and the clock of the *)
(* last of them.                                                                *)
Kept(q, i, t) ==
  /\ t \in ReplayStates
  /\ t.error = "none" =>
       /\ Stands(q, i, t.auth)
       /\ i > 0 => t.auth.opened = q[i].opened /\ t.auth.clock = q[i].clock

(* One more row replayed. *)
LEMMA KeptStep ==
  ASSUME NEW q, NEW i \in Nat, NEW t, Kept(q, i, t), q[i + 1] \in Rows,
         source \in SUBSET Facts
  PROVE  Kept(q, i + 1, Replay(t, q[i + 1]))
<1> DEFINE row == q[i + 1]
           v == Replay(t, row)
<1>1. t \in ReplayStates
  BY DEF Kept
<1>2. Redone(t, row, v)
  BY <1>1, ReplayRedone
<1> HIDE DEF v
<1>3. v \in ReplayStates
  BY <1>2 DEF Redone
<1>4. ASSUME v.error = "none"
      PROVE  /\ Stands(q, i + 1, v.auth)
             /\ v.auth.opened = row.opened /\ v.auth.clock = row.clock
  <2>1. t.error = "none" /\ Makes(row, t.auth, v.auth)
        /\ v.auth.opened = row.opened /\ v.auth.clock = row.clock
    BY <1>2, <1>4 DEF Redone
  <2>2. Stands(q, i, t.auth)
    BY <2>1 DEF Kept
  <2>3. Stands(q, i + 1, v.auth)
    BY <2>1, <2>2, StandsStep
  <2> QED BY <2>1, <2>3
<1>5. Kept(q, i + 1, v)
  BY <1>3, <1>4 DEF Kept
<1> QED BY <1>5 DEF v

(* No row replayed. *)
LEMMA BlankKept ==
  ASSUME NEW o \in Nat, NEW q
  PROVE  Kept(q, 0, Blank(o))
<1>1. Blank(o) \in ReplayStates
  BY NewAuthorityTyped DEF Blank, ReplayStates
<1>2. Blank(o).auth = NewAuthority(o)
  BY DEF Blank
<1>3. Stands(q, 0, NewAuthority(o))
  BY NewAuthorityTyped DEF Stands, IsBook, IsRecovered
<1> QED BY <1>1, <1>2, <1>3 DEF Kept

(* A replay that reaches the end has made the books and boundaries the journal *)
(* made, whatever opening it was tried with.                                   *)
LEMMA RebuiltKept ==
  ASSUME NEW o \in Nat, journal \in Seq(Rows), source \in SUBSET Facts
  PROVE  Kept(journal, Len(journal), Rebuilt(o))
<1> DEFINE n == Len(journal)
<1>1. n \in Nat /\ \A i \in 1 .. n : journal[i] \in Rows
  BY ElementOfSeq, LenProperties
<1>2. PICK s : Replays(s, o, journal, n) /\ Rebuilt(o) = s[n]
  BY <1>1, RebuiltIsLast
<1>3. s[0] = Blank(o) /\ \A i \in 1 .. n : s[i] = Replay(s[i - 1], journal[i])
  BY <1>1, <1>2 DEF Replays
<1> DEFINE P == {i \in Nat : i <= n => Kept(journal, i, s[i])}
<1>4. 0 \in P
  BY <1>3, BlankKept
<1>5. ASSUME NEW i \in P PROVE i + 1 \in P
  <2>1. i \in Nat /\ i + 1 \in Nat
    OBVIOUS
  <2>2. ASSUME i + 1 <= n PROVE Kept(journal, i + 1, s[i + 1])
    <3>1. i <= n /\ i + 1 \in 1 .. n /\ (i + 1) - 1 = i
      BY <1>1, <2>1, <2>2
    <3>2. Kept(journal, i, s[i])
      BY <3>1
    <3>3. s[i + 1] = Replay(s[i], journal[i + 1]) /\ journal[i + 1] \in Rows
      BY <1>1, <1>3, <3>1
    <3> QED BY <2>1, <3>2, <3>3, KeptStep
  <2> QED BY <2>1, <2>2
<1>6. P = Nat
  <2>1. P \in SUBSET Nat
    OBVIOUS
  <2> HIDE DEF P
  <2> QED BY <1>4, <1>5, <2>1, SetInduction
<1>7. Kept(journal, n, s[n])
  BY <1>1, <1>6
<1> QED BY <1>2, <1>7

(* So has the candidate that reconstruct_authority takes. *)
LEMMA ReconstructionKept ==
  ASSUME journal \in Seq(Rows), journal # <<>>, source \in SUBSET Facts,
         IsFiniteSet(source), Distinct(source), source # {}
  PROVE  Kept(journal, Len(journal), Reconstruction)
<1>1. journal[1] \in Rows
  BY ElementOfSeq, LenProperties
<1>2. Head(journal).started \in Nat
  BY <1>1, RowFields
<1> DEFINE q == InReplayOrder(source)
<1>3. /\ q \in Seq(Facts) /\ DOMAIN q = 1 .. Cardinality(source)
      /\ Cardinality(source) \in Nat /\ ToSet(q) = source
  BY ReplayOrder
<1>4. Cardinality(source) # 0
  BY FS_EmptySet
<1>5. 1 \in DOMAIN q
  BY <1>3, <1>4
<1> HIDE DEF q
<1>6. Head(q) = q[1] /\ q[1] \in Facts
  BY <1>3, <1>5, ElementOfSeq, LenProperties
<1>7. Head(q).at \in Nat
  BY <1>6, FactFields
<1>8. Candidates[1] \in Nat /\ Candidates[2] \in Nat
  BY <1>2, <1>7 DEF Candidates, Lesser, q
<1>9. Reconstruction = Rebuilt(Candidates[1]) \/ Reconstruction = Rebuilt(Candidates[2])
  BY DEF Reconstruction
<1> QED BY <1>8, <1>9, RebuiltKept

(* The journal with one more row. *)
LEMMA JournalGrows ==
  ASSUME journal \in Seq(Rows), NEW row \in Rows, journal' = Append(journal, row)
  PROVE  /\ Len(journal) \in Nat
         /\ DOMAIN journal = 1 .. Len(journal)
         /\ journal' \in Seq(Rows) /\ journal' # <<>>
         /\ Len(journal') = Len(journal) + 1
         /\ DOMAIN journal' = 1 .. Len(journal) + 1
         /\ \A i \in 1 .. Len(journal) : journal'[i] = journal[i]
         /\ journal'[Len(journal) + 1] = row
  BY AppendProperties, LenProperties

(* The places of the journal. *)
LEMMA JournalLength ==
  ASSUME journal \in Seq(Rows)
  PROVE  /\ Len(journal) \in Nat /\ DOMAIN journal = 1 .. Len(journal)
         /\ \A i \in DOMAIN journal : journal[i] \in Rows
         /\ journal = <<>> <=> Len(journal) = 0
         /\ journal # <<>> => Len(journal) \in DOMAIN journal
  BY LenProperties, ElementOfSeq, EmptySeq

(* One more row: the ledger lived and the authority stand behind it. *)
LEMMA CommitLived ==
  ASSUME Typed, LivedInv, AuthInv, NEW row \in Rows, NEW a \in Authorities,
         journal' = Append(journal, row), lived' = a, auth' = a,
         row.opened = a.opened, row.clock = a.clock,
         auth.clock <= a.clock, Makes(row, auth, a)
  PROVE  LivedInv' /\ AuthInv'
<1> DEFINE n == Len(journal)
<1>1. /\ n \in Nat /\ DOMAIN journal = 1 .. n
      /\ journal' \in Seq(Rows) /\ journal' # <<>>
      /\ Len(journal') = n + 1
      /\ DOMAIN journal' = 1 .. n + 1
      /\ \A i \in 1 .. n : journal'[i] = journal[i]
      /\ journal'[n + 1] = row
  BY JournalGrows DEF Typed
<1>2. Stands(journal, n, auth)
  BY DEF Stands, LivedInv, AuthInv
<1>3. Stands(journal', n, auth)
  <2>1. \A i \in 1 .. n : journal[i] = journal'[i]
    BY <1>1
  <2> QED BY <1>1, <1>2, <2>1, SameRows DEF Stands
<1>4. Stands(journal', n + 1, a)
  BY <1>1, <1>3, StandsStep
<1>5. \A i \in DOMAIN journal' : journal'[i].clock <= a.clock
  <2> SUFFICES ASSUME NEW i \in 1 .. n + 1 PROVE journal'[i].clock <= a.clock
    BY <1>1
  <2>1. CASE i = n + 1
    BY <1>1, <2>1, AuthorityFields
  <2>2. CASE i \in 1 .. n
    <3>1. journal # <<>>
      BY <1>1, <2>2, JournalLength DEF Typed
    <3>2. auth.clock = lived.clock /\ journal[i].clock <= lived.clock
      BY <1>1, <2>2, <3>1 DEF AuthInv, LivedInv
    <3>3. journal[i].clock \in Nat /\ auth.clock \in Nat /\ a.clock \in Nat
      BY <1>1, <2>2, JournalLength, RowFields, AuthorityFields DEF Typed
    <3> QED BY <1>1, <2>2, <3>2, <3>3
  <2> QED BY <1>1, <2>1, <2>2, IndexStep
<1>6. LivedInv'
  BY <1>1, <1>4, <1>5 DEF LivedInv, Stands
<1>7. AuthInv'
  BY <1>1, <1>4 DEF AuthInv, Stands
<1> QED BY <1>6, <1>7

(* The bounds and the capacity. *)
LEMMA BoundFacts ==
  /\ IsFiniteSet(Markets) /\ \A l \in Latencies : l \in Nat \ {0}
  /\ \A t \in FundingTimes : t \in Nat
  /\ Bar \in Nat \ {0} /\ MaxTime \in Nat /\ BatchCapacity \in Nat \ {0}
  BY JournalAssumption

(* Nowhere, as times of the markets. *)
LEMMA NowhereTyped ==
  Nowhere \in [Markets -> Nat] /\ \A m \in Markets : Nowhere[m] = 0
  BY DEF Nowhere

(* The inductive invariant holds of empty stores. *)
LEMMA InitInv == Init => IInv
<1> SUFFICES ASSUME Init PROVE IInv
  OBVIOUS
<1> USE DEF Init
<1>1. Typed
  <2>1. NewAuthority(0) \in Authorities
    BY NewAuthorityTyped
  <2> QED BY <2>1, NowhereTyped, FS_EmptySet, EmptySeq DEF Typed
<1>2. StoreInv
  BY DEF StoreInv
<1>3. LivedInv
  BY NewAuthorityTyped DEF LivedInv, IsBook
<1>4. UpInv /\ DownInv
  BY DEF UpInv, DownInv, Forgot
<1> QED BY <1>1, <1>2, <1>3, <1>4 DEF IInv

(* The stores and the ledger lived are not touched. *)
LEMMA StoresKept ==
  ASSUME StoreInv, LivedInv, UNCHANGED <<source, journal, lived>>
  PROVE  StoreInv' /\ LivedInv'
<1>1. StoreInv'
  BY DEF StoreInv
<1>2. LivedInv'
  BY DEF LivedInv
<1> QED BY <1>1, <1>2

(* The stores and the queue are not touched. *)
LEMMA QueueKept ==
  ASSUME QueueInv, UNCHANGED <<source, journal, unwritten, queue>>
  PROVE  QueueInv'
  BY DEF QueueInv, IsJournaled

(* The journal and the authority are not touched. *)
LEMMA AuthKept ==
  ASSUME AuthInv, UNCHANGED <<journal, lived, auth>>
  PROVE  AuthInv'
  BY DEF AuthInv

(* The end of a process keeps the invariant: the stores held all of it. *)
LEMMA CrashInv ==
  ASSUME IInv, Crash
  PROVE  IInv'
<1>0. NewAuthority(0) \in Authorities
  BY NewAuthorityTyped
<1> USE DEF Crash, Forgotten, IInv, stores
<1>1. Typed'
  BY <1>0, NowhereTyped, EmptySeq DEF Typed
<1>2. StoreInv' /\ LivedInv'
  BY StoresKept
<1>3. UpInv' /\ DownInv'
  BY DEF UpInv, DownInv, Forgot
<1> QED BY <1>1, <1>2, <1>3

(* The buffer with the received fact behind it. *)
LEMMA ReceiveTyped ==
  ASSUME Typed, NEW f \in Facts, Receive(f)
  PROVE  buffer' \in Seq(Facts) /\ now' \in Nat
  BY FactFields, AppendProperties DEF Receive, Typed

(* A received trade, buffered, keeps the invariant. *)
LEMMA ReceiveTradeInv ==
  ASSUME IInv, NEW m \in Markets, ReceiveTrade(m)
  PROVE  IInv'
<1> DEFINE f == Fact("trade", m, now + 1, now + 1)
<1>1. f \in Facts
  BY DEF Fact, Facts, FactKinds, IInv, Typed
<1>2. Receive(f) /\ UNCHANGED <<pending, last, asked>>
  BY DEF ReceiveTrade
<1> HIDE DEF f
<1>3. buffer' \in Seq(Facts) /\ now' \in Nat
  BY <1>1, <1>2, ReceiveTyped DEF IInv
<1>4. /\ UNCHANGED <<stores, process, auth, rolling, unwritten, queue, generation,
                     requests, history, pending, last, asked>>
      /\ status = "up"
  BY <1>2 DEF Receive, Ready, Idle
<1> USE DEF stores, process, history
<1>5. Typed'
  BY <1>3, <1>4 DEF IInv, Typed
<1>6. StoreInv' /\ LivedInv'
  BY <1>4, StoresKept DEF IInv
<1>7. QueueInv' /\ AuthInv'
  BY <1>4, QueueKept, AuthKept DEF IInv, UpInv
<1>8. FenceInv'
  BY <1>4 DEF IInv, UpInv, FenceInv
<1>9. DownInv'
  BY <1>4 DEF DownInv
<1> QED BY <1>5, <1>6, <1>7, <1>8, <1>9 DEF IInv, UpInv

(* A received book, and the request of its market's pending gap, keep the *)
(* invariant.                                                             *)
LEMMA ReceiveBookInv ==
  ASSUME IInv, NEW m \in Markets, NEW latency \in Latencies, ReceiveBook(m, latency)
  PROVE  IInv'
<1> DEFINE rx == now + 1
           at == rx - latency
           f == Fact("book", m, at, rx)
           r == [market |-> m, generation |-> pending[m], at |-> at, rx |-> rx]
<1>1. /\ at > last[m] /\ last' = [last EXCEPT ![m] = at]
      /\ asked' = IF pending[m] = 0 THEN <<>> ELSE <<r>>
      /\ pending' = [pending EXCEPT ![m] = 0]
      /\ Receive(f)
  BY DEF ReceiveBook
<1>2. /\ UNCHANGED <<stores, process, auth, rolling, unwritten, queue, generation,
                     requests, history>>
      /\ status = "up" /\ asked = <<>>
  BY <1>1 DEF Receive, Ready, Idle
<1>3. rx \in Nat /\ at \in Nat /\ 0 < at /\ at < rx
  BY <1>1, BoundFacts DEF IInv, Typed
<1> HIDE DEF at, rx
<1>4. f \in Facts
  BY <1>3 DEF Fact, Facts, FactKinds
<1> HIDE DEF f
<1>5. buffer' \in Seq(Facts) /\ now' \in Nat
  BY <1>1, <1>4, ReceiveTyped DEF IInv
<1> USE DEF stores, process, history
<1>6. pending[m] \in Nat /\ (pending[m] # 0 => r \in Asks)
  BY <1>3 DEF IInv, Typed, Asks
<1>7. /\ last' \in [Markets -> Nat] /\ pending' \in [Markets -> Nat]
      /\ asked' = <<>> \/ (asked' \in Seq(Asks) /\ Len(asked') = 1)
  BY <1>1, <1>3, <1>6 DEF IInv, Typed
<1>8. Typed'
  BY <1>2, <1>5, <1>7 DEF IInv, Typed
<1>9. StoreInv' /\ LivedInv'
  BY <1>2, StoresKept DEF IInv
<1>10. QueueInv' /\ AuthInv'
  BY <1>2, QueueKept, AuthKept DEF IInv, UpInv
<1>11. FenceInv'
  <2>1. FenceInv
    BY <1>2 DEF IInv, UpInv
  <2>2. pending' = [pending EXCEPT ![m] = 0] /\ pending \in [Markets -> Nat]
    BY <1>1 DEF IInv, Typed
  <2>3. \A n \in Markets : pending'[n] # 0 => pending[n] = pending'[n]
    BY <2>2
  <2>4. ASSUME asked' # <<>>
        PROVE  asked' = <<r>> /\ pending[m] # 0
    BY <1>1, <2>4
  <2>5. ASSUME asked' # <<>>
        PROVE  /\ asked'[1].market = m /\ asked'[1].generation = pending[m]
               /\ pending'[m] = 0
    BY <2>2, <2>4, <2>5
  <2>6. /\ pending[m] # 0 =>
            /\ auth.gap[m] = pending[m] /\ auth.recovered[m] = 0
            /\ pending[m] <= generation
            /\ \A q \in requests : q.market = m => q.generation # pending[m]
        /\ \A q \in requests : q.generation <= generation
    BY <2>1 DEF FenceInv
  <2>7. /\ \A n \in Markets :
            pending'[n] # 0 =>
              /\ auth'.gap[n] = pending'[n] /\ auth'.recovered[n] = 0
              /\ pending'[n] <= generation'
              /\ \A q \in requests' : q.market = n => q.generation # pending'[n]
    BY <1>2, <2>1, <2>3 DEF FenceInv
  <2>8. asked' # <<>> =>
          /\ pending'[asked'[1].market] = 0 /\ asked'[1].generation <= generation'
          /\ auth'.gap[asked'[1].market] = asked'[1].generation
          /\ auth'.recovered[asked'[1].market] = 0
          /\ \A q \in requests' : q.market = asked'[1].market =>
                                    q.generation # asked'[1].generation
    BY <1>2, <2>4, <2>5, <2>6
  <2> QED BY <1>2, <2>6, <2>7, <2>8 DEF FenceInv
<1>12. DownInv'
  BY <1>2 DEF DownInv
<1> QED BY <1>2, <1>8, <1>9, <1>10, <1>11, <1>12 DEF IInv, UpInv

(* emit_gaps and open_gap keep the invariant: a new gap has a new number. *)
LEMMA DisconnectInv ==
  ASSUME IInv, Disconnect
  PROVE  IInv'
<1> DEFINE opened == {m \in Markets : pending[m] = 0}
           g == generation + 1
<1>1. /\ status = "up" /\ asked = <<>>
      /\ generation' = g
      /\ pending' = [m \in Markets |-> IF m \in opened THEN g ELSE pending[m]]
      /\ auth' = GapsOpened(auth, opened, g)
      /\ last' = Nowhere
      /\ UNCHANGED <<now, stores, process, rolling, batch, asked, requests,
                     lived, fenced, settled>>
  BY DEF Disconnect, Ready, Idle
<1> USE DEF stores, process, batch
<1>2. /\ auth \in Authorities /\ generation \in Nat /\ g \in Nat
      /\ pending \in [Markets -> Nat]
  BY DEF IInv, Typed
<1>3. /\ auth' \in Authorities
      /\ auth'.opened = auth.opened /\ auth'.clock = auth.clock
      /\ auth'.books = auth.books
      /\ auth'.gap = [m \in Markets |-> IF m \in opened THEN g ELSE auth.gap[m]]
      /\ auth'.recovered = [m \in Markets |-> IF m \in opened THEN 0 ELSE auth.recovered[m]]
  <2> HIDE DEF opened
  <2> QED BY <1>1, <1>2 DEF GapsOpened, Authorities
<1>4. pending' \in [Markets -> Nat]
  BY <1>1, <1>2
<1>5. Typed'
  BY <1>1, <1>2, <1>3, <1>4, NowhereTyped DEF IInv, Typed
<1>6. StoreInv' /\ LivedInv'
  BY <1>1, StoresKept DEF IInv
<1>7. QueueInv'
  BY <1>1, QueueKept DEF IInv, UpInv
<1>8. AuthInv'
  <2>1. AuthInv
    BY <1>1 DEF IInv, UpInv
  <2>2. ASSUME NEW m \in Markets
        PROVE  IsRecovered(journal, Len(journal), m, auth'.recovered[m])
    <3>1. auth'.recovered[m] = 0 \/ auth'.recovered[m] = auth.recovered[m]
      BY <1>3
    <3>2. IsRecovered(journal, Len(journal), m, auth.recovered[m])
      BY <2>1 DEF AuthInv
    <3> QED BY <3>1, <3>2 DEF IsRecovered
  <2> QED BY <1>1, <1>3, <2>1, <2>2 DEF AuthInv
<1>9. FenceInv'
  <2>1. FenceInv
    BY <1>1 DEF IInv, UpInv
  <2>2. \A r \in requests : r.generation <= generation /\ r.generation \in Nat
    BY <2>1 DEF FenceInv, IInv, Typed, Asks
  <2>3. ASSUME NEW m \in Markets, pending'[m] # 0
        PROVE  /\ auth'.gap[m] = pending'[m] /\ auth'.recovered[m] = 0
               /\ pending'[m] <= generation'
               /\ \A r \in requests : r.market = m => r.generation # pending'[m]
    <3>1. CASE m \in opened
      BY <1>1, <1>2, <1>3, <2>2, <3>1
    <3>2. CASE m \notin opened
      <4>1. pending'[m] = pending[m] /\ auth'.gap[m] = auth.gap[m]
            /\ auth'.recovered[m] = auth.recovered[m] /\ pending[m] # 0
        BY <1>1, <1>3, <3>2
      <4>2. /\ auth.gap[m] = pending[m] /\ auth.recovered[m] = 0
            /\ pending[m] <= generation
            /\ \A r \in requests : r.market = m => r.generation # pending[m]
        BY <2>1, <4>1 DEF FenceInv
      <4> QED BY <1>1, <1>2, <4>1, <4>2
    <3> QED BY <3>1, <3>2
  <2>4. \A r \in requests : r.generation <= generation'
    BY <1>1, <1>2, <2>2
  <2> QED BY <1>1, <2>3, <2>4 DEF FenceInv
<1>10. DownInv'
  BY <1>1 DEF DownInv
<1> QED BY <1>5, <1>6, <1>7, <1>8, <1>9, <1>10 DEF IInv, UpInv

(* A recovery without evidence keeps the invariant: the market stays fenced. *)
LEMMA UnavailableInv ==
  ASSUME IInv, NEW r \in requests, Unavailable(r)
  PROVE  IInv'
<1> DEFINE m == r.market
<1>1. /\ status = "up"
      /\ requests' = requests \ {r}
      /\ auth' = [auth EXCEPT !.recovered[m] = 0, !.deferred[m] = 0]
      /\ UNCHANGED <<now, stores, process, rolling, batch, client, history>>
  BY DEF Unavailable, Ready, Idle
<1> USE DEF stores, process, batch, client, history
<1>2. auth \in Authorities /\ m \in Markets /\ auth.recovered \in [Markets -> Nat]
  BY AuthorityFields DEF IInv, Typed, Asks
<1>3. /\ auth' \in Authorities
      /\ auth'.opened = auth.opened /\ auth'.clock = auth.clock
      /\ auth'.books = auth.books /\ auth'.gap = auth.gap
      /\ auth'.recovered = [auth.recovered EXCEPT ![m] = 0]
  BY <1>1, <1>2 DEF Authorities
<1>4. \A n \in Markets : auth'.recovered[n] = 0 \/ auth'.recovered[n] = auth.recovered[n]
  BY <1>2, <1>3
<1>5. Typed'
  BY <1>1, <1>3 DEF IInv, Typed
<1>6. StoreInv' /\ LivedInv'
  BY <1>1, StoresKept DEF IInv
<1>7. QueueInv'
  BY <1>1, QueueKept DEF IInv, UpInv
<1>8. AuthInv'
  <2>1. AuthInv
    BY <1>1 DEF IInv, UpInv
  <2>2. ASSUME NEW n \in Markets
        PROVE  IsRecovered(journal, Len(journal), n, auth'.recovered[n])
    <3>2. IsRecovered(journal, Len(journal), n, auth.recovered[n])
      BY <2>1 DEF AuthInv
    <3> QED BY <1>4, <3>2 DEF IsRecovered
  <2> QED BY <1>1, <1>3, <2>1, <2>2 DEF AuthInv
<1>9. FenceInv'
  <2>1. FenceInv
    BY <1>1 DEF IInv, UpInv
  <2>2. \A n \in Markets : auth.recovered[n] = 0 => auth'.recovered[n] = 0
    BY <1>4
  <2>3. asked # <<>> => asked[1].market \in Markets
    <3>1. asked # <<>> => asked \in Seq(Asks) /\ Len(asked) = 1
      BY DEF IInv, Typed
    <3>2. asked # <<>> => asked[1] \in Asks
      BY <3>1, ElementOfSeq
    <3> QED BY <3>2 DEF Asks
  <2> QED BY <1>1, <1>3, <2>1, <2>2, <2>3 DEF FenceInv
<1>10. DownInv'
  BY <1>1 DEF DownInv
<1> QED BY <1>5, <1>6, <1>7, <1>8, <1>9, <1>10 DEF IInv, UpInv

(* A row that is not a fact's: the stores and the queue stay as they were. *)
LEMMA RecoveryRow ==
  ASSUME IInv, status = "up", NEW row \in Rows, row.id.kind \notin FactKinds,
         journal' = Append(journal, row), UNCHANGED <<source, unwritten, queue>>
  PROVE  StoreInv' /\ QueueInv'
<1> DEFINE n == Len(journal)
<1>1. /\ n \in Nat /\ DOMAIN journal = 1 .. n
      /\ DOMAIN journal' = 1 .. n + 1
      /\ \A i \in 1 .. n : journal'[i] = journal[i]
      /\ journal'[n + 1] = row
  BY JournalGrows DEF IInv, Typed
<1>2. \A f \in Facts : Identity(f).kind \in FactKinds
  BY FactFields DEF Identity
<1>3. StoreInv'
  BY <1>1, IndexStep DEF IInv, StoreInv
<1>4. \A f \in Facts : IsJournaled(Identity(f))' <=> IsJournaled(Identity(f))
  BY <1>1, <1>2, IndexStep DEF IsJournaled
<1>5. QueueInv /\ source \in SUBSET Facts /\ queue \in Seq(Facts)
  BY DEF IInv, UpInv, Typed
<1>6. \A i \in DOMAIN queue : queue[i] \in Facts
  BY <1>5, ElementOfSeq, LenProperties
<1>7. QueueInv'
  BY <1>4, <1>5, <1>6 DEF QueueInv
<1> QED BY <1>3, <1>7

(* An error ends the process where it stands. *)
LEMMA FailedInv ==
  ASSUME Typed', StoreInv, LivedInv, UNCHANGED <<source, journal, lived>>,
         status' # "up", status' # "down"
  PROVE  IInv'
  BY StoresKept DEF IInv, UpInv, DownInv

(* The fields of the request under way. *)
LEMMA AskedFacts ==
  ASSUME Typed, asked # <<>>
  PROVE  /\ asked[1] \in Asks
         /\ asked[1].market \in Markets /\ asked[1].generation \in Nat \ {0}
         /\ asked[1].at \in Nat /\ asked[1].rx \in Nat
<1>1. asked \in Seq(Asks) /\ Len(asked) = 1
  BY DEF Typed
<1>2. asked[1] \in Asks
  BY <1>1, ElementOfSeq
<1> QED BY <1>2 DEF Asks

(* restore of a recovery request keeps the invariant: its market is fenced. *)
LEMMA ReceiveRequestInv ==
  ASSUME IInv, ReceiveRequest
  PROVE  IInv'
<1> DEFINE r == asked[1]
           m == r.market
           a == [auth EXCEPT !.clock = r.rx]
           row == Row(RequestId(r), "recovery_request", r.generation, r.rx, a)
<1>1. /\ status = "up" /\ asked # <<>> /\ asked' = <<>>
      /\ requests' = requests \cup {r}
      /\ UNCHANGED <<now, source, starts, started, historical, rolling, batch,
                     generation, pending, last, fenced, plain, settled>>
  BY DEF ReceiveRequest, Ready, Idle
<1>2. \/ Fail("event_conflict") \/ Fail("backward_time")
      \/ /\ r.rx >= auth.clock
         /\ Commit(RequestId(r), "recovery_request", r.generation, r.rx, a)
  <2>1. r.rx \in Nat /\ auth.clock \in Nat
    BY <1>1, AskedFacts, AuthorityFields DEF IInv, Typed
  <2> QED BY <2>1 DEF ReceiveRequest
<1> USE DEF batch
<1>3. /\ r \in Asks /\ m \in Markets /\ r.generation \in Nat \ {0}
      /\ r.at \in Nat /\ r.rx \in Nat
  BY <1>1, AskedFacts DEF IInv
<1>4. auth \in Authorities
  BY DEF IInv, Typed
<1>5. CASE Fail("event_conflict") \/ Fail("backward_time")
  <2>1. /\ status' \in {"event_conflict", "backward_time"}
        /\ UNCHANGED <<journal, auth, lived>>
    BY <1>5 DEF Fail
  <2>2. Typed'
    BY <1>1, <1>3, <2>1 DEF IInv, Typed
  <2> QED BY <1>1, <2>1, <2>2, FailedInv DEF IInv
<1>6. CASE /\ r.rx >= auth.clock
           /\ Commit(RequestId(r), "recovery_request", r.generation, r.rx, a)
  <2>1. /\ journal' = Append(journal, row)
        /\ auth' = a /\ lived' = a /\ status' = status
    BY <1>6 DEF Commit
  <2>2. /\ a \in Authorities
        /\ a.opened = auth.opened /\ a.clock = r.rx /\ a.books = auth.books
        /\ a.gap = auth.gap /\ a.recovered = auth.recovered
    BY <1>3, <1>4 DEF Authorities
  <2>3. started \in Nat /\ FenceInv /\ AuthInv
    BY <1>1 DEF IInv, UpInv, Typed
  <2> HIDE DEF a, r
  <2>4. /\ row.id = [kind |-> "request", market |-> m, at |-> r.at]
        /\ row.kind = "recovery_request" /\ row.generation = r.generation
        /\ row.time = r.rx /\ row.started = started
        /\ row.opened = a.opened /\ row.clock = a.clock
    BY DEF Row, RequestId
  <2>5. row.id \in RecoveryIds /\ row.id.kind = "request" /\ row.id.market = m
    BY <1>3, <2>4 DEF RecoveryIds
  <2>6. row \in Rows
    <3>1. a.opened \in Nat /\ a.clock \in Nat
      BY <2>2, AuthorityFields
    <3>2. row = [id |-> row.id, kind |-> "recovery_request",
                 generation |-> r.generation, time |-> r.rx,
                 started |-> started, opened |-> a.opened, clock |-> a.clock]
      BY DEF Row
    <3> HIDE DEF row
    <3> QED BY <1>3, <2>3, <2>4, <2>5, <3>1, <3>2 DEF Rows, FactKinds
  <2> HIDE DEF row
  <2>7. auth.recovered[m] = 0
    BY <1>1, <2>3 DEF FenceInv, r
  <2>8. Makes(row, auth, a)
    <3>1. a.recovered \in [Markets -> Nat]
      BY <2>2, AuthorityFields
    <3>2. \A n \in Markets : a.recovered[n] = IF n = row.id.market THEN 0
                                              ELSE auth.recovered[n]
      BY <2>2, <2>5, <2>7
    <3> QED BY <1>4, <2>2, <2>4, <3>1, <3>2, RequestMakes
  <2>9. auth.clock <= a.clock
    BY <1>6, <2>2, <1>3, <1>4, AuthorityFields
  <2>10. LivedInv' /\ AuthInv'
    BY <2>1, <2>2, <2>3, <2>4, <2>6, <2>8, <2>9, CommitLived DEF IInv
  <2>11. row.id.kind \notin FactKinds
    BY <2>5 DEF FactKinds
  <2>12. StoreInv' /\ QueueInv'
    BY <1>1, <2>1, <2>6, <2>11, RecoveryRow
  <2>13. FenceInv'
    <3>1. pending[m] = 0 /\ r.generation <= generation
      BY <1>1, <2>3 DEF FenceInv, r
    <3> QED BY <1>1, <2>1, <2>2, <2>3, <3>1 DEF FenceInv
  <2>14. Typed'
    <3>1. journal' \in Seq(Rows)
      BY <2>1, <2>6, JournalGrows DEF IInv, Typed
    <3> QED BY <1>1, <1>3, <2>1, <2>2, <3>1 DEF IInv, Typed
  <2> QED BY <1>1, <2>1, <2>10, <2>12, <2>13, <2>14 DEF IInv, UpInv, DownInv
<1> QED BY <1>2, <1>5, <1>6

(* The candle boundary behind a snapshot is a time. *)
LEMMA BoundaryTyped ==
  ASSUME NEW at \in Nat
  PROVE  NextBoundary(at) \in Nat
<1>1. Bar \in Nat \ {0}
  BY BoundFacts
<1> DEFINE x == at + Bar - 1
<1>2. x \in Nat
  BY <1>1
<1> HIDE DEF x
<1>3. x \div Bar \in Nat
  BY <1>1, <1>2
<1> DEFINE y == x \div Bar
<1> HIDE DEF y
<1>4. y * Bar \in Nat
  BY <1>1, <1>3 DEF y
<1> QED BY <1>4 DEF NextBoundary, x, y

(* complete_recovery keeps the invariant: the boundary of the market is the one *)
(* of its last fence row.                                                       *)
LEMMA AnswerInv ==
  ASSUME IInv, NEW r \in requests, Answer(r)
  PROVE  IInv'
<1> DEFINE m == r.market
           boundary == NextBoundary(r.at)
           a == Completed(auth, m, boundary)
           row == Row(RecoveredId(r), "market_recovered", r.generation, boundary, a)
<1>1. /\ status = "up" /\ requests' = requests \ {r}
      /\ UNCHANGED <<now, source, starts, started, historical, rolling, batch,
                     client, fenced, plain, settled>>
  BY DEF Answer, Ready, Idle
<1>2. \/ Refusal(auth, r) # "none" /\ Fail(Refusal(auth, r))
      \/ Fail("event_conflict")
      \/ /\ Refusal(auth, r) = "none"
         /\ Commit(RecoveredId(r), "market_recovered", r.generation, boundary, a)
  BY DEF Answer
<1> USE DEF batch, client
<1>3. /\ m \in Markets /\ r.generation \in Nat \ {0}
      /\ r.at \in Nat /\ r.rx \in Nat
  BY DEF IInv, Typed, Asks
<1>4. auth \in Authorities /\ boundary \in Nat
  BY <1>3, BoundaryTyped DEF IInv, Typed
<1> HIDE DEF boundary
<1>5. CASE (Refusal(auth, r) # "none" /\ Fail(Refusal(auth, r))) \/ Fail("event_conflict")
  <2>1. Refusal(auth, r) \in {"generation_mismatch", "missing_snapshot",
                              "snapshot_mismatch", "none"}
    BY DEF Refusal
  <2>2. /\ status' \in {"event_conflict", "generation_mismatch", "missing_snapshot",
                        "snapshot_mismatch"}
        /\ UNCHANGED <<journal, auth, lived>>
    BY <1>5, <2>1 DEF Fail
  <2>3. Typed'
    BY <1>1, <2>2 DEF IInv, Typed
  <2> QED BY <1>1, <2>2, <2>3, FailedInv DEF IInv
<1>6. CASE /\ Refusal(auth, r) = "none"
           /\ Commit(RecoveredId(r), "market_recovered", r.generation, boundary, a)
  <2>1. /\ journal' = Append(journal, row)
        /\ auth' = a /\ lived' = a /\ status' = status
    BY <1>6 DEF Commit
  <2>2. auth.gap[m] = r.generation
    BY <1>6 DEF Refusal
  <2>3. started \in Nat /\ FenceInv /\ AuthInv
    BY <1>1 DEF IInv, UpInv, Typed
  <2>4. /\ a \in Authorities
        /\ a.opened = auth.opened /\ a.clock = auth.clock
        /\ a.gap = [auth.gap EXCEPT ![m] = 0]
        /\ a.recovered = [auth.recovered EXCEPT ![m] = boundary]
    BY <1>3, <1>4 DEF Completed, Authorities
  <2>5. /\ row.id = [kind |-> "recovered", market |-> m, at |-> r.at]
        /\ row.kind = "market_recovered" /\ row.generation = r.generation
        /\ row.time = boundary /\ row.started = started
        /\ row.opened = a.opened /\ row.clock = a.clock
    BY DEF Row, RecoveredId
  <2>6. row.id \in RecoveryIds /\ row.id.kind = "recovered" /\ row.id.market = m
    BY <1>3, <2>5 DEF RecoveryIds
  <2>7. row \in Rows
    <3>1. a.opened \in Nat /\ a.clock \in Nat
      BY <2>4, AuthorityFields
    <3>2. row = [id |-> row.id, kind |-> "market_recovered",
                 generation |-> r.generation, time |-> boundary,
                 started |-> started, opened |-> a.opened, clock |-> a.clock]
      BY DEF Row
    <3> HIDE DEF row, a
    <3> QED BY <1>3, <1>4, <2>3, <2>5, <2>6, <3>1, <3>2 DEF Rows, FactKinds
  <2> HIDE DEF row
  <2>8. Makes(row, auth, a)
    BY <1>3, <1>4, <2>5, <2>6, CompletedMakes
  <2> HIDE DEF a
  <2>9. auth.clock <= a.clock
    BY <1>4, <2>4, AuthorityFields
  <2>10. LivedInv' /\ AuthInv'
    BY <2>1, <2>3, <2>4, <2>5, <2>7, <2>8, <2>9, CommitLived DEF IInv
  <2>11. row.id.kind \notin FactKinds
    BY <2>6 DEF FactKinds
  <2>12. StoreInv' /\ QueueInv'
    BY <1>1, <2>1, <2>7, <2>11, RecoveryRow
  <2>13. FenceInv'
    <3>1. pending[m] = 0
      BY <1>3, <2>2, <2>3 DEF FenceInv
    <3>2. asked # <<>> => asked[1].market # m
      BY <2>2, <2>3 DEF FenceInv
    <3>3. auth.gap \in [Markets -> Nat] /\ auth.recovered \in [Markets -> Nat]
      BY <1>4, AuthorityFields
    <3>4. \A n \in Markets : n # m => /\ auth'.gap[n] = auth.gap[n]
                                      /\ auth'.recovered[n] = auth.recovered[n]
      BY <2>1, <2>4, <3>3
    <3>5. asked # <<>> => asked[1].market \in Markets
      BY AskedFacts DEF IInv
    <3> QED BY <1>1, <2>3, <3>1, <3>2, <3>4, <3>5 DEF FenceInv
  <2>14. Typed'
    <3>1. journal' \in Seq(Rows)
      BY <2>1, <2>7, JournalGrows DEF IInv, Typed
    <3> QED BY <1>1, <1>3, <2>1, <2>4, <3>1 DEF IInv, Typed
  <2> QED BY <1>1, <2>1, <2>10, <2>12, <2>13, <2>14 DEF IInv, UpInv, DownInv
<1> QED BY <1>2, <1>5, <1>6

(* One more fact of a batch sifted. *)
Sift(q, f) == IF Identity(f) \in historical THEN q ELSE Append(q, f)

(* k is the sequence of what is left of q behind each of its first n facts. *)
Sifts(k, q, n) ==
  k = [i \in 0 .. n |-> IF i = 0 THEN <<>> ELSE Sift(k[i - 1], q[i])]

(* The sequences a batch is sifted through exist, however long it is. *)
LEMMA SiftSteps ==
  ASSUME NEW q, NEW n \in Nat
  PROVE  \E k : Sifts(k, q, n)
<1> DEFINE Def(k, j) == [i \in 0 .. j |->
                           IF i = 0 THEN <<>> ELSE Sift(k[i - 1], q[i])]
           P == {j \in Nat : \E k : k = Def(k, j)}
<1>1. 0 \in P
  <2> DEFINE k == [i \in 0 .. 0 |-> <<>>]
  <2>1. k = Def(k, 0)
    OBVIOUS
  <2> QED BY <2>1
<1>2. ASSUME NEW j \in P PROVE j + 1 \in P
  <2>1. PICK k : k = Def(k, j)
    OBVIOUS
  <2> DEFINE t == [i \in 0 .. j + 1 |->
                     IF i = j + 1 THEN Sift(k[j], q[j + 1]) ELSE k[i]]
  <2>2. ASSUME NEW i \in 0 .. j + 1
        PROVE  t[i] = IF i = 0 THEN <<>> ELSE Sift(t[i - 1], q[i])
    <3>1. j \in Nat
      OBVIOUS
    <3>2. CASE i = j + 1
      <4>1. i - 1 = j /\ j \in 0 .. j + 1 /\ j # j + 1
        BY <3>1, <3>2
      <4>2. t[i - 1] = k[j]
        BY <4>1
      <4>3. t[i] = Sift(k[j], q[j + 1]) /\ i # 0
        BY <3>1, <3>2
      <4> QED BY <3>2, <4>2, <4>3
    <3>3. CASE i # j + 1 /\ i # 0
      <4>1. i \in 0 .. j /\ i - 1 \in 0 .. j + 1 /\ i - 1 # j + 1
        BY <3>1, <3>3
      <4>2. t[i] = k[i] /\ t[i - 1] = k[i - 1]
        BY <4>1, <3>3
      <4>3. k[i] = Sift(k[i - 1], q[i])
        BY <2>1, <4>1, <3>3
      <4> QED BY <3>3, <4>2, <4>3
    <3>4. CASE i # j + 1 /\ i = 0
      BY <3>1, <3>4, <2>1
    <3> QED BY <3>2, <3>3, <3>4
  <2>3. t = Def(t, j + 1)
    BY <2>2
  <2>4. j + 1 \in Nat
    OBVIOUS
  <2> HIDE DEF t
  <2> QED BY <2>3, <2>4
<1>3. P = Nat
  <2>1. P \in SUBSET Nat
    OBVIOUS
  <2> HIDE DEF P
  <2> QED BY <2>1, <1>1, <1>2, SetInduction
<1> QED BY <1>3 DEF Sifts

(* Sifting leaves facts of the batch. *)
LEMMA UnverifiedTyped ==
  ASSUME NEW q \in Seq(Facts)
  PROVE  Unverified(q) \in Seq(Facts)
<1> DEFINE n == Len(q)
           k == CHOOSE k : Sifts(k, q, n)
<1>1. n \in Nat /\ \A i \in 1 .. n : q[i] \in Facts
  BY LenProperties, ElementOfSeq
<1>2. \E t : Sifts(t, q, n)
  BY <1>1, SiftSteps
<1>3. Sifts(k, q, n)
  BY <1>2
<1>4. Unverified(q) = k[n]
  BY DEF Unverified, Sifts, Sift
<1> HIDE DEF k
<1>5. k[0] = <<>> /\ \A i \in 1 .. n : k[i] = Sift(k[i - 1], q[i])
  BY <1>1, <1>3 DEF Sifts
<1> DEFINE P == {i \in Nat : i <= n => k[i] \in Seq(Facts)}
<1>6. 0 \in P
  BY <1>5, EmptySeq
<1>7. ASSUME NEW i \in P PROVE i + 1 \in P
  <2>1. i \in Nat /\ i + 1 \in Nat
    OBVIOUS
  <2>2. ASSUME i + 1 <= n PROVE k[i + 1] \in Seq(Facts)
    <3>1. i <= n /\ i + 1 \in 1 .. n /\ (i + 1) - 1 = i
      BY <1>1, <2>1, <2>2
    <3>2. k[i] \in Seq(Facts) /\ q[i + 1] \in Facts
      BY <1>1, <3>1
    <3>3. k[i + 1] = Sift(k[i], q[i + 1])
      BY <1>5, <3>1
    <3> QED BY <3>2, <3>3, AppendProperties DEF Sift
  <2> QED BY <2>1, <2>2
<1>8. P = Nat
  <2>1. P \in SUBSET Nat
    OBVIOUS
  <2> HIDE DEF P
  <2> QED BY <1>6, <1>7, <2>1, SetInduction
<1> QED BY <1>1, <1>4, <1>8

(* The items of a sequence are as many as its places at most. *)
LEMMA SequenceItems ==
  ASSUME NEW q \in Seq(Facts)
  PROVE  /\ Len(q) \in Nat /\ DOMAIN q = 1 .. Len(q)
         /\ \A i \in DOMAIN q : q[i] \in Facts
         /\ ToSet(q) \in SUBSET Facts /\ IsFiniteSet(ToSet(q))
<1>1. /\ Len(q) \in Nat /\ DOMAIN q = 1 .. Len(q)
      /\ q \in [1 .. Len(q) -> Facts]
  BY LenProperties
<1>2. \A i \in DOMAIN q : q[i] \in Facts
  BY <1>1
<1>3. ToSet(q) \in SUBSET Facts
  BY <1>2 DEF ToSet
<1>4. q \in Surjection(1 .. Len(q), ToSet(q))
  <2>1. \A i \in 1 .. Len(q) : q[i] \in ToSet(q)
    BY <1>1 DEF ToSet
  <2>2. \A t \in ToSet(q) : \E i \in 1 .. Len(q) : q[i] = t
    BY <1>1 DEF ToSet
  <2>3. q \in [1 .. Len(q) -> ToSet(q)]
    BY <1>1, <2>1
  <2> QED BY <2>2, <2>3 DEF Surjection
<1>5. IsFiniteSet(1 .. Len(q))
  BY <1>1, FS_Interval
<1>6. IsFiniteSet(ToSet(q))
  BY <1>4, <1>5, FS_Surjection
<1> QED BY <1>1, <1>2, <1>3, <1>6

(* A sequence with as many items as places holds each once. *)
LEMMA DistinctItems ==
  ASSUME NEW q \in Seq(Facts), ~ (Cardinality(Identities(ToSet(q))) < Len(q))
  PROVE  \A i, j \in DOMAIN q : Identity(q[i]) = Identity(q[j]) => i = j
<1> DEFINE n == Len(q)
           ids == Identities(ToSet(q))
           h == [i \in 1 .. n |-> Identity(q[i])]
<1>1. n \in Nat /\ DOMAIN q = 1 .. n
  BY SequenceItems
<1>2. \A i \in 1 .. n : q[i] \in ToSet(q)
  BY <1>1 DEF ToSet
<1>3. h \in [1 .. n -> ids]
  BY <1>2 DEF Identities
<1>4. \A t \in ids : \E i \in 1 .. n : h[i] = t
  BY <1>1 DEF Identities, ToSet
<1>5. h \in Surjection(1 .. n, ids)
  <2> HIDE DEF h, ids, n
  <2> QED BY <1>3, <1>4 DEF Surjection
<1>6. IsFiniteSet(1 .. n) /\ Cardinality(1 .. n) = n
  BY <1>1, FS_Interval
<1>7. IsFiniteSet(ids) /\ Cardinality(ids) <= n
      /\ (Cardinality(ids) = n <=> h \in Injection(1 .. n, ids))
  <2> HIDE DEF h, ids, n
  <2> QED BY <1>5, <1>6, FS_Surjection
<1>8. Cardinality(ids) \in Nat
  BY <1>7, FS_CardinalityType
<1>9. Cardinality(ids) = n
  BY <1>1, <1>7, <1>8
<1>10. \A i, j \in 1 .. n : h[i] = h[j] => i = j
  <2>1. h \in Injection(1 .. n, ids)
    BY <1>7, <1>9
  <2> HIDE DEF h, ids, n
  <2> QED BY <2>1 DEF Injection, IsInjective
<1> QED BY <1>1, <1>10

(* The fields of an identity. *)
LEMMA IdentityFacts ==
  ASSUME NEW f \in Facts
  PROVE  /\ Identity(f) \in FactIds /\ Identity(f).kind \in FactKinds
         /\ Identity(f).kind = f.kind /\ Identity(f).market = f.market
         /\ Identity(f).at = f.at
  BY FactFields DEF Identity, FactIds

(* A fact the store does not hold is not in the journal either. *)
LEMMA UnknownUnjournaled ==
  ASSUME StoreInv, NEW f \in Facts, Identity(f) \notin Identities(source)
  PROVE  ~ IsJournaled(Identity(f))
  BY IdentityFacts DEF StoreInv, IsJournaled

(* flush_live_source_batch keeps the invariant: what it queues is new to both *)
(* stores and holds each identity once.                                       *)
LEMMA FlushInv ==
  ASSUME IInv, Flush
  PROVE  IInv'
<1> DEFINE fresh == Unverified(buffer)
           ids == Identities(ToSet(fresh))
           known == ids \cap Identities(source) # {}
<1>1. /\ status = "up" /\ unwritten = {} /\ queue = <<>> /\ buffer' = <<>>
      /\ \/ /\ status' = "conflicting_event"
            /\ UNCHANGED <<unwritten, queue>>
         \/ /\ ~ known /\ ~ (Cardinality(ids) < Len(fresh))
            /\ unwritten' = ToSet(fresh) /\ queue' = fresh
            /\ UNCHANGED status
      /\ UNCHANGED <<now, stores, starts, started, historical, auth, rolling,
                     client, requests, history>>
  BY DEF Flush, Idle, Written
<1> USE DEF stores, client, history
<1>2. fresh \in Seq(Facts)
  BY UnverifiedTyped DEF IInv, Typed
<1> HIDE DEF fresh
<1>3. ToSet(fresh) \in SUBSET Facts
  BY <1>2, SequenceItems
<1>4. Typed'
  BY <1>1, <1>2, <1>3, EmptySeq DEF IInv, Typed
<1>5. CASE status' = "conflicting_event"
  BY <1>1, <1>4, <1>5, FailedInv DEF IInv
<1>6. CASE /\ ~ known /\ ~ (Cardinality(ids) < Len(fresh))
           /\ unwritten' = ToSet(fresh) /\ queue' = fresh
           /\ UNCHANGED status
  <2>1. \A i, j \in DOMAIN fresh : Identity(fresh[i]) = Identity(fresh[j]) => i = j
    BY <1>2, <1>6, DistinctItems
  <2>2. QueueInv
    BY <1>1 DEF IInv, UpInv
  <2>3. \A f \in ToSet(fresh) : Identity(f) \notin Identities(source)
    BY <1>6 DEF Identities
  <2>4. \A i \in DOMAIN fresh : fresh[i] \in ToSet(fresh) /\ fresh[i] \in Facts
    BY <1>3 DEF ToSet
  <2>5. \A i \in DOMAIN fresh : ~ IsJournaled(Identity(fresh[i]))
    BY <2>3, <2>4, UnknownUnjournaled DEF IInv
  <2>6. ToSet(queue) = {}
    BY <1>1 DEF ToSet
  <2>7. \A f \in source : IsJournaled(Identity(f))
    BY <2>2, <2>6 DEF QueueInv
  <2>8. QueueInv'
    <3>1. \A id : IsJournaled(id)' <=> IsJournaled(id)
      BY <1>1 DEF IsJournaled
    <3> QED BY <1>1, <1>6, <2>1, <2>3, <2>5, <2>7, <3>1 DEF QueueInv
  <2>9. StoreInv' /\ LivedInv'
    BY <1>1, StoresKept DEF IInv
  <2>10. AuthInv'
    BY <1>1, AuthKept DEF IInv, UpInv
  <2>11. FenceInv'
    BY <1>1 DEF IInv, UpInv, FenceInv
  <2> QED BY <1>1, <1>4, <1>6, <2>8, <2>9, <2>10, <2>11 DEF IInv, UpInv, DownInv
<1> QED BY <1>1, <1>5, <1>6

(* write_partition keeps the invariant: source first, then journal. *)
LEMMA WritePartitionInv ==
  ASSUME IInv, WritePartition
  PROVE  IInv'
<1>1. PICK f \in unwritten :
        LET partition == {g \in unwritten : g.kind = f.kind
                                            /\ g.market = f.market}
        IN /\ status = "up"
           /\ source' = source \cup partition
           /\ unwritten' = unwritten \ partition
           /\ UNCHANGED <<now, journal, process, auth, rolling, buffer, queue,
                          client, requests, history>>
  BY DEF WritePartition
<1> DEFINE partition == {g \in unwritten : g.kind = f.kind
                                           /\ g.market = f.market}
<1>2. partition \in SUBSET unwritten
  OBVIOUS
<1>3. /\ status = "up"
      /\ source' = source \cup partition
      /\ unwritten' = unwritten \ partition
      /\ UNCHANGED <<now, journal, process, auth, rolling, buffer, queue,
                     client, requests, history>>
  BY <1>1
<1> HIDE DEF partition
<1> USE DEF process, client, history
<1>4. QueueInv
  BY <1>3 DEF IInv, UpInv
<1>5. /\ source \in SUBSET Facts /\ unwritten \in SUBSET Facts /\ queue \in Seq(Facts)
      /\ IsFiniteSet(source)
  BY DEF IInv, Typed
<1>6. IsFiniteSet(source') /\ source' \in SUBSET Facts
  <2>1. IsFiniteSet(ToSet(queue))
    BY <1>5, SequenceItems
  <2>2. partition \in SUBSET ToSet(queue)
    BY <1>2, <1>4 DEF QueueInv
  <2>3. IsFiniteSet(partition)
    BY <2>1, <2>2, FS_Subset
  <2> QED BY <1>2, <1>3, <1>5, <2>3, FS_Union
<1>7. \A g, h \in unwritten : Identity(g) = Identity(h) => g = h
  BY <1>4 DEF QueueInv, ToSet
<1>8. \A g \in unwritten : \A h \in source : Identity(g) # Identity(h)
  BY <1>4 DEF QueueInv, Identities
<1>9. StoreInv'
  <2>1. \A g, h \in source' : Identity(g) = Identity(h) => g = h
    BY <1>2, <1>3, <1>7, <1>8 DEF IInv, StoreInv
  <2>2. Identities(source) \subseteq Identities(source)'
    BY <1>3 DEF Identities
  <2> QED BY <1>3, <2>1, <2>2 DEF IInv, StoreInv
<1>10. LivedInv'
  BY <1>3 DEF IInv, LivedInv
<1>11. QueueInv'
  <2>1. \A id : IsJournaled(id)' <=> IsJournaled(id)
    BY <1>3 DEF IsJournaled
  <2>2. /\ unwritten' \subseteq ToSet(queue')
        /\ ToSet(queue') \subseteq source' \cup unwritten'
    BY <1>3, <1>4 DEF QueueInv
  <2>3. \A g \in unwritten' : Identity(g) \notin Identities(source)'
    BY <1>2, <1>3, <1>7, <1>8 DEF Identities
  <2>4. \A g \in source' : g \in ToSet(queue') \/ IsJournaled(Identity(g))
    BY <1>2, <1>3, <1>4 DEF QueueInv
  <2> QED BY <1>3, <1>4, <2>1, <2>2, <2>3, <2>4 DEF QueueInv
<1>12. AuthInv'
  BY <1>3, AuthKept DEF IInv, UpInv
<1>13. FenceInv'
  BY <1>3 DEF IInv, UpInv, FenceInv
<1>14. Typed'
  BY <1>3, <1>5, <1>6 DEF IInv, Typed
<1> QED BY <1>3, <1>9, <1>10, <1>11, <1>12, <1>13, <1>14 DEF IInv, UpInv, DownInv

(* What a capture can hold are facts of distinct identities. *)
LEMMA CapturableFacts ==
  ASSUME NEW rx \in Nat
  PROVE  /\ Capturable(rx) \in SUBSET Facts
         /\ IsFiniteSet(Capturable(rx)) /\ Distinct(Capturable(rx))
<1> DEFINE C == Capturable(rx)
<1>1. \A f \in C :
        /\ f \in Facts /\ f.rx = rx /\ f.kind \in {"mark", "funding"}
        /\ f.market \in Markets /\ f.at \in 0 .. rx
        /\ f = [kind |-> f.kind, market |-> f.market, at |-> f.at, rx |-> rx]
  <2> SUFFICES ASSUME NEW f \in C
      PROVE  /\ f \in Facts /\ f.rx = rx /\ f.kind \in {"mark", "funding"}
             /\ f.market \in Markets /\ f.at \in 0 .. rx
             /\ f = [kind |-> f.kind, market |-> f.market, at |-> f.at, rx |-> rx]
    OBVIOUS
  <2>1. CASE \E m \in Markets : f = Fact("mark", m, rx, rx)
    <3>1. PICK m \in Markets :
            f = [kind |-> "mark", market |-> m, at |-> rx, rx |-> rx]
      BY <2>1 DEF Fact
    <3>2. rx \in 0 .. rx
      OBVIOUS
    <3> QED BY <3>1, <3>2 DEF Facts, FactKinds
  <2>2. CASE \E m \in Markets, at \in FundingTimes \cap (0 .. rx) :
               f = Fact("funding", m, at, rx)
    <3>1. PICK m \in Markets, at \in FundingTimes \cap (0 .. rx) :
            f = [kind |-> "funding", market |-> m, at |-> at, rx |-> rx]
      BY <2>2 DEF Fact
    <3> QED BY <3>1 DEF Facts, FactKinds
  <2> QED BY <2>1, <2>2 DEF Capturable
<1>2. Distinct(C)
  <2> SUFFICES ASSUME NEW f \in C, NEW g \in C, Identity(f) = Identity(g)
               PROVE  f = g
    BY DEF Distinct
  <2>1. f.kind = g.kind /\ f.market = g.market /\ f.at = g.at
    BY <1>1, IdentityFacts
  <2> HIDE DEF C
  <2> QED BY <1>1, <2>1
<1> DEFINE T == Markets \X ((0 .. rx) \X {"mark", "funding"})
           h == [f \in C |-> <<f.market, <<f.at, f.kind>>>>]
<1>3. IsFiniteSet(T)
  <2>1. IsFiniteSet(0 .. rx)
    BY FS_Interval
  <2>2. IsFiniteSet({"mark", "funding"})
    <3>1. IsFiniteSet({"mark"})
      BY FS_Singleton
    <3>2. IsFiniteSet({"mark"} \cup {"funding"})
      BY <3>1, FS_AddElement
    <3>3. {"mark"} \cup {"funding"} = {"mark", "funding"}
      OBVIOUS
    <3> QED BY <3>2, <3>3
  <2>3. IsFiniteSet((0 .. rx) \X {"mark", "funding"})
    BY <2>1, <2>2, FS_Product
  <2> QED BY <2>3, BoundFacts, FS_Product
<1> HIDE DEF C
<1>4. h \in [C -> T]
  <2>1. \A f \in C : <<f.market, <<f.at, f.kind>>>> \in T
    BY <1>1
  <2> QED BY <2>1
<1>5. \A f, g \in C : h[f] = h[g] => f = g
  <2> SUFFICES ASSUME NEW f \in C, NEW g \in C, h[f] = h[g]
               PROVE  f = g
    OBVIOUS
  <2>1. f.kind = g.kind /\ f.market = g.market /\ f.at = g.at
    OBVIOUS
  <2> QED BY <1>1, <2>1
<1>6. h \in Injection(C, T)
  <2> HIDE DEF h, T
  <2> QED BY <1>4, <1>5 DEF Injection, IsInjective
<1>7. IsFiniteSet(C)
  <2> HIDE DEF h, T
  <2> QED BY <1>3, <1>6, FS_Injection
<1> QED BY <1>1, <1>2, <1>7 DEF C

(* Facts of distinct identities in replay order, as a queue. *)
LEMMA OrderedQueue ==
  ASSUME NEW facts \in SUBSET Facts, IsFiniteSet(facts), Distinct(facts)
  PROVE  /\ InReplayOrder(facts) \in Seq(Facts)
         /\ ToSet(InReplayOrder(facts)) = facts
         /\ \A i \in DOMAIN InReplayOrder(facts) : InReplayOrder(facts)[i] \in facts
         /\ \A i, j \in DOMAIN InReplayOrder(facts) :
              Identity(InReplayOrder(facts)[i]) = Identity(InReplayOrder(facts)[j]) => i = j
         /\ facts = {} => InReplayOrder(facts) = <<>>
<1> DEFINE q == InReplayOrder(facts)
<1>1. /\ q \in Seq(Facts) /\ ToSet(q) = facts
      /\ DOMAIN q = 1 .. Cardinality(facts)
      /\ \A i, j \in DOMAIN q : q[i] = q[j] => i = j
  BY ReplayOrder
<1> HIDE DEF q
<1>2. \A i \in DOMAIN q : q[i] \in facts
  BY <1>1 DEF ToSet
<1>3. \A i, j \in DOMAIN q : Identity(q[i]) = Identity(q[j]) => i = j
  BY <1>1, <1>2 DEF Distinct
<1>4. facts = {} => q = <<>>
  <2>1. facts = {} => DOMAIN q = {}
    BY <1>2
  <2>2. Len(q) \in Nat /\ DOMAIN q = 1 .. Len(q)
    BY <1>1, SequenceItems
  <2>3. facts = {} => Len(q) = 0
    BY <2>1, <2>2
  <2> QED BY <1>1, <2>3, EmptySeq
<1> QED BY <1>1, <1>2, <1>3, <1>4 DEF q

(* admit_capture_output keeps the invariant. *)
LEMMA CaptureInv ==
  ASSUME IInv, NEW facts \in SUBSET Capturable(now + 1), Capture(facts)
  PROVE  IInv'
<1> DEFINE fresh == FreshlyCaptured(facts)
           known == Identities(fresh) \cap Identities(source) # {}
<1>1. /\ status = "up" /\ unwritten = {} /\ queue = <<>> /\ now' = now + 1
      /\ \/ /\ status' = "conflicting_event"
            /\ UNCHANGED <<source, queue, rolling>>
         \/ /\ ~ known
            /\ source' = source \cup fresh
            /\ queue' = InReplayOrder(fresh)
            /\ UNCHANGED status
      /\ UNCHANGED <<journal, starts, started, historical, auth, buffer,
                     unwritten, client, requests, history>>
  BY DEF Capture, Idle, Written
<1> USE DEF client, history
<1>2. now \in Nat /\ now + 1 \in Nat
  BY DEF IInv, Typed
<1>3. fresh \in SUBSET Facts /\ IsFiniteSet(fresh) /\ Distinct(fresh)
  <2>1. fresh \in SUBSET Capturable(now + 1)
    BY DEF FreshlyCaptured
  <2> HIDE DEF fresh
  <2>2. fresh \in SUBSET Facts /\ IsFiniteSet(fresh)
    BY <1>2, <2>1, CapturableFacts, FS_Subset
  <2>3. Distinct(fresh)
    BY <1>2, <2>1, CapturableFacts DEF Distinct
  <2> QED BY <2>2, <2>3
<1> HIDE DEF fresh
<1> DEFINE q == InReplayOrder(fresh)
<1>4. /\ q \in Seq(Facts) /\ ToSet(q) = fresh
      /\ \A i \in DOMAIN q : q[i] \in fresh
      /\ \A i, j \in DOMAIN q : Identity(q[i]) = Identity(q[j]) => i = j
  BY <1>3, OrderedQueue
<1> HIDE DEF q
<1>5. /\ source \in SUBSET Facts /\ IsFiniteSet(source)
      /\ source' \in SUBSET Facts /\ IsFiniteSet(source')
      /\ queue' \in Seq(Facts)
  <2>1. IsFiniteSet(source \cup fresh)
    BY <1>3, FS_Union DEF IInv, Typed
  <2> QED BY <1>1, <1>3, <1>4, <2>1 DEF IInv, Typed, q
<1>6. Typed'
  BY <1>1, <1>2, <1>5 DEF IInv, Typed
<1>7. CASE status' = "conflicting_event" /\ UNCHANGED <<source, queue, rolling>>
  BY <1>1, <1>6, <1>7, FailedInv DEF IInv
<1>8. CASE /\ ~ known /\ source' = source \cup fresh /\ queue' = q
           /\ UNCHANGED status
  <2>1. \A g \in fresh : \A h \in source : Identity(g) # Identity(h)
    BY <1>8 DEF Identities
  <2>2. QueueInv
    BY <1>1 DEF IInv, UpInv
  <2>3. StoreInv'
    <3>1. \A g, h \in source' : Identity(g) = Identity(h) => g = h
      BY <1>3, <1>8, <2>1 DEF IInv, StoreInv, Distinct
    <3>2. Identities(source) \subseteq Identities(source)'
      BY <1>8 DEF Identities
    <3> QED BY <1>1, <3>1, <3>2 DEF IInv, StoreInv
  <2>4. LivedInv'
    BY <1>1 DEF IInv, LivedInv
  <2>5. \A id : IsJournaled(id)' <=> IsJournaled(id)
    BY <1>1 DEF IsJournaled
  <2>6. \A g \in fresh : ~ IsJournaled(Identity(g))
    <3>1. \A g \in fresh : Identity(g) \notin Identities(source) /\ g \in Facts
      BY <1>3, <1>8 DEF Identities
    <3> QED BY <3>1, UnknownUnjournaled DEF IInv
  <2>7. \A g \in source : IsJournaled(Identity(g))
    <3>1. ToSet(queue) = {}
      BY <1>1 DEF ToSet
    <3> QED BY <2>2, <3>1 DEF QueueInv
  <2>8. QueueInv'
    <3>1. unwritten' = {}
      BY <1>1
    <3>2. ToSet(queue') = fresh
      BY <1>4, <1>8
    <3>3. \A i, j \in DOMAIN queue' : Identity(queue'[i]) = Identity(queue'[j]) => i = j
      BY <1>4, <1>8
    <3>4. \A i \in DOMAIN queue' : ~ IsJournaled(Identity(queue'[i]))
      BY <1>4, <1>8, <2>6
    <3>5. \A g \in source' : g \in fresh \/ IsJournaled(Identity(g))
      BY <1>8, <2>7
    <3> QED BY <1>8, <2>5, <3>1, <3>2, <3>3, <3>4, <3>5 DEF QueueInv
  <2>9. AuthInv'
    BY <1>1, AuthKept DEF IInv, UpInv
  <2>10. FenceInv'
    BY <1>1 DEF IInv, UpInv, FenceInv
  <2> QED BY <1>1, <1>6, <1>8, <2>3, <2>4, <2>8, <2>9, <2>10 DEF IInv, UpInv, DownInv
<1> QED BY <1>1, <1>7, <1>8 DEF q

(* A queue without its head. *)
LEMMA QueueTail ==
  ASSUME NEW q \in Seq(Facts), q # <<>>
  PROVE  /\ Tail(q) \in Seq(Facts) /\ Len(q) \in Nat /\ DOMAIN q = 1 .. Len(q)
         /\ 1 \in DOMAIN q /\ Head(q) = q[1] /\ Head(q) \in Facts
         /\ DOMAIN Tail(q) = 1 .. Len(q) - 1
         /\ \A i \in 1 .. Len(q) - 1 : i + 1 \in 1 .. Len(q) /\ Tail(q)[i] = q[i + 1]
  BY HeadTailProperties, LenProperties, ElementOfSeq

(* What admit_market_event makes of the next fact. *)
Admitted(f) ==
  LET r == Route(auth, f)
      stale == r.kind = "error" /\ r.error = "stale"
  IN IF stale THEN Routed("source_retained", auth) ELSE r

(* What admit_market_event makes of a fact: an error, or one of four rows. *)
LEMMA AdmittedFollows ==
  ASSUME NEW f \in Facts, auth \in Authorities
  PROVE  \/ Admitted(f) = Unroutable("non_monotonic_book")
         \/ \E kind \in FactRows, a \in Authorities :
              Admitted(f) = Routed(kind, a) /\ Follows(auth, f, kind, a)
<1>1. CASE Route(auth, f) = Unroutable("non_monotonic_book")
  BY <1>1 DEF Admitted, Unroutable
<1>2. CASE Route(auth, f) = Unroutable("stale")
  <2>1. Admitted(f) = Routed("source_retained", auth)
    BY <1>2 DEF Admitted, Unroutable
  <2>2. Follows(auth, f, "source_retained", auth)
    BY AuthorityFields DEF Follows, FactRows
  <2> QED BY <2>1, <2>2 DEF FactRows
<1>3. ASSUME NEW kind \in FactRows, NEW a \in Authorities,
             Route(auth, f) = Routed(kind, a), Follows(auth, f, kind, a)
      PROVE  Admitted(f) = Routed(kind, a)
  <2>1. Routed(kind, a).kind # "error"
    BY DEF Routed, FactRows
  <2> QED BY <1>3, <2>1 DEF Admitted
<1> QED BY <1>1, <1>2, <1>3, RouteFollows

(* The row of an admitted fact. *)
LEMMA FactRow ==
  ASSUME NEW f \in Facts, NEW kind \in FactRows, NEW a \in Authorities,
         NEW time \in Nat, Follows(auth, f, kind, a), started \in Nat
  PROVE  /\ Row(Identity(f), kind, 0, time, a) \in Rows
         /\ Row(Identity(f), kind, 0, time, a).id = Identity(f)
         /\ Row(Identity(f), kind, 0, time, a).kind = kind
         /\ Row(Identity(f), kind, 0, time, a).opened = a.opened
         /\ Row(Identity(f), kind, 0, time, a).clock = a.clock
         /\ Row(Identity(f), kind, 0, time, a).started = started
<1> DEFINE row == Row(Identity(f), kind, 0, time, a)
<1>1. row = [id |-> Identity(f), kind |-> kind, generation |-> 0, time |-> time,
             started |-> started, opened |-> a.opened, clock |-> a.clock]
  BY DEF Row
<1> HIDE DEF row
<1>2. a.opened \in Nat /\ a.clock \in Nat
  BY AuthorityFields
<1>3. /\ Identity(f) \in FactIds /\ Identity(f).kind \in FactKinds
      /\ Identity(f).at = f.at
  BY IdentityFacts
<1>4. kind = "executable_book" => f.at < a.clock
  BY DEF Follows
<1>5. row \in Rows
  BY <1>1, <1>2, <1>3, <1>4 DEF Rows, FactKinds, FactRows
<1> QED BY <1>1, <1>5 DEF row

(* admit_market_event keeps the invariant: the head leaves the queue and enters *)
(* the journal at once.                                                         *)
LEMMA AdmitNextInv ==
  ASSUME IInv, AdmitNext
  PROVE  IInv'
<1> DEFINE f == Head(queue)
           n == Len(journal)
<1>1. /\ status = "up" /\ unwritten = {} /\ queue # <<>>
      /\ queue' = Tail(queue)
      /\ UNCHANGED <<now, source, starts, started, historical, rolling, buffer,
                     unwritten, client, requests, fenced, settled>>
  BY DEF AdmitNext, Written
<1>2. /\ Admitted(f).kind = "error" => Fail(Admitted(f).error)
      /\ Admitted(f).kind # "error" =>
           Commit(Identity(f), Admitted(f).kind, 0,
                  IF Admitted(f).kind = "source_retained" THEN f.at ELSE f.rx,
                  Admitted(f).auth)
  BY DEF AdmitNext, Admitted
<1> USE DEF client
<1>3. /\ queue' \in Seq(Facts) /\ Len(queue) \in Nat /\ DOMAIN queue = 1 .. Len(queue)
      /\ 1 \in DOMAIN queue /\ f = queue[1] /\ f \in Facts
      /\ DOMAIN queue' = 1 .. Len(queue) - 1
      /\ \A i \in 1 .. Len(queue) - 1 : i + 1 \in 1 .. Len(queue)
                                        /\ queue'[i] = queue[i + 1]
  BY <1>1, QueueTail DEF IInv, Typed
<1> HIDE DEF f
<1>4. auth \in Authorities /\ journal \in Seq(Rows) /\ started \in Nat
  BY DEF IInv, Typed
<1>5. CASE Admitted(f) = Unroutable("non_monotonic_book")
  <2>1. status' = "non_monotonic_book" /\ UNCHANGED <<journal, auth, lived>>
    BY <1>2, <1>5 DEF Fail, Unroutable
  <2>2. Typed'
    BY <1>1, <1>3, <2>1 DEF IInv, Typed
  <2> QED BY <1>1, <2>1, <2>2, FailedInv DEF IInv
<1>6. ASSUME NEW kind \in FactRows, NEW a \in Authorities,
             Admitted(f) = Routed(kind, a), Follows(auth, f, kind, a)
      PROVE  IInv'
  <2> DEFINE time == IF kind = "source_retained" THEN f.at ELSE f.rx
             row == Row(Identity(f), kind, 0, time, a)
  <2>1. /\ journal' = Append(journal, row)
        /\ auth' = a /\ lived' = a /\ status' = status
    BY <1>2, <1>6 DEF Commit, Routed, FactRows
  <2>2. time \in Nat
    BY <1>3, FactFields
  <2> HIDE DEF time
  <2>3. /\ row \in Rows /\ row.id = Identity(f) /\ row.kind = kind
        /\ row.opened = a.opened /\ row.clock = a.clock
    BY <1>3, <1>4, <1>6, <2>2, FactRow
  <2> HIDE DEF row
  <2>4. FenceInv /\ AuthInv /\ QueueInv
    BY <1>1 DEF IInv, UpInv
  <2>5. Makes(row, auth, a)
    BY <1>3, <1>4, <1>6, <2>3, FollowsMakes
  <2>6. auth.clock <= a.clock
    BY <1>4, <1>6, AuthorityFields DEF Follows
  <2>7. LivedInv' /\ AuthInv'
    BY <2>1, <2>3, <2>4, <2>5, <2>6, CommitLived DEF IInv
  <2>8. FenceInv'
    <3>1. a.gap = auth.gap /\ a.recovered = auth.recovered
      BY <1>6 DEF Follows
    <3> QED BY <1>1, <2>1, <2>4, <3>1 DEF FenceInv
  <2>9. /\ n \in Nat /\ DOMAIN journal = 1 .. n
        /\ journal' \in Seq(Rows)
        /\ DOMAIN journal' = 1 .. n + 1
        /\ \A i \in 1 .. n : journal'[i] = journal[i]
        /\ journal'[n + 1] = row
    BY <1>4, <2>1, <2>3, JournalGrows
  <2> HIDE DEF n
  <2>10. f \in source /\ ~ IsJournaled(Identity(f))
    BY <1>1, <1>3, <2>4 DEF QueueInv, ToSet
  <2>11. \A i \in 1 .. n : journal[i].id # Identity(f)
    BY <2>9, <2>10 DEF IsJournaled
  <2>12. StoreInv'
    <3>1. \A g, h \in source' : Identity(g) = Identity(h) => g = h
      BY <1>1 DEF IInv, StoreInv
    <3>2. Identities(source)' = Identities(source) /\ Identity(f) \in Identities(source)
      BY <1>1, <2>10 DEF Identities
    <3>3. ASSUME NEW i \in 1 .. n + 1, journal'[i].id.kind \in FactKinds
          PROVE  journal'[i].id \in Identities(source)
      <4>1. CASE i = n + 1
        BY <2>3, <2>9, <3>2, <4>1
      <4>2. CASE i \in 1 .. n
        BY <2>9, <3>3, <4>2 DEF IInv, StoreInv
      <4> QED BY <2>9, <4>1, <4>2, IndexStep
    <3>4. ASSUME NEW i \in 1 .. n + 1, NEW j \in 1 .. n + 1,
                 journal'[i].id = journal'[j].id, journal'[i].id.kind \in FactKinds
          PROVE  i = j
      <4>1. CASE i \in 1 .. n /\ j \in 1 .. n
        <5>1. journal'[i] = journal[i] /\ journal'[j] = journal[j]
          BY <2>9, <4>1
        <5> QED BY <2>9, <3>4, <4>1, <5>1 DEF IInv, StoreInv
      <4>2. CASE i = n + 1 /\ j \in 1 .. n
        BY <2>3, <2>9, <2>11, <3>4, <4>2
      <4>3. CASE i \in 1 .. n /\ j = n + 1
        BY <2>3, <2>9, <2>11, <3>4, <4>3
      <4> QED BY <2>9, <4>1, <4>2, <4>3, IndexStep
    <3> QED BY <2>9, <3>1, <3>2, <3>3, <3>4 DEF StoreInv
  <2>13. \A id : IsJournaled(id)' <=> IsJournaled(id) \/ id = Identity(f)
    <3>1. n + 1 \in 1 .. n + 1 /\ \A i \in 1 .. n : i \in 1 .. n + 1
      BY <2>9
    <3> QED BY <2>3, <2>9, <3>1, IndexStep DEF IsJournaled
  <2>14. QueueInv'
    <3>1. unwritten' = {}
      BY <1>1
    <3>2. \A i \in DOMAIN queue' : /\ i + 1 \in DOMAIN queue /\ i \in Nat
                                   /\ queue'[i] = queue[i + 1] /\ i + 1 # 1
      BY <1>3
    <3>3. ToSet(queue') \subseteq source'
      BY <1>1, <2>4, <3>2 DEF QueueInv, ToSet
    <3>4. \A i, j \in DOMAIN queue' : Identity(queue'[i]) = Identity(queue'[j]) => i = j
      <4> SUFFICES ASSUME NEW i \in DOMAIN queue', NEW j \in DOMAIN queue',
                          Identity(queue'[i]) = Identity(queue'[j])
                   PROVE  i = j
        OBVIOUS
      <4>1. i + 1 = j + 1
        BY <2>4, <3>2 DEF QueueInv
      <4> QED BY <3>2, <4>1
    <3>5. (\A i \in DOMAIN queue : ~ IsJournaled(Identity(queue[i])))'
      <4> SUFFICES ASSUME NEW i \in DOMAIN queue', NEW j \in DOMAIN journal',
                          journal'[j].id = Identity(queue'[i])
                   PROVE  FALSE
        BY DEF IsJournaled
      <4>1. ~ IsJournaled(Identity(queue[i + 1]))
        BY <2>4, <3>2 DEF QueueInv
      <4>2. Identity(queue[i + 1]) # Identity(f)
        BY <1>3, <2>4, <3>2 DEF QueueInv
      <4>3. \A k \in 1 .. n : journal[k].id # Identity(queue[i + 1])
        BY <2>9, <4>1 DEF IsJournaled
      <4> QED BY <2>3, <2>9, <3>2, <4>2, <4>3, IndexStep
    <3>6. ASSUME NEW g \in source', ~ (g \in ToSet(queue'))
          PROVE  IsJournaled(Identity(g))'
      <4>1. g \in ToSet(queue) \/ IsJournaled(Identity(g))
        BY <1>1, <2>4 DEF QueueInv
      <4>2. CASE IsJournaled(Identity(g))
        BY <2>13, <4>2
      <4>3. CASE g \in ToSet(queue)
        <5>1. PICK i \in 1 .. Len(queue) : g = queue[i]
          BY <1>3, <4>3 DEF ToSet
        <5>2. CASE i = 1
          BY <1>3, <2>13, <5>1, <5>2
        <5>3. CASE i # 1
          <6>1. i - 1 \in 1 .. Len(queue) - 1 /\ (i - 1) + 1 = i
            BY <1>3, <5>3
          <6>2. queue'[i - 1] = g
            BY <1>3, <5>1, <6>1
          <6> QED BY <1>3, <3>6, <6>1, <6>2 DEF ToSet
        <5> QED BY <5>2, <5>3
      <4> QED BY <4>1, <4>2, <4>3
    <3> QED BY <3>1, <3>3, <3>4, <3>5, <3>6 DEF QueueInv
  <2>15. Typed'
    BY <1>1, <1>3, <1>6, <2>1, <2>9 DEF IInv, Typed
  <2> QED BY <1>1, <2>1, <2>7, <2>8, <2>12, <2>14, <2>15 DEF IInv, UpInv, DownInv
<1> QED BY <1>3, <1>4, <1>5, <1>6, AdmittedFollows

(* The row of a fact has no generation. *)
LEMMA JournaledFacts ==
  ASSUME journal \in Seq(Rows), NEW f \in Facts
  PROVE  Journaled(Identity(f), 0) <=> IsJournaled(Identity(f))
<1>1. \A i \in DOMAIN journal : journal[i].id = Identity(f) => journal[i].generation = 0
  BY JournalLength, RowFields, IdentityFacts
<1> QED BY <1>1 DEF Journaled, IsJournaled

(* The first fact of the store has an event time. *)
LEMMA FirstOpening ==
  ASSUME source \in SUBSET Facts, IsFiniteSet(source), Distinct(source), source # {}
  PROVE  Head(InReplayOrder(source)).at \in Nat
<1> DEFINE q == InReplayOrder(source)
<1>1. /\ q \in Seq(Facts) /\ DOMAIN q = 1 .. Cardinality(source)
      /\ Cardinality(source) \in Nat
  BY ReplayOrder
<1>2. Cardinality(source) # 0
  BY FS_EmptySet
<1>3. q # <<>>
  BY <1>1, <1>2
<1> HIDE DEF q
<1>4. Head(q) \in Facts
  BY <1>1, <1>3, QueueTail
<1> QED BY <1>4, FactFields DEF q

(* What a start makes of the stores. *)
FirstStart ==
  /\ journal = <<>> /\ status' = "up"
  /\ queue' = InReplayOrder(source)
  /\ \E opening \in Nat :
       /\ auth' = NewAuthority(opening)
       /\ source = {} => opening = now + 1
RefusedStart ==
  /\ journal # <<>> /\ status' # "up" /\ status' # "down"
  /\ queue' = <<>> /\ auth' = NewAuthority(0)
LaterStart ==
  /\ journal # <<>> /\ status' = "up" /\ source # {}
  /\ Reconstruction.error = "none" /\ auth' = Reconstruction.auth
  /\ auth'.gap = Nowhere
  /\ queue' = InReplayOrder(Unjournaled)

(* What a start makes of the stores: a first run, a refusal or a later run. *)
LEMMA StartCases ==
  ASSUME IInv, Start
  PROVE  /\ FirstStart \/ RefusedStart \/ LaterStart
         /\ status = "down" /\ now' = now + 1 /\ starts' = starts + 1
         /\ started' = now + 1
         /\ UNCHANGED <<stores, rolling, buffer, unwritten, client, requests,
                        history>>
<1> DEFINE s == IF journal = <<>> THEN FirstRun(now + 1) ELSE LaterRun
<1>1. /\ status = "down" /\ now' = now + 1 /\ starts' = starts + 1
      /\ started' = now + 1
      /\ UNCHANGED <<stores, rolling, buffer, unwritten, client, requests,
                     history>>
      /\ status' = IF s.error = "none" THEN "up" ELSE s.error
      /\ auth' = s.auth /\ queue' = s.fresh
  BY DEF Start
<1>2. /\ source \in SUBSET Facts /\ IsFiniteSet(source) /\ Distinct(source)
      /\ now \in Nat /\ journal \in Seq(Rows)
  BY DEF IInv, Typed, StoreInv, Distinct
<1>3. ASSUME journal = <<>> PROVE FirstStart
  <2> DEFINE opening == IF source = {} THEN now + 1
                        ELSE Lesser(Head(InReplayOrder(source)).at, now + 1)
  <2>1. s = Started("none", NewAuthority(opening), InReplayOrder(source), {})
    BY <1>3 DEF FirstRun
  <2>2. s.error = "none" /\ s.auth = NewAuthority(opening) /\ s.fresh = InReplayOrder(source)
    BY <2>1 DEF Started
  <2>3. opening \in Nat
    BY <1>2, FirstOpening DEF Lesser
  <2>4. source = {} => opening = now + 1
    OBVIOUS
  <2> HIDE DEF opening, s
  <2> QED BY <1>1, <1>3, <2>2, <2>3, <2>4 DEF FirstStart
<1>4. ASSUME journal # <<>> PROVE RefusedStart \/ LaterStart
  <2> DEFINE r == Reconstruction
             fresh == InReplayOrder(Unjournaled)
  <2>1. s = LaterRun
    BY <1>4
  <2>2. \/ s = Refused("missing_source")
        \/ /\ source # {} /\ r.error # "none" /\ s = Refused(r.error)
        \/ s = Refused("incomplete_recovery")
        \/ s = Refused("uncovered_source")
        \/ /\ source # {} /\ r.error = "none" /\ r.auth.gap = Nowhere
           /\ s = Started("none", r.auth, fresh, Identities(source \ Unjournaled))
    BY <2>1 DEF LaterRun
  <2>3. source # {} => r \in ReplayStates
    BY <1>2, <1>4, ReconstructionKept DEF Kept
  <2> HIDE DEF r, s, fresh
  <2>4. ASSUME NEW e, s = Refused(e), e \notin {"none", "up", "down"}
        PROVE  RefusedStart
    <3>1. s.error = e /\ s.auth = NewAuthority(0) /\ s.fresh = <<>>
      BY <2>4 DEF Refused, Started
    <3> QED BY <1>1, <1>4, <2>4, <3>1 DEF RefusedStart
  <2>5. CASE s = Refused("missing_source")
    BY <2>4, <2>5
  <2>6. CASE /\ source # {} /\ r.error # "none" /\ s = Refused(r.error)
    <3>1. r.error \notin {"none", "up", "down"}
      BY <2>3, <2>6 DEF ReplayStates, Errors
    <3> QED BY <2>4, <2>6, <3>1
  <2>7. CASE s = Refused("incomplete_recovery")
    BY <2>4, <2>7
  <2>8. CASE s = Refused("uncovered_source")
    BY <2>4, <2>8
  <2>9. CASE /\ source # {} /\ r.error = "none" /\ r.auth.gap = Nowhere
             /\ s = Started("none", r.auth, fresh, Identities(source \ Unjournaled))
    <3>1. s.error = "none" /\ s.auth = r.auth /\ s.fresh = fresh
      BY <2>9 DEF Started
    <3> QED BY <1>1, <1>4, <2>9, <3>1 DEF LaterStart, r, fresh
  <2> QED BY <2>2, <2>5, <2>6, <2>7, <2>8, <2>9
<1> QED BY <1>1, <1>3, <1>4

(* A later run has the opening, the clock and the books the journal ends with. *)
LEMMA LaterStartRestores ==
  ASSUME IInv, LaterStart
  PROVE  /\ auth' \in Authorities
         /\ Stands(journal, Len(journal), auth')
         /\ auth'.opened = lived.opened /\ auth'.clock = lived.clock
         /\ auth'.books = lived.books
<1> DEFINE n == Len(journal)
           r == Reconstruction
<1>1. /\ journal \in Seq(Rows) /\ journal # <<>> /\ source \in SUBSET Facts
      /\ IsFiniteSet(source) /\ Distinct(source) /\ source # {}
      /\ r.error = "none" /\ auth' = r.auth /\ lived \in Authorities
  BY DEF LaterStart, IInv, Typed, StoreInv, Distinct
<1>2. Kept(journal, n, r)
  BY <1>1, ReconstructionKept
<1> HIDE DEF r
<1>3. n \in Nat /\ n > 0
  BY <1>1, JournalLength
<1>4. /\ auth' \in Authorities /\ Stands(journal, n, auth')
      /\ auth'.opened = journal[n].opened /\ auth'.clock = journal[n].clock
  BY <1>1, <1>2, <1>3 DEF Kept, ReplayStates
<1>5. auth'.opened = lived.opened /\ auth'.clock = lived.clock
  BY <1>1, <1>4 DEF IInv, LivedInv
<1>6. \A m \in Markets : auth'.books[m] = lived.books[m]
  BY <1>3, <1>4, BookUnique DEF IInv, LivedInv, Stands
<1>7. auth'.books \in [Markets -> Nat] /\ lived.books \in [Markets -> Nat]
  BY <1>1, <1>4, AuthorityFields
<1>8. auth'.books = lived.books
  BY <1>6, <1>7
<1> QED BY <1>4, <1>5, <1>8

(* A start queues exactly the facts of the store that no row holds. *)
LEMMA StartQueue ==
  ASSUME source \in SUBSET Facts, IsFiniteSet(source), Distinct(source),
         journal \in Seq(Rows), NEW facts \in SUBSET source, NEW q,
         q = InReplayOrder(facts),
         \A f \in source : f \in facts <=> ~ IsJournaled(Identity(f))
  PROVE  /\ q \in Seq(Facts) /\ ToSet(q) \subseteq source
         /\ \A i, j \in DOMAIN q : Identity(q[i]) = Identity(q[j]) => i = j
         /\ \A i \in DOMAIN q : ~ IsJournaled(Identity(q[i]))
         /\ \A f \in source : f \in ToSet(q) \/ IsJournaled(Identity(f))
<1>1. facts \in SUBSET Facts /\ IsFiniteSet(facts) /\ Distinct(facts)
  BY FS_Subset DEF Distinct
<1>2. /\ q \in Seq(Facts) /\ ToSet(q) = facts
      /\ \A i \in DOMAIN q : q[i] \in facts
      /\ \A i, j \in DOMAIN q : Identity(q[i]) = Identity(q[j]) => i = j
  BY <1>1, OrderedQueue
<1> QED BY <1>2

(* reconstruct_authority establishes what holds of a running process. *)
LEMMA StartInv ==
  ASSUME IInv, Start
  PROVE  IInv'
<1>1. /\ FirstStart \/ RefusedStart \/ LaterStart
      /\ status = "down" /\ now' = now + 1 /\ starts' = starts + 1
      /\ started' = now + 1
      /\ UNCHANGED <<stores, rolling, buffer, unwritten, client, requests,
                     history>>
  BY StartCases
<1> USE DEF stores, client, history
<1>2. /\ source \in SUBSET Facts /\ IsFiniteSet(source) /\ Distinct(source)
      /\ now \in Nat /\ starts \in Nat /\ journal \in Seq(Rows)
      /\ lived \in Authorities
  BY DEF IInv, Typed, StoreInv, Distinct
<1>3. Forgot
  BY <1>1 DEF IInv, DownInv
<1>4. StoreInv' /\ LivedInv'
  BY <1>1, StoresKept DEF IInv
<1>5. FenceInv'
  BY <1>1, <1>3, NowhereTyped DEF FenceInv, Forgot
<1>6. ASSUME auth' \in Authorities, queue' \in Seq(Facts)
      PROVE  Typed'
  BY <1>1, <1>2, <1>3, <1>6 DEF IInv, Typed
<1>7. CASE RefusedStart
  <2>1. auth' \in Authorities /\ queue' \in Seq(Facts)
    BY <1>7, NewAuthorityTyped, EmptySeq DEF RefusedStart
  <2> QED BY <1>4, <1>6, <1>7, <2>1 DEF RefusedStart, IInv, UpInv, DownInv
<1>8. ASSUME NEW facts \in SUBSET source, queue' = InReplayOrder(facts),
             \A f \in source : f \in facts <=> ~ IsJournaled(Identity(f)),
             auth' \in Authorities, AuthInv', status' = "up"
      PROVE  IInv'
  <2>1. /\ queue' \in Seq(Facts) /\ ToSet(queue') \subseteq source
        /\ \A i, j \in DOMAIN queue' : Identity(queue'[i]) = Identity(queue'[j]) => i = j
        /\ \A i \in DOMAIN queue' : ~ IsJournaled(Identity(queue'[i]))
        /\ \A f \in source : f \in ToSet(queue') \/ IsJournaled(Identity(f))
    BY <1>2, <1>8, StartQueue
  <2>2. unwritten' = {}
    BY <1>1, <1>3 DEF Forgot
  <2>3. QueueInv'
    BY <1>1, <2>1, <2>2 DEF QueueInv, IsJournaled
  <2> QED BY <1>4, <1>5, <1>6, <1>8, <2>1, <2>3 DEF IInv, UpInv, DownInv
<1>9. CASE FirstStart
  <2>1. PICK opening \in Nat : auth' = NewAuthority(opening)
    BY <1>9 DEF FirstStart
  <2>2. auth' \in Authorities /\ auth'.books = Nowhere /\ auth'.recovered = Nowhere
    BY <2>1, NewAuthorityTyped
  <2>3. Len(journal) = 0 /\ journal = <<>> /\ DOMAIN journal = {}
    BY <1>2, <1>9, JournalLength DEF FirstStart
  <2>4. \A m \in Markets : lived.books[m] = 0
    BY <2>3 DEF IInv, LivedInv, IsBook
  <2>5. lived.books = Nowhere
    BY <1>2, <2>4, AuthorityFields, NowhereTyped DEF Nowhere
  <2>6. AuthInv'
    BY <1>1, <2>2, <2>3, <2>5, NowhereTyped DEF AuthInv, IsRecovered
  <2>7. \A f \in source : f \in source <=> ~ IsJournaled(Identity(f))
    BY <2>3 DEF IsJournaled
  <2> QED BY <1>8, <1>9, <2>2, <2>6, <2>7 DEF FirstStart
<1>10. CASE LaterStart
  <2>1. /\ auth' \in Authorities
        /\ Stands(journal, Len(journal), auth')
        /\ auth'.opened = lived.opened /\ auth'.clock = lived.clock
        /\ auth'.books = lived.books
    BY <1>10, LaterStartRestores
  <2>2. AuthInv'
    BY <1>1, <2>1 DEF AuthInv, Stands
  <2>3. \A f \in source : f \in Unjournaled <=> ~ IsJournaled(Identity(f))
    BY <1>2, JournaledFacts DEF Unjournaled
  <2>4. Unjournaled \in SUBSET source
    BY DEF Unjournaled
  <2> QED BY <1>8, <1>10, <2>1, <2>2, <2>3, <2>4 DEF LaterStart
<1> QED BY <1>1, <1>7, <1>9, <1>10

(* The invariant speaks of the variables alone. *)
LEMMA StutterInv ==
  ASSUME IInv, UNCHANGED vars
  PROVE  IInv'
<1> USE DEF vars, stores, process, batch, client, history
<1>1. Typed'
  BY DEF IInv, Typed
<1>2. StoreInv' /\ LivedInv'
  BY StoresKept DEF IInv
<1>3. UpInv'
  <2>1. CASE status = "up"
    BY <2>1, QueueKept, AuthKept DEF IInv, UpInv, FenceInv
  <2>2. CASE status # "up"
    BY <2>2 DEF UpInv
  <2> QED BY <2>1, <2>2
<1>4. DownInv'
  BY DEF IInv, DownInv, Forgot
<1> QED BY <1>1, <1>2, <1>3, <1>4 DEF IInv

(* The invariant is inductive. *)
LEMMA NextInv == IInv /\ [Next]_vars => IInv'
<1> SUFFICES ASSUME IInv, [Next]_vars PROVE IInv'
  OBVIOUS
<1>1. CASE Start
  BY <1>1, StartInv
<1>2. CASE Crash
  BY <1>2, CrashInv
<1>3. CASE \E m \in Markets : \E latency \in Latencies : ReceiveBook(m, latency)
  BY <1>3, ReceiveBookInv
<1>4. CASE \E m \in Markets : ReceiveTrade(m)
  BY <1>4, ReceiveTradeInv
<1>5. CASE Disconnect
  BY <1>5, DisconnectInv
<1>6. CASE ReceiveRequest
  BY <1>6, ReceiveRequestInv
<1>7. CASE \E r \in requests : Answer(r)
  BY <1>7, AnswerInv
<1>8. CASE \E r \in requests : Unavailable(r)
  BY <1>8, UnavailableInv
<1>9. CASE Flush
  BY <1>9, FlushInv
<1>10. CASE WritePartition
  BY <1>10, WritePartitionInv
<1>11. CASE AdmitNext
  BY <1>11, AdmitNextInv
<1>12. CASE \E facts \in SUBSET Capturable(now + 1) : facts # {} /\ Capture(facts)
  BY <1>12, CaptureInv
<1>13. CASE UNCHANGED vars
  BY <1>13, StutterInv
<1> QED BY <1>1, <1>2, <1>3, <1>4, <1>5, <1>6, <1>7, <1>8, <1>9, <1>10,
           <1>11, <1>12, <1>13 DEF Next

(* The invariant holds of every run of the daemon, crashes included. *)
THEOREM JournalInvariant == Spec => []IInv
  BY InitInv, NextInv, PTL DEF Spec

(* Every journaled fact is in the source store (persist_live_market_events,  *)
(* admit_capture_output), however often the process crashed between the two. *)
THEOREM SourceFirst == Spec => []SourceBeforeJournal
<1>1. IInv => SourceBeforeJournal
  <2> SUFFICES ASSUME IInv, NEW i \in DOMAIN journal,
                      journal[i].kind \notin {"recovery_request", "market_recovered"}
               PROVE  journal[i].id \in Identities(source)
    BY DEF SourceBeforeJournal
  <2>1. journal[i] \in Rows
    BY JournalLength DEF IInv, Typed
  <2>2. journal[i].id.kind \in FactKinds
    BY <2>1 DEF Rows, FactIds, RecoveryIds
  <2> QED BY <2>2 DEF IInv, StoreInv
<1> QED BY <1>1, JournalInvariant, PTL

(* A process with nothing left to admit has journaled every fact of the store *)
(* exactly once, over all crashes and restarts (reconstruct_authority,        *)
(* flush_live_source_batch).                                                  *)
THEOREM EachFactOnce == Spec => []NothingLostOrTwice
<1>1. IInv => NothingLostOrTwice
  <2> SUFFICES ASSUME IInv, Idle, NEW f \in source
               PROVE  Cardinality({i \in DOMAIN journal : journal[i].id = Identity(f)}) = 1
    BY DEF NothingLostOrTwice
  <2> DEFINE S == {i \in DOMAIN journal : journal[i].id = Identity(f)}
  <2>1. queue = <<>> /\ QueueInv /\ f \in Facts
    BY DEF Idle, IInv, UpInv, Typed
  <2>2. f \notin ToSet(queue)
    BY <2>1 DEF ToSet
  <2>3. IsJournaled(Identity(f))
    BY <2>1, <2>2 DEF QueueInv
  <2>4. PICK i \in DOMAIN journal : journal[i].id = Identity(f)
    BY <2>3 DEF IsJournaled
  <2>5. Identity(f).kind \in FactKinds
    BY <2>1, IdentityFacts
  <2>6. \A j \in S : j = i
    BY <2>4, <2>5 DEF IInv, StoreInv
  <2>7. S = {i}
    BY <2>4, <2>6
  <2> QED BY <2>7, FS_Singleton
<1> QED BY <1>1, JournalInvariant, PTL

(* A start that succeeds continues the opening, the clock and the books of the *)
(* ledger the journal ends with (reconstruct_authority).                       *)
THEOREM RestartContinues == Spec => RestoredIsLived
<1>1. IInv /\ [Next]_vars =>
        [(Start /\ status' = "up" /\ journal # <<>>) =>
           /\ auth'.opened = lived.opened
           /\ auth'.clock = lived.clock
           /\ auth'.books = lived.books]_vars
  <2> SUFFICES ASSUME IInv, Start, status' = "up", journal # <<>>
               PROVE  /\ auth'.opened = lived.opened
                      /\ auth'.clock = lived.clock
                      /\ auth'.books = lived.books
    OBVIOUS
  <2>1. LaterStart
    BY StartCases DEF FirstStart, RefusedStart
  <2> QED BY <2>1, LaterStartRestores
<1> QED BY <1>1, JournalInvariant, PTL DEF Spec, RestoredIsLived

(* One more row, of whatever kind. *)
LEMMA RowAppended ==
  ASSUME journal \in Seq(Rows), NEW row, journal' = Append(journal, row)
  PROVE  /\ Len(journal) \in Nat
         /\ DOMAIN journal = 1 .. Len(journal)
         /\ DOMAIN journal' = 1 .. Len(journal) + 1
         /\ \A i \in 1 .. Len(journal) : journal'[i] = journal[i]
         /\ journal'[Len(journal) + 1] = row
  OBVIOUS

(* The evidence a book needs before its row i of q. *)
Evidenced(q, i) ==
  LET m == q[i].id.market
      before == {j \in 1 .. i - 1 : q[j].id.market = m}
      fences == {j \in before : q[j].kind \in
                   {"recovery_request", "market_recovered"}}
      books == {j \in before : q[j].kind = "executable_book"}
  IN /\ \E j \in fences :
          /\ \A k \in fences : k <= j
          /\ q[j].kind = "market_recovered"
          /\ q[j].time < q[i].id.at
     /\ \A j \in books : q[j].id.at < q[i].id.at

(* Later rows leave the evidence of earlier ones alone. *)
LEMMA EvidenceKept ==
  ASSUME NEW q, NEW p, NEW n \in Nat, \A i \in 1 .. n : p[i] = q[i],
         NEW i \in 1 .. n, Evidenced(q, i)
  PROVE  Evidenced(p, i)
<1>1. p[i] = q[i] /\ \A j \in 1 .. i - 1 : p[j] = q[j]
  OBVIOUS
<1> QED BY <1>1 DEF Evidenced

(* A routed book is behind the recovery its boundary is of, and later than *)
(* every book: a book's row is committed at a clock later than its event.  *)
LEMMA BookEvidenced ==
  ASSUME NEW q, NEW n \in Nat, q[n + 1].kind = "executable_book",
         NEW b \in Nat, NEW c \in Nat,
         b > 0, b < q[n + 1].id.at, c <= q[n + 1].id.at, q[n + 1].id.at \in Nat,
         IsRecovered(q, n, q[n + 1].id.market, b),
         \A i \in 1 .. n : q[i] \in Rows /\ q[i].clock <= c
  PROVE  Evidenced(q, n + 1)
<1> DEFINE m == q[n + 1].id.market
           at == q[n + 1].id.at
           before == {j \in 1 .. (n + 1) - 1 : q[j].id.market = m}
           fences == {j \in before : q[j].kind \in
                        {"recovery_request", "market_recovered"}}
           books == {j \in before : q[j].kind = "executable_book"}
<1>1. PICK j \in 1 .. n : /\ Latest(q, n, m, FenceKinds, j)
                          /\ q[j].kind = "market_recovered" /\ q[j].time = b
  BY DEF IsRecovered
<1>2. j \in fences
  BY <1>1 DEF Latest, Matches
<1>3. \A k \in fences : k <= j
  BY <1>1 DEF Latest, Matches, FenceKinds
<1>4. \A k \in books : q[k].id.at < at
  <2> SUFFICES ASSUME NEW k \in 1 .. n, q[k].kind = "executable_book"
               PROVE  q[k].id.at < at
    OBVIOUS
  <2>1. q[k] \in Rows
    OBVIOUS
  <2>2. q[k].id.at \in Nat /\ q[k].clock \in Nat /\ q[k].id.at < q[k].clock
    BY <2>1, RowFields DEF Rows
  <2>3. q[k].clock <= c
    OBVIOUS
  <2> QED BY <2>2, <2>3
<1> QED BY <1>1, <1>2, <1>3, <1>4 DEF Evidenced

(* The row admit_market_event writes. *)
LEMMA AdmittedEvidenced ==
  ASSUME IInv, AdmitNext
  PROVE  \/ UNCHANGED journal
         \/ \E row : /\ journal' = Append(journal, row)
                     /\ row.kind = "executable_book" =>
                          Evidenced(journal', Len(journal) + 1)
<1> DEFINE f == Head(queue)
           n == Len(journal)
<1>1. /\ status = "up" /\ queue # <<>>
      /\ Admitted(f).kind = "error" => Fail(Admitted(f).error)
      /\ Admitted(f).kind # "error" =>
           Commit(Identity(f), Admitted(f).kind, 0,
                  IF Admitted(f).kind = "source_retained" THEN f.at ELSE f.rx,
                  Admitted(f).auth)
  BY DEF AdmitNext, Admitted
<1>2. f \in Facts /\ auth \in Authorities /\ journal \in Seq(Rows)
  BY <1>1, QueueTail DEF IInv, Typed
<1> HIDE DEF f
<1>3. CASE Admitted(f) = Unroutable("non_monotonic_book")
  BY <1>1, <1>3 DEF Unroutable, Fail
<1>4. ASSUME NEW kind \in FactRows, NEW a \in Authorities,
             Admitted(f) = Routed(kind, a), Follows(auth, f, kind, a)
      PROVE  \E row : /\ journal' = Append(journal, row)
                      /\ row.kind = "executable_book" =>
                           Evidenced(journal', n + 1)
  <2>1. PICK time : journal' = Append(journal, Row(Identity(f), kind, 0, time, a))
    BY <1>1, <1>4 DEF Commit, Routed, FactRows
  <2> DEFINE row == Row(Identity(f), kind, 0, time, a)
  <2>2. row.id = Identity(f) /\ row.kind = kind
    BY DEF Row
  <2> HIDE DEF row
  <2>3. /\ n \in Nat /\ DOMAIN journal = 1 .. n
        /\ \A i \in 1 .. n : journal'[i] = journal[i]
        /\ journal'[n + 1] = row
    BY <1>2, <2>1, RowAppended DEF row
  <2>4. ASSUME kind = "executable_book" PROVE Evidenced(journal', n + 1)
    <3>1. /\ auth.clock <= f.at /\ auth.recovered[f.market] > 0
          /\ f.at > auth.recovered[f.market]
      BY <1>4, <2>4 DEF Follows
    <3>2. row.id.market = f.market /\ row.id.at = f.at /\ f.market \in Markets /\ f.at \in Nat
      BY <1>2, <2>2, IdentityFacts, FactFields
    <3>3. auth.clock \in Nat /\ auth.recovered[f.market] \in Nat
      BY <1>2, <3>2, AuthorityFields
    <3>4. IsRecovered(journal, n, f.market, auth.recovered[f.market])
      BY <1>1, <3>2 DEF IInv, UpInv, AuthInv
    <3>5. IsRecovered(journal', n, f.market, auth.recovered[f.market])
      <4>1. \A i \in 1 .. n : journal[i] = journal'[i]
        BY <2>3
      <4> QED BY <2>3, <3>4, <4>1, SameRows
    <3>6. \A i \in 1 .. n : journal'[i] \in Rows /\ journal'[i].clock <= auth.clock
      <4> SUFFICES ASSUME NEW i \in 1 .. n
                   PROVE  journal[i] \in Rows /\ journal[i].clock <= auth.clock
        BY <2>3
      <4>1. journal # <<>>
        BY <1>2, <2>3, JournalLength
      <4> QED BY <1>1, <1>2, <2>3, <4>1, JournalLength
              DEF IInv, UpInv, AuthInv, LivedInv
    <3> QED BY <2>2, <2>3, <2>4, <3>1, <3>2, <3>3, <3>5, <3>6, BookEvidenced
  <2> QED BY <2>1, <2>2, <2>4 DEF row
<1> QED BY <1>2, <1>3, <1>4, AdmittedFollows

(* A step leaves the journal alone or appends one row; a book's has evidence. *)
LEMMA JournalSteps ==
  ASSUME IInv, [Next]_vars
  PROVE  \/ UNCHANGED journal
         \/ \E row : /\ journal' = Append(journal, row)
                     /\ row.kind = "executable_book" =>
                          Evidenced(journal', Len(journal) + 1)
<1> DEFINE Grows == \E row : /\ journal' = Append(journal, row)
                             /\ row.kind # "executable_book"
<1>1. CASE Start \/ Crash
  BY <1>1 DEF Start, Crash, stores
<1>2. CASE \E m \in Markets : \/ \E latency \in Latencies : ReceiveBook(m, latency)
                              \/ ReceiveTrade(m)
  BY <1>2 DEF ReceiveBook, ReceiveTrade, Receive, stores
<1>3. CASE Disconnect
  BY <1>3 DEF Disconnect, stores
<1>4. CASE ReceiveRequest
  BY <1>4 DEF ReceiveRequest, Commit, Fail, Row
<1>5. CASE \E r \in requests : Answer(r)
  BY <1>5 DEF Answer, Commit, Fail, Row
<1>6. CASE \E r \in requests : Unavailable(r)
  BY <1>6 DEF Unavailable, stores
<1>7. CASE Flush
  BY <1>7 DEF Flush, stores
<1>8. CASE WritePartition
  BY <1>8 DEF WritePartition
<1>9. CASE AdmitNext
  BY <1>9, AdmittedEvidenced
<1>10. CASE \E facts \in SUBSET Capturable(now + 1) : facts # {} /\ Capture(facts)
  BY <1>10 DEF Capture
<1>11. CASE UNCHANGED vars
  BY <1>11 DEF vars, stores
<1> QED BY <1>1, <1>2, <1>3, <1>4, <1>5, <1>6, <1>7, <1>8, <1>9, <1>10, <1>11 DEF Next

(* In the journal, over all runs, a book executes behind a completed recovery *)
(* with no request since, past its boundary and past every book before        *)
(* (route_book, open_gap, complete_recovery).                                 *)
THEOREM BooksExecuteOnEvidence == Spec => []ExecutedOnEvidence
<1>1. Init => ExecutedOnEvidence
  BY DEF Init, ExecutedOnEvidence
<1>2. ASSUME IInv, ExecutedOnEvidence, [Next]_vars
      PROVE  ExecutedOnEvidence'
  <2>1. journal \in Seq(Rows)
    BY <1>2 DEF IInv, Typed
  <2>2. CASE UNCHANGED journal
    BY <1>2, <2>2 DEF ExecutedOnEvidence
  <2>3. ASSUME NEW row, journal' = Append(journal, row),
               row.kind = "executable_book" => Evidenced(journal', Len(journal) + 1)
        PROVE  ExecutedOnEvidence'
    <3> DEFINE n == Len(journal)
    <3>1. /\ n \in Nat /\ DOMAIN journal = 1 .. n /\ DOMAIN journal' = 1 .. n + 1
          /\ \A i \in 1 .. n : journal'[i] = journal[i]
          /\ journal'[n + 1] = row
      BY <2>1, <2>3, RowAppended
    <3>2. \A i \in 1 .. n : journal[i].kind = "executable_book" => Evidenced(journal, i)
      BY <1>2, <3>1 DEF ExecutedOnEvidence, Evidenced
    <3>3. \A i \in 1 .. n + 1 : journal'[i].kind = "executable_book" => Evidenced(journal', i)
      <4> SUFFICES ASSUME NEW i \in 1 .. n + 1, journal'[i].kind = "executable_book"
                   PROVE  Evidenced(journal', i)
        OBVIOUS
      <4>1. CASE i = n + 1
        BY <2>3, <3>1, <4>1
      <4>2. CASE i \in 1 .. n
        BY <3>1, <3>2, <4>2, EvidenceKept
      <4> QED BY <3>1, <4>1, <4>2, IndexStep
    <3> QED BY <3>1, <3>3 DEF ExecutedOnEvidence, Evidenced
  <2> QED BY <1>2, <2>2, <2>3, JournalSteps
<1> QED BY <1>1, <1>2, JournalInvariant, PTL DEF Spec

(* A daemon that kept its connection and ended its runs with nothing queued:  *)
(* no market is fenced, no request is under way, the authority is the one the *)
(* journal ends with, and no fact of the store is forgotten.                  *)
Orderly ==
  /\ pending = Nowhere /\ asked = <<>> /\ requests = {}
  /\ auth.gap = Nowhere /\ auth.recovered = Nowhere /\ auth.books = Nowhere
  /\ lived.gap = Nowhere /\ lived.recovered = Nowhere /\ lived.books = Nowhere
  /\ status = "up" =>
       auth = IF journal = <<>> THEN NewAuthority(started) ELSE lived
  /\ \A i \in DOMAIN journal : journal[i].id.kind \in FactKinds
  /\ \A f \in source : f \in ToSet(queue) \/ IsJournaled(Identity(f))

(* A replay from the first run's start reproduces the ledger lived. *)
Reproduced ==
  journal # <<>> =>
    \A q, s : q = journal /\ Replays(s, q[1].started, q, Len(q)) =>
                s[Len(q)] = [auth |-> lived, error |-> "none"]

OrderlyInv == settled /\ plain => Orderly /\ Reproduced

(* A source store that only grows replays a row it held the same way. *)
LEMMA ReplayStable ==
  ASSUME source \subseteq source', Distinct(source'),
         NEW row, row.id \in Identities(source), NEW t
  PROVE  Replay(t, row)' = Replay(t, row)
<1>1. PICK f \in source : Identity(f) = row.id
  BY DEF Identities
<1> DEFINE facts == {g \in source : Identity(g) = row.id}
           later == {g \in source' : Identity(g) = row.id}
           out == IF t.error # "none" THEN t ELSE ReplaySource(t, row, f)
<1>2. facts = {f} /\ later = {f}
  BY <1>1 DEF Distinct
<1>3. Replay(t, row) = out
  <2>1. (CHOOSE g \in facts : TRUE) = f /\ facts # {}
    BY <1>2
  <2> QED BY <2>1 DEF Replay
<1>4. Replay(t, row)' = out
  <2>1. (CHOOSE g \in later : TRUE) = f /\ later # {}
    BY <1>2
  <2> QED BY <2>1 DEF Replay
<1> QED BY <1>3, <1>4

(* A source store that only grows leaves a reproduced journal reproduced. *)
LEMMA ReproducedKept ==
  ASSUME IInv, Reproduced, \A i \in DOMAIN journal : journal[i].id.kind \in FactKinds,
         UNCHANGED <<journal, lived>>, source \subseteq source', Distinct(source')
  PROVE  Reproduced'
<1> SUFFICES ASSUME journal # <<>>, NEW q, q = journal, NEW s,
                    Replays(s, q[1].started, q, Len(q))'
             PROVE  s[Len(q)] = [auth |-> lived, error |-> "none"]
  BY DEF Reproduced
<1>1. /\ Len(q) \in Nat /\ \A i \in 1 .. Len(q) : q[i].id \in Identities(source)
  BY JournalLength DEF IInv, Typed, StoreInv
<1>2. s = [i \in 0 .. Len(q) |->
             IF i = 0 THEN Blank(q[1].started) ELSE Replay(s[i - 1], q[i])']
  BY DEF Replays, Blank, NewAuthority
<1>3. \A t : \A i \in 1 .. Len(q) : Replay(t, q[i])' = Replay(t, q[i])
  BY <1>1, ReplayStable
<1>4. Replays(s, q[1].started, q, Len(q))
  <2>1. \A i \in 0 .. Len(q) : i # 0 => i \in 1 .. Len(q)
    BY <1>1
  <2> QED BY <1>2, <1>3, <2>1 DEF Replays
<1> QED BY <1>4 DEF Reproduced

(* Steps that write no row. *)
LEMMA OrderlyKept ==
  ASSUME IInv, IInv', Orderly, Reproduced,
         UNCHANGED <<journal, lived, auth, started, requests>>,
         source \subseteq source', pending' = Nowhere, asked' = <<>>,
         status' = "up" => status = "up",
         status' = "up" \/ UNCHANGED <<source, queue>>
  PROVE  Orderly' /\ Reproduced'
<1>1. Distinct(source')
  BY DEF IInv, StoreInv, Distinct
<1>2. Reproduced'
  BY <1>1, ReproducedKept DEF Orderly
<1>3. \A f \in source' : f \in ToSet(queue') \/ IsJournaled(Identity(f))'
  <2>1. CASE status' = "up"
    BY <2>1 DEF IInv, UpInv, QueueInv
  <2>2. CASE UNCHANGED <<source, queue>>
    BY <2>2 DEF Orderly, IsJournaled
  <2> QED BY <2>1, <2>2
<1>4. status' = "up" => auth' = IF journal' = <<>> THEN NewAuthority(started') ELSE lived'
  BY DEF Orderly
<1> QED BY <1>2, <1>3, <1>4 DEF Orderly

(* Empty stores are orderly. *)
LEMMA InitOrderly == Init => OrderlyInv
<1> SUFFICES ASSUME Init PROVE Orderly /\ Reproduced
  BY DEF OrderlyInv
<1>1. NewAuthority(0) \in Authorities /\ NewAuthority(0).gap = Nowhere
      /\ NewAuthority(0).recovered = Nowhere /\ NewAuthority(0).books = Nowhere
  BY NewAuthorityTyped
<1> QED BY <1>1 DEF Init, Orderly, Reproduced

(* A process that ends with nothing queued leaves the stores orderly. *)
LEMMA CrashOrderly ==
  ASSUME IInv, IInv', Orderly, Reproduced, Crash, settled'
  PROVE  Orderly' /\ Reproduced'
<1>1. /\ queue = <<>> /\ status' = "down" /\ auth' = NewAuthority(0)
      /\ queue' = <<>> /\ pending' = Nowhere /\ asked' = <<>> /\ requests' = {}
      /\ UNCHANGED <<source, journal, lived>>
  BY DEF Crash, Forgotten, stores
<1>2. Distinct(source')
  BY DEF IInv, StoreInv, Distinct
<1>3. Reproduced'
  BY <1>1, <1>2, ReproducedKept DEF Orderly
<1>4. /\ auth'.gap = Nowhere /\ auth'.recovered = Nowhere /\ auth'.books = Nowhere
  BY <1>1, NewAuthorityTyped
<1>5. \A f \in source' : f \in ToSet(queue') \/ IsJournaled(Identity(f))'
  BY <1>1 DEF Orderly, IsJournaled
<1> QED BY <1>1, <1>3, <1>4, <1>5 DEF Orderly

(* An orderly daemon starts again: the replay verifies every row, and no fact *)
(* is left to cover.                                                          *)
LEMMA StartOrderly ==
  ASSUME IInv, IInv', Orderly, Reproduced, Start
  PROVE  status' = "up" /\ Orderly' /\ Reproduced'
<1>1. /\ FirstStart \/ RefusedStart \/ LaterStart
      /\ status = "down" /\ now' = now + 1 /\ started' = now + 1
      /\ UNCHANGED <<stores, rolling, buffer, unwritten, client, requests,
                     history>>
  BY StartCases
<1> USE DEF stores, client, history
<1>2. /\ source \in SUBSET Facts /\ IsFiniteSet(source) /\ Distinct(source)
      /\ now \in Nat /\ journal \in Seq(Rows) /\ queue = <<>>
      /\ lived \in Authorities
  BY <1>1 DEF IInv, Typed, StoreInv, Distinct, DownInv, Forgot
<1>3. \A f \in source : IsJournaled(Identity(f))
  BY <1>2 DEF Orderly, ToSet
<1>4. Reproduced'
  BY <1>1, <1>2, ReproducedKept DEF Orderly
<1>5. ASSUME status' = "up",
             auth' = IF journal = <<>> THEN NewAuthority(now + 1) ELSE lived
      PROVE  status' = "up" /\ Orderly' /\ Reproduced'
  <2>1. /\ auth'.gap = Nowhere /\ auth'.recovered = Nowhere /\ auth'.books = Nowhere
    <3>1. CASE journal = <<>>
      BY <1>2, <1>5, <3>1, NewAuthorityTyped
    <3>2. CASE journal # <<>>
      BY <1>5, <3>2 DEF Orderly
    <3> QED BY <3>1, <3>2
  <2>2. \A f \in source' : f \in ToSet(queue') \/ IsJournaled(Identity(f))'
    BY <1>1, <1>3 DEF IsJournaled
  <2> QED BY <1>1, <1>4, <1>5, <2>1, <2>2 DEF Orderly
<1>6. CASE journal = <<>>
  <2>1. source = {}
    BY <1>3, <1>6 DEF IsJournaled
  <2>2. FirstStart
    BY <1>1, <1>6 DEF RefusedStart, LaterStart
  <2>3. status' = "up" /\ auth' = NewAuthority(now + 1)
    BY <2>1, <2>2 DEF FirstStart
  <2> QED BY <1>5, <1>6, <2>3
<1>7. CASE journal # <<>>
  <2> DEFINE n == Len(journal)
             o == journal[1].started
             r == Reconstruction
  <2>1. n \in Nat /\ n > 0 /\ 1 \in DOMAIN journal
    BY <1>2, <1>7, JournalLength
  <2>2. source # {}
    BY <2>1 DEF Orderly, IInv, StoreInv, Identities
  <2>3. PICK s : Replays(s, o, journal, n) /\ Rebuilt(o) = s[n]
    BY <2>1, RebuiltIsLast
  <2>4. Rebuilt(o) = [auth |-> lived, error |-> "none"]
    BY <1>7, <2>3 DEF Reproduced
  <2>5. Candidates[1] = o
    <3>1. Head(journal) = journal[1]
      BY <1>2, <1>7, HeadTailProperties
    <3> QED BY <3>1 DEF Candidates
  <2>6. r = [auth |-> lived, error |-> "none"]
    <3>1. Rebuilt(o).error = "none"
      BY <2>4
    <3> QED BY <2>4, <2>5, <3>1 DEF Reconstruction
  <2>7. r.error = "none" /\ r.auth = lived /\ r.auth.gap = Nowhere
    BY <2>6 DEF Orderly
  <2>8. Unjournaled = {}
    BY <1>2, <1>3, JournaledFacts DEF Unjournaled
  <2> HIDE DEF r, n, o
  <2>9. LaterRun = Started("none", r.auth, InReplayOrder(Unjournaled),
                           Identities(source \ Unjournaled))
    BY <2>2, <2>7, <2>8 DEF LaterRun, r
  <2>10. LaterRun.error = "none" /\ LaterRun.auth = lived
    BY <2>7, <2>9 DEF Started
  <2>11. status' = "up" /\ auth' = lived
    BY <1>7, <2>10 DEF Start
  <2> QED BY <1>5, <1>7, <2>11
<1> QED BY <1>6, <1>7

(* Behind a fence no book executes: a fact leaves gaps, boundaries and books *)
(* alone, and no book is older than the last one.                            *)
LEMMA FencedRoute ==
  ASSUME NEW a \in Authorities, a.recovered = Nowhere, a.books = Nowhere,
         NEW f \in Facts
  PROVE  /\ Route(a, f) # Unroutable("non_monotonic_book")
         /\ \A kind, b : Follows(a, f, kind, b) =>
              b.gap = a.gap /\ b.recovered = Nowhere /\ b.books = Nowhere
<1>1. f.market \in Markets /\ f.at \in Nat /\ (f.kind = "book" => 0 < f.at)
  BY FactFields
<1>2. a.recovered[f.market] = 0 /\ a.books[f.market] = 0
  BY <1>1, NowhereTyped
<1>3. \A kind, b : Follows(a, f, kind, b) =>
        b.gap = a.gap /\ b.recovered = Nowhere /\ b.books = Nowhere
  BY <1>2 DEF Follows
<1>4. ASSUME Route(a, f) = Unroutable("non_monotonic_book") PROVE FALSE
  <2>1. Route(a, f).kind = "error" /\ Route(a, f).error = "non_monotonic_book"
    BY <1>4 DEF Unroutable
  <2>2. Route(a, f) = RouteBook(a, f) /\ f.kind = "book"
    BY <2>1 DEF Route, Routed
  <2>3. a.books[f.market] >= f.at
    BY <2>1, <2>2 DEF RouteBook, Routed, Unroutable
  <2> QED BY <1>1, <1>2, <2>2, <2>3
<1> QED BY <1>3, <1>4

(* A replay of the rows up to the new one has rebuilt the authority. *)
LEMMA ReplayReaches ==
  ASSUME IInv, Orderly, Reproduced, status = "up",
         NEW row, row.started = started, NEW q, q = Append(journal, row), NEW s,
         Replays(s, q[1].started, q, Len(q))
  PROVE  /\ s[Len(journal)] = [auth |-> auth, error |-> "none"]
         /\ s[Len(journal) + 1] = Replay(s[Len(journal)], row)
<1> DEFINE n == Len(journal)
<1>1. /\ n \in Nat /\ Len(q) = n + 1
      /\ \A i \in 1 .. n : q[i] = journal[i]
      /\ q[n + 1] = row
  BY DEF IInv, Typed
<1>2. s = [i \in 0 .. n + 1 |->
             IF i = 0 THEN Blank(q[1].started) ELSE Replay(s[i - 1], q[i])]
  BY <1>1 DEF Replays
<1>3. s[n + 1] = Replay(s[n], row)
  <2>1. n + 1 \in 0 .. n + 1 /\ n + 1 # 0 /\ (n + 1) - 1 = n
    BY <1>1
  <2> QED BY <1>1, <1>2, <2>1
<1>4. CASE journal = <<>>
  <2>1. n = 0 /\ q[1] = row
    BY <1>1, <1>4
  <2>2. s[0] = Blank(started)
    BY <1>2, <2>1
  <2>3. auth = NewAuthority(started)
    BY <1>4 DEF Orderly
  <2> QED BY <1>3, <2>1, <2>2, <2>3 DEF Blank
<1>5. CASE journal # <<>>
  <2>1. n > 0 /\ q[1] = journal[1]
    BY <1>1, <1>5, JournalLength DEF IInv, Typed
  <2> DEFINE t == [i \in 0 .. n |-> s[i]]
  <2>2. \A i \in 0 .. n : t[i] = IF i = 0 THEN Blank(journal[1].started)
                                 ELSE Replay(t[i - 1], journal[i])
    <3> SUFFICES ASSUME NEW i \in 0 .. n
                 PROVE  t[i] = IF i = 0 THEN Blank(journal[1].started)
                               ELSE Replay(t[i - 1], journal[i])
      OBVIOUS
    <3>1. i \in 0 .. n + 1
      BY <1>1
    <3>2. CASE i = 0
      BY <1>2, <2>1, <3>1, <3>2
    <3>3. CASE i # 0
      <4>1. i \in 1 .. n /\ i - 1 \in 0 .. n
        BY <1>1, <3>3
      <4> QED BY <1>1, <1>2, <3>1, <3>3, <4>1
    <3> QED BY <3>2, <3>3
  <2>3. t = [i \in 0 .. n |-> IF i = 0 THEN Blank(journal[1].started)
                              ELSE Replay(t[i - 1], journal[i])]
    BY <2>2
  <2>4. t[n] = s[n]
    BY <1>1
  <2> HIDE DEF t
  <2>5. Replays(t, journal[1].started, journal, n)
    BY <2>3 DEF Replays
  <2>6. t[n] = [auth |-> lived, error |-> "none"]
    BY <1>5, <2>5 DEF Reproduced
  <2>7. auth = lived
    BY <1>5 DEF Orderly
  <2> QED BY <1>3, <2>4, <2>6, <2>7
<1> QED BY <1>4, <1>5

(* The replay of the row an admitted fact has written. *)
LEMMA ReplayAgain ==
  ASSUME Distinct(source), NEW f \in source, NEW row, row.id = Identity(f),
         NEW a \in Authorities, NEW b \in Authorities,
         Route(a, f) = Routed(row.kind, b), row.kind # "error",
         b.opened = row.opened, b.clock = row.clock,
         NEW t, t = [auth |-> a, error |-> "none"]
  PROVE  Replay(t, row) = [auth |-> b, error |-> "none"]
<1> DEFINE facts == {g \in source : Identity(g) = row.id}
<1>1. facts = {f}
  BY DEF Distinct
<1>2. (CHOOSE g \in facts : TRUE) = f /\ facts # {}
  BY <1>1
<1>3. t \in ReplayStates /\ t.error = "none" /\ t.auth = a
  BY DEF ReplayStates
<1>4. Replay(t, row) = ReplaySource(t, row, f)
  BY <1>2, <1>3 DEF Replay
<1>5. ReplaySource(t, row, f) = Verified(t, row, row.kind, b)
  <2>1. Routed(row.kind, b).kind = row.kind /\ Routed(row.kind, b).auth = b
    BY DEF Routed
  <2> QED BY <1>3, <2>1 DEF ReplaySource
<1>6. Verified(t, row, row.kind, b) = [auth |-> b, error |-> "none"]
  BY <1>3, VerifiedFacts
<1> QED BY <1>4, <1>5, <1>6

(* The same store replays the same states. *)
LEMMA SameSource ==
  ASSUME UNCHANGED source, NEW s, NEW o, NEW q, NEW n, Replays(s, o, q, n)'
  PROVE  Replays(s, o, q, n)
<1>1. ASSUME NEW t, NEW row PROVE Replay(t, row)' = Replay(t, row)
  BY DEF Replay
<1> QED BY <1>1 DEF Replays, Blank, NewAuthority

(* An admitted fact keeps the daemon orderly: its replay takes the step the *)
(* router took.                                                             *)
LEMMA AdmitNextOrderly ==
  ASSUME IInv, IInv', Orderly, Reproduced, AdmitNext, plain'
  PROVE  Orderly' /\ Reproduced'
<1> DEFINE f == Head(queue)
           n == Len(journal)
           r == Route(auth, f)
<1>1. /\ status = "up" /\ unwritten = {} /\ queue # <<>>
      /\ UNCHANGED <<source, started, pending, asked, requests>>
      /\ ~ (r.kind = "error" /\ r.error = "stale")
      /\ r.kind # "error" =>
           Commit(Identity(f), r.kind, 0,
                  IF r.kind = "source_retained" THEN f.at ELSE f.rx, r.auth)
  BY DEF AdmitNext, Written, client
<1>2. f \in Facts /\ auth \in Authorities /\ journal \in Seq(Rows) /\ started \in Nat
      /\ f \in ToSet(queue) /\ Distinct(source)
  BY <1>1, QueueTail DEF IInv, Typed, StoreInv, Distinct, ToSet
<1>3. f \in source
  BY <1>1, <1>2 DEF IInv, UpInv, QueueInv
<1> HIDE DEF f
<1>4. r # Unroutable("non_monotonic_book") /\ r # Unroutable("stale")
  BY <1>1, <1>2, FencedRoute DEF Orderly, Unroutable
<1> HIDE DEF r
<1>5. PICK kind \in FactRows, a \in Authorities :
        r = Routed(kind, a) /\ Follows(auth, f, kind, a)
  BY <1>2, <1>4, RouteFollows DEF r
<1> DEFINE time == IF kind = "source_retained" THEN f.at ELSE f.rx
           row == Row(Identity(f), kind, 0, time, a)
<1>6. /\ journal' = Append(journal, row)
      /\ auth' = a /\ lived' = a /\ status' = status
  BY <1>1, <1>5 DEF Commit, Routed, FactRows
<1>7. time \in Nat
  BY <1>2, FactFields
<1> HIDE DEF time
<1>8. /\ row \in Rows /\ row.id = Identity(f) /\ row.kind = kind
      /\ row.opened = a.opened /\ row.clock = a.clock /\ row.started = started
  BY <1>2, <1>5, <1>7, FactRow
<1> HIDE DEF row
<1>9. a.gap = Nowhere /\ a.recovered = Nowhere /\ a.books = Nowhere
  BY <1>2, <1>5, FencedRoute DEF Orderly
<1>10. Reproduced'
  <2> SUFFICES ASSUME NEW q, q = journal', NEW s,
                      Replays(s, q[1].started, q, Len(q))'
               PROVE  s[Len(q)] = [auth |-> a, error |-> "none"]
    BY <1>6 DEF Reproduced
  <2>1. Replays(s, q[1].started, q, Len(q))
    BY <1>1, SameSource
  <2>2. /\ s[n] = [auth |-> auth, error |-> "none"]
        /\ s[n + 1] = Replay(s[n], row)
    BY <1>1, <1>6, <1>8, <2>1, ReplayReaches
  <2>3. Len(q) = n + 1
    BY <1>2, <1>6
  <2>4. kind # "error"
    BY DEF FactRows
  <2>5. Replay(s[n], row) = [auth |-> a, error |-> "none"]
    BY <1>2, <1>3, <1>5, <1>8, <2>2, <2>4, ReplayAgain DEF r
  <2> QED BY <2>2, <2>3, <2>5
<1>11. /\ n \in Nat /\ DOMAIN journal = 1 .. n /\ DOMAIN journal' = 1 .. n + 1
       /\ \A i \in 1 .. n : journal'[i] = journal[i]
       /\ journal'[n + 1] = row /\ journal' # <<>>
  BY <1>2, <1>6, <1>8, JournalGrows
<1>12. \A i \in DOMAIN journal' : journal'[i].id.kind \in FactKinds
  BY <1>2, <1>8, <1>11, IdentityFacts, IndexStep DEF Orderly
<1>13. \A g \in source' : g \in ToSet(queue') \/ IsJournaled(Identity(g))'
  BY <1>1, <1>6 DEF IInv, UpInv, QueueInv
<1> QED BY <1>1, <1>6, <1>9, <1>10, <1>11, <1>12, <1>13 DEF Orderly

(* Every step that keeps the connection and the evidence fresh keeps the daemon *)
(* orderly.                                                                     *)
LEMMA NextOrderly ==
  ASSUME IInv, IInv', OrderlyInv, [Next]_vars
  PROVE  OrderlyInv'
<1> SUFFICES ASSUME settled', plain' PROVE Orderly' /\ Reproduced'
  BY DEF OrderlyInv
<1> USE DEF stores, process, batch, client, history
<1>1. settled /\ plain
  <2>1. Start \/ Crash \/ Disconnect \/ ReceiveRequest \/ Flush \/ WritePartition
          \/ AdmitNext => settled /\ plain
    BY DEF Start, Crash, Disconnect, ReceiveRequest, Flush, WritePartition, AdmitNext
  <2>2. (\E m \in Markets : \/ \E latency \in Latencies : ReceiveBook(m, latency)
                            \/ ReceiveTrade(m)) => settled /\ plain
    BY DEF ReceiveBook, ReceiveTrade, Receive
  <2>3. (\E r \in requests : Answer(r) \/ Unavailable(r)) => settled /\ plain
    BY DEF Answer, Unavailable
  <2>4. (\E facts \in SUBSET Capturable(now + 1) : facts # {} /\ Capture(facts))
          => settled /\ plain
    BY DEF Capture
  <2>5. UNCHANGED vars => settled /\ plain
    BY DEF vars
  <2> QED BY <2>1, <2>2, <2>3, <2>4, <2>5 DEF Next
<1>2. Orderly /\ Reproduced
  BY <1>1 DEF OrderlyInv
<1>3. pending = Nowhere /\ asked = <<>> /\ requests = {}
  BY <1>2 DEF Orderly
<1>4. CASE Start
  BY <1>2, <1>4, StartOrderly
<1>5. CASE Crash
  BY <1>2, <1>5, CrashOrderly
<1>6. ASSUME NEW m \in Markets, NEW latency \in Latencies, ReceiveBook(m, latency)
      PROVE  Orderly' /\ Reproduced'
  <2>1. /\ UNCHANGED <<stores, process, auth, queue, requests, lived>> /\ status = "up"
        /\ asked' = <<>> /\ pending' = [pending EXCEPT ![m] = 0]
    BY <1>3, <1>6, NowhereTyped DEF ReceiveBook, Receive, Ready, Idle
  <2>2. pending' = Nowhere
    BY <1>3, <2>1, NowhereTyped
  <2> QED BY <1>2, <2>1, <2>2, OrderlyKept
<1>7. CASE \E m \in Markets : ReceiveTrade(m)
  BY <1>2, <1>3, <1>7, OrderlyKept DEF ReceiveTrade, Receive, Ready, Idle
<1>8. CASE Disconnect
  BY <1>8 DEF Disconnect
<1>9. CASE ReceiveRequest
  BY <1>3, <1>9 DEF ReceiveRequest
<1>10. CASE Flush
  BY <1>2, <1>3, <1>10, OrderlyKept DEF Flush, Idle
<1>11. CASE WritePartition
  <2>1. /\ UNCHANGED <<journal, status, started, auth, requests, lived, pending, asked>>
        /\ status = "up" /\ source \subseteq source'
    BY <1>11 DEF WritePartition
  <2> QED BY <1>2, <1>3, <2>1, OrderlyKept
<1>12. CASE AdmitNext
  BY <1>2, <1>12, AdmitNextOrderly
<1>13. ASSUME NEW facts, Capture(facts)
       PROVE  Orderly' /\ Reproduced'
  <2>1. /\ UNCHANGED <<journal, started, auth, requests, lived, pending, asked>>
        /\ status = "up" /\ source \subseteq source'
        /\ status' = status \/ UNCHANGED <<source, queue>>
    BY <1>13 DEF Capture, Idle
  <2> QED BY <1>2, <1>3, <2>1, OrderlyKept
<1>14. CASE UNCHANGED vars
  <2>1. UNCHANGED <<source, journal, status, started, auth, queue, requests,
                    lived, pending, asked>>
    BY <1>14 DEF vars
  <2>2. status' = "up" \/ UNCHANGED <<source, queue>>
    BY <2>1
  <2> QED BY <1>2, <1>3, <2>1, OrderlyKept
<1> QED BY <1>3, <1>4, <1>5, <1>6, <1>7, <1>8, <1>9, <1>10, <1>11, <1>12,
           <1>13, <1>14 DEF Next

(* A daemon that kept its connection, retained no stale book and stopped with *)
(* nothing queued starts again, in one run or over several                    *)
(* (reconstruct_authority, verify_historical_outcome).                        *)
THEOREM OrderlyRestarts == Spec => OrderlyStopsRestart
<1>1. IInv /\ OrderlyInv /\ [Next]_vars =>
        [(Start /\ settled /\ plain) => status' = "up"]_vars
  <2> SUFFICES ASSUME IInv, OrderlyInv, [Next]_vars, Start, settled, plain
               PROVE  status' = "up"
    OBVIOUS
  <2>1. IInv' /\ Orderly /\ Reproduced
    BY NextInv DEF OrderlyInv
  <2> QED BY <2>1, StartOrderly
<1>2. IInv /\ IInv' /\ OrderlyInv /\ [Next]_vars => OrderlyInv'
  BY NextOrderly
<1> QED BY <1>1, <1>2, InitOrderly, JournalInvariant, PTL DEF Spec, OrderlyStopsRestart

(* The book the entries say of a market is the one the invariant speaks of. *)
LEMMA LastBookIsBook ==
  ASSUME NEW q, NEW n \in Nat, DOMAIN q = 1 .. n, NEW m, NEW b, IsBook(q, n, m, b)
  PROVE  Abstract!LastBook(q, m) = b
<1> DEFINE booked == {i \in DOMAIN q : /\ q[i].id.market = m
                                      /\ q[i].kind \in Abstract!Bookings}
           latest == CHOOSE i \in booked : \A j \in booked : j <= i
<1>1. Abstract!LastBook(q, m) = IF booked # {} /\ q[latest].kind = "executable_book"
                                THEN q[latest].id.at ELSE 0
  BY DEF Abstract!LastBook
<1>2. \A i : i \in booked <=> i \in 1 .. n /\ Matches(q, i, m, BookKinds)
  BY DEF Matches, BookKinds, Abstract!Bookings
<1> HIDE DEF booked
<1>3. CASE b = 0 /\ \A k \in 1 .. n : ~ Matches(q, k, m, BookKinds)
  <2>1. booked = {}
    BY <1>2, <1>3
  <2> QED BY <1>1, <1>3, <2>1
<1>4. ASSUME NEW j \in 1 .. n, Latest(q, n, m, BookKinds, j),
             b = IF q[j].kind = "executable_book" THEN q[j].id.at ELSE 0
      PROVE  Abstract!LastBook(q, m) = b
  <2>1. j \in booked /\ \A k \in booked : k \in 1 .. n /\ k <= j
    BY <1>2, <1>4 DEF Latest
  <2>2. latest \in booked /\ \A k \in booked : k <= latest
    BY <2>1
  <2> HIDE DEF latest
  <2>3. latest = j
    BY <2>1, <2>2
  <2> QED BY <1>1, <1>4, <2>1, <2>3
<1> QED BY <1>3, <1>4 DEF IsBook

(* The ledger the rows of q say. *)
LEMMA LedgerSaid ==
  ASSUME NEW q \in Seq(Rows), q # <<>>, NEW a \in Authorities,
         q[Len(q)].opened = a.opened, q[Len(q)].clock = a.clock,
         \A m \in Markets : IsBook(q, Len(q), m, a.books[m])
  PROVE  Abstract!Ledger(q) =
           [opened |-> a.opened, clock |-> a.clock, books |-> a.books]
<1>1. Len(q) \in Nat /\ DOMAIN q = 1 .. Len(q)
  BY LenProperties
<1>2. \A m \in Markets : Abstract!LastBook(q, m) = a.books[m]
  BY <1>1, LastBookIsBook
<1>3. a.books = [m \in Markets |-> Abstract!LastBook(q, m)]
  BY <1>2, AuthorityFields
<1> QED BY <1>3 DEF Abstract!Ledger

(* The ledger in memory is the one the journal says. *)
LEMMA MemorySaid ==
  ASSUME IInv, status = "up", journal # <<>>
  PROVE  Memory = {Abstract!Ledger(journal)}
<1>1. /\ journal \in Seq(Rows) /\ auth \in Authorities
      /\ AuthInv /\ LivedInv
  BY DEF IInv, Typed, UpInv
<1>2. /\ journal[Len(journal)].opened = auth.opened
      /\ journal[Len(journal)].clock = auth.clock
      /\ \A m \in Markets : IsBook(journal, Len(journal), m, auth.books[m])
  BY <1>1 DEF AuthInv, LivedInv
<1> QED BY <1>1, <1>2, LedgerSaid DEF Memory

(* A book of the ledger in memory is behind its clock. *)
LEMMA BooksBehindClock ==
  ASSUME IInv, status = "up", NEW m \in Markets
  PROVE  auth.books[m] = 0 \/ auth.books[m] < auth.clock
<1> DEFINE n == Len(journal)
<1>1. /\ journal \in Seq(Rows) /\ n \in Nat /\ DOMAIN journal = 1 .. n
      /\ AuthInv /\ LivedInv /\ auth \in Authorities
  BY JournalLength DEF IInv, Typed, UpInv
<1>2. IsBook(journal, n, m, auth.books[m])
  BY <1>1 DEF AuthInv, LivedInv
<1>3. ASSUME NEW j \in 1 .. n, journal[j].kind = "executable_book",
             auth.books[m] = journal[j].id.at
      PROVE  auth.books[m] < auth.clock
  <2>1. journal # <<>> /\ journal[j] \in Rows
    BY <1>1, JournalLength
  <2>2. /\ journal[j].id.at \in Nat /\ journal[j].clock \in Nat
        /\ journal[j].id.at < journal[j].clock
    BY <1>3, <2>1, RowFields
  <2>3. journal[j].clock <= auth.clock /\ auth.clock \in Nat
    BY <1>1, <2>1, AuthorityFields DEF AuthInv, LivedInv
  <2> QED BY <1>3, <2>2, <2>3
<1> QED BY <1>2, <1>3 DEF IsBook

(* What a row must be for the ledger to admit it. *)
Admissible(row) ==
  /\ row.opened = auth.opened /\ auth.clock <= row.clock
  /\ row.kind = "executable_book" => auth.books[row.id.market] < row.id.at
  /\ row.id.kind \in FactKinds \/ ~ Journaled(row.id, row.generation)

(* One more row of a process that goes on is one entry admitted. *)
LEMMA RowAdmits ==
  ASSUME IInv, IInv', status = "up", status' = "up", UNCHANGED source,
         NEW row \in Rows, journal' = Append(journal, row), Admissible(row),
         Memory' = {Abstract!Ledger(journal')}
  PROVE  Abstract!Admit
<1> DEFINE n == Len(journal)
<1>1. /\ n \in Nat /\ DOMAIN journal = 1 .. n
      /\ journal' # <<>> /\ Len(journal') = n + 1 /\ DOMAIN journal' = 1 .. n + 1
      /\ \A i \in 1 .. n : journal'[i] = journal[i]
      /\ journal'[n + 1] = row
  BY JournalGrows DEF IInv, Typed
<1>2. /\ row.id.kind \in FactKinds \cup {"request", "recovered"}
      /\ (row.kind = "recovery_request") <=> (row.id.kind = "request")
      /\ (row.kind = "market_recovered") <=> (row.id.kind = "recovered")
      /\ row.kind = "executable_book" => row.id.at < row.clock
  BY RowFields
<1>3. Abstract!Continues(row, [opened |-> auth.opened, clock |-> auth.clock,
                               books |-> auth.books])
  BY <1>2 DEF Abstract!Continues, Admissible
<1>4. \E ledger \in Memory : Abstract!Continues(row, ledger)
  BY <1>3 DEF Memory
<1>5. row.kind \in Abstract!Recoveries \/ row.id \in Identities(source)
  <2>1. CASE row.id.kind \in FactKinds
    <3>1. journal'[n + 1].id \in Identities(source)'
      BY <1>1, <2>1 DEF IInv, StoreInv
    <3> QED BY <1>1, <3>1 DEF Identities
  <2>2. CASE row.id.kind \notin FactKinds
    BY <1>2, <2>2 DEF Abstract!Recoveries
  <2> QED BY <2>1, <2>2
<1>6. \A i \in DOMAIN journal : journal[i].id = row.id => journal[i].generation # row.generation
  <2>1. CASE row.id.kind \in FactKinds
    <3> SUFFICES ASSUME NEW i \in 1 .. n, journal[i].id = row.id PROVE FALSE
      BY <1>1
    <3>1. i \in 1 .. n + 1 /\ n + 1 \in 1 .. n + 1 /\ i # n + 1
      BY <1>1
    <3>2. i = n + 1
      BY <1>1, <2>1, <3>1 DEF IInv, StoreInv
    <3> QED BY <3>1, <3>2
  <2>2. CASE ~ Journaled(row.id, row.generation)
    BY <2>2 DEF Journaled
  <2> QED BY <2>1, <2>2 DEF Admissible
<1>7. UNCHANGED Identities(source)
  BY DEF Identities
<1> HIDE DEF n
<1> QED BY <1>1, <1>4, <1>5, <1>6, <1>7 DEF Abstract!Admit

(* A step of the abstract ledger, or none. *)
Refines == Abstract!Step \/ UNCHANGED Abstract!durableVars

(* The process ends by an error, or was not running: nothing durable changes. *)
LEMMA EndRefines ==
  ASSUME status' # "up", UNCHANGED <<source, journal>>
  PROVE  Refines
<1>1. Memory' = {}
  BY DEF Memory
<1>2. UNCHANGED Identities(source)
  BY DEF Identities
<1> QED BY <1>1, <1>2
        DEF Refines, Abstract!Step, Abstract!End, Abstract!durableVars

(* The stores and the ledger in memory are left alone. *)
LEMMA UnchangedRefines ==
  ASSUME UNCHANGED <<source, journal, status>>,
         auth'.opened = auth.opened, auth'.clock = auth.clock,
         auth'.books = auth.books
  PROVE  Refines
<1>1. UNCHANGED Identities(source) /\ UNCHANGED Memory
  BY DEF Identities, Memory
<1> QED BY <1>1 DEF Refines, Abstract!durableVars

(* A running process stores evidence. *)
LEMMA StoreRefines ==
  ASSUME status = "up", source \subseteq source', UNCHANGED <<journal, status, auth>>
  PROVE  Refines
<1>1. Memory # {} /\ UNCHANGED Memory
  BY DEF Memory
<1>2. Identities(source) \subseteq Identities(source')
  BY DEF Identities
<1> QED BY <1>1, <1>2 DEF Refines, Abstract!Step, Abstract!Store, Identities

(* One more row of a running process. *)
LEMMA RowRefines ==
  ASSUME IInv, IInv', status = "up", UNCHANGED <<source, status>>,
         NEW row \in Rows, journal' = Append(journal, row), Admissible(row)
  PROVE  Refines
<1>1. journal' # <<>>
  BY JournalGrows DEF IInv, Typed
<1>2. Memory' = {Abstract!Ledger(journal')}
  <2>1. IInv /\ status = "up" /\ journal # <<>> => Memory = {Abstract!Ledger(journal)}
    BY MemorySaid
  <2>2. (IInv /\ status = "up" /\ journal # <<>> =>
           Memory = {Abstract!Ledger(journal)})'
    BY MemorySaid, PTL
  <2> QED BY <1>1, <2>2
<1> QED BY <1>2, RowAdmits DEF Refines, Abstract!Step

(* admit_market_event admits the row of a fact. *)
LEMMA AdmitNextRefines ==
  ASSUME IInv, IInv', AdmitNext
  PROVE  Refines
<1> DEFINE f == Head(queue)
<1>1. /\ status = "up" /\ queue # <<>> /\ UNCHANGED source
      /\ Admitted(f).kind = "error" => Fail(Admitted(f).error)
      /\ Admitted(f).kind # "error" =>
           Commit(Identity(f), Admitted(f).kind, 0,
                  IF Admitted(f).kind = "source_retained" THEN f.at ELSE f.rx,
                  Admitted(f).auth)
  BY DEF AdmitNext, Admitted
<1>2. f \in Facts /\ auth \in Authorities /\ started \in Nat
  BY <1>1, QueueTail DEF IInv, Typed
<1> HIDE DEF f
<1>3. CASE Admitted(f) = Unroutable("non_monotonic_book")
  <2>1. status' = "non_monotonic_book" /\ UNCHANGED journal
    BY <1>1, <1>3 DEF Unroutable, Fail
  <2> QED BY <1>1, <2>1, EndRefines
<1>4. ASSUME NEW kind \in FactRows, NEW a \in Authorities,
             Admitted(f) = Routed(kind, a), Follows(auth, f, kind, a)
      PROVE  Refines
  <2> DEFINE time == IF kind = "source_retained" THEN f.at ELSE f.rx
             row == Row(Identity(f), kind, 0, time, a)
  <2>1. journal' = Append(journal, row) /\ status' = status
    BY <1>1, <1>4 DEF Commit, Routed, FactRows
  <2>2. time \in Nat
    BY <1>2, FactFields
  <2> HIDE DEF time
  <2>3. /\ row \in Rows /\ row.id = Identity(f) /\ row.kind = kind
        /\ row.opened = a.opened /\ row.clock = a.clock
    BY <1>2, <1>4, <2>2, FactRow
  <2> HIDE DEF row
  <2>4. /\ row.id.kind \in FactKinds /\ row.id.market = f.market
        /\ row.id.at = f.at /\ f.market \in Markets /\ f.at \in Nat
    BY <1>2, <2>3, IdentityFacts, FactFields
  <2>5. row.opened = auth.opened /\ auth.clock <= row.clock
    BY <1>2, <1>4, <2>3, AuthorityFields DEF Follows
  <2>6. ASSUME kind = "executable_book" PROVE auth.books[f.market] < f.at
    <3>1. /\ auth.clock <= f.at /\ auth.recovered[f.market] > 0
          /\ f.at > auth.recovered[f.market]
      BY <1>4, <2>6 DEF Follows
    <3>2. /\ auth.clock \in Nat /\ auth.recovered[f.market] \in Nat
          /\ auth.books[f.market] \in Nat
      BY <1>2, <2>4, AuthorityFields
    <3>3. auth.books[f.market] = 0 \/ auth.books[f.market] < auth.clock
      BY <1>1, <2>4, BooksBehindClock
    <3> QED BY <2>4, <3>1, <3>2, <3>3
  <2>7. Admissible(row)
    BY <2>3, <2>4, <2>5, <2>6 DEF Admissible
  <2> QED BY <1>1, <2>1, <2>3, <2>7, RowRefines
<1> QED BY <1>2, <1>3, <1>4, AdmittedFollows

(* The row of a recovery's request or completion. *)
LEMMA RecoveryAdmissible ==
  ASSUME NEW id \in RecoveryIds, NEW kind, NEW g \in Nat, NEW time \in Nat,
         NEW a \in Authorities, started \in Nat,
         (kind = "recovery_request" /\ id.kind = "request") \/
           (kind = "market_recovered" /\ id.kind = "recovered"),
         a.opened = auth.opened, auth.clock <= a.clock, ~ Journaled(id, g)
  PROVE  Row(id, kind, g, time, a) \in Rows /\ Admissible(Row(id, kind, g, time, a))
<1> DEFINE row == Row(id, kind, g, time, a)
<1>1. row = [id |-> id, kind |-> kind, generation |-> g, time |-> time,
             started |-> started, opened |-> a.opened, clock |-> a.clock]
  BY DEF Row
<1>2. a.opened \in Nat /\ a.clock \in Nat
  BY AuthorityFields
<1>3. kind \in {"recovery_request", "market_recovered"} /\ kind # "executable_book"
      /\ id.kind \notin FactKinds
      /\ (kind = "recovery_request" <=> id.kind = "request")
      /\ (kind = "market_recovered" <=> id.kind = "recovered")
  BY DEF FactKinds
<1> HIDE DEF row
<1>4. row \in Rows
  BY <1>1, <1>2, <1>3 DEF Rows
<1>5. Admissible(row)
  BY <1>1, <1>3 DEF Admissible
<1> QED BY <1>4, <1>5 DEF row

(* A journaled request is admitted; a refused one ends the process. *)
LEMMA ReceiveRequestRefines ==
  ASSUME IInv, IInv', ReceiveRequest
  PROVE  Refines
<1> DEFINE r == asked[1]
           a == [auth EXCEPT !.clock = r.rx]
<1>1. status = "up" /\ asked # <<>> /\ UNCHANGED source
  BY DEF ReceiveRequest, Ready, Idle
<1>2. /\ r.market \in Markets /\ r.generation \in Nat
      /\ r.at \in Nat /\ r.rx \in Nat
  BY <1>1, AskedFacts DEF IInv
<1>3. auth \in Authorities /\ auth.clock \in Nat /\ started \in Nat
  BY AuthorityFields DEF IInv, Typed
<1>4. \/ Fail("event_conflict") \/ Fail("backward_time")
      \/ /\ ~ Journaled(RequestId(r), r.generation) /\ r.rx >= auth.clock
         /\ Commit(RequestId(r), "recovery_request", r.generation, r.rx, a)
  BY <1>2, <1>3 DEF ReceiveRequest
<1> HIDE DEF r
<1>5. CASE Fail("event_conflict") \/ Fail("backward_time")
  <2>1. status' \in {"event_conflict", "backward_time"} /\ UNCHANGED journal
    BY <1>5 DEF Fail
  <2> QED BY <1>1, <2>1, EndRefines
<1>6. CASE /\ ~ Journaled(RequestId(r), r.generation) /\ r.rx >= auth.clock
           /\ Commit(RequestId(r), "recovery_request", r.generation, r.rx, a)
  <2>1. a \in Authorities /\ a.opened = auth.opened /\ a.clock = r.rx
    BY <1>2, <1>3 DEF Authorities
  <2>2. RequestId(r) \in RecoveryIds /\ RequestId(r).kind = "request"
    BY <1>2 DEF RequestId, RecoveryIds
  <2> DEFINE row == Row(RequestId(r), "recovery_request", r.generation, r.rx, a)
  <2>3. journal' = Append(journal, row) /\ status' = status
    BY <1>6 DEF Commit
  <2> HIDE DEF a
  <2>4. auth.clock <= a.clock
    BY <1>2, <1>3, <1>6, <2>1
  <2>5. row \in Rows /\ Admissible(row)
    BY <1>2, <1>3, <1>6, <2>1, <2>2, <2>4, RecoveryAdmissible
  <2> HIDE DEF row
  <2> QED BY <1>1, <2>3, <2>5, RowRefines
<1> QED BY <1>4, <1>5, <1>6

(* A completed recovery is admitted; a refused answer ends the process. *)
LEMMA AnswerRefines ==
  ASSUME IInv, IInv', NEW r \in requests, Answer(r)
  PROVE  Refines
<1> DEFINE boundary == NextBoundary(r.at)
           a == Completed(auth, r.market, boundary)
<1>1. status = "up" /\ UNCHANGED source
  BY DEF Answer, Ready, Idle
<1>2. r.market \in Markets /\ r.generation \in Nat /\ r.at \in Nat
  BY DEF IInv, Typed, Asks
<1>3. auth \in Authorities /\ auth.clock \in Nat /\ started \in Nat /\ boundary \in Nat
  BY <1>2, BoundaryTyped, AuthorityFields DEF IInv, Typed
<1>4. \/ Refusal(auth, r) # "none" /\ Fail(Refusal(auth, r))
      \/ Fail("event_conflict")
      \/ /\ ~ Journaled(RecoveredId(r), r.generation)
         /\ Commit(RecoveredId(r), "market_recovered", r.generation, boundary, a)
  BY DEF Answer
<1> HIDE DEF boundary
<1>5. CASE (Refusal(auth, r) # "none" /\ Fail(Refusal(auth, r))) \/ Fail("event_conflict")
  <2>1. Refusal(auth, r) \in {"generation_mismatch", "missing_snapshot",
                              "snapshot_mismatch", "none"}
    BY DEF Refusal
  <2>2. status' # "up" /\ UNCHANGED journal
    BY <1>5, <2>1 DEF Fail
  <2> QED BY <1>1, <2>2, EndRefines
<1>6. CASE /\ ~ Journaled(RecoveredId(r), r.generation)
           /\ Commit(RecoveredId(r), "market_recovered", r.generation, boundary, a)
  <2>1. a \in Authorities /\ a.opened = auth.opened /\ a.clock = auth.clock
    BY <1>2, <1>3 DEF Completed, Authorities
  <2>2. RecoveredId(r) \in RecoveryIds /\ RecoveredId(r).kind = "recovered"
    BY <1>2 DEF RecoveredId, RecoveryIds
  <2> DEFINE row == Row(RecoveredId(r), "market_recovered", r.generation, boundary, a)
  <2>3. journal' = Append(journal, row) /\ status' = status
    BY <1>6 DEF Commit
  <2> HIDE DEF a
  <2>4. auth.clock <= a.clock
    BY <1>3, <2>1
  <2>5. row \in Rows /\ Admissible(row)
    BY <1>2, <1>3, <1>6, <2>1, <2>2, <2>4, RecoveryAdmissible
  <2> HIDE DEF row
  <2> QED BY <1>1, <2>3, <2>5, RowRefines
<1> QED BY <1>4, <1>5, <1>6

(* A first run opens a new ledger at a moment of its run, a later run resumes *)
(* the ledger the journal says, a refused one holds none.                     *)
LEMMA StartRefines ==
  ASSUME IInv, IInv', Start
  PROVE  Refines
<1>1. /\ FirstStart \/ RefusedStart \/ LaterStart
      /\ status = "down" /\ UNCHANGED <<source, journal>>
  BY StartCases DEF stores
<1>2. Memory = {} /\ UNCHANGED Identities(source)
  BY <1>1 DEF Memory, Identities
<1>3. CASE RefusedStart
  BY <1>1, <1>3, EndRefines DEF RefusedStart
<1>4. CASE LaterStart
  <2>1. (IInv /\ status = "up" /\ journal # <<>> =>
           Memory = {Abstract!Ledger(journal)})'
    BY MemorySaid, PTL
  <2>2. Memory' = {Abstract!Ledger(journal)} /\ journal # <<>>
    BY <1>1, <1>4, <2>1 DEF LaterStart
  <2> QED BY <1>1, <1>2, <2>2 DEF Refines, Abstract!Step, Abstract!Resume
<1>5. CASE FirstStart
  <2> DEFINE opening == IF source = {} THEN now + 1
                        ELSE Lesser(Head(InReplayOrder(source)).at, now + 1)
  <2>1. /\ auth' = NewAuthority(opening) /\ now < MaxTime
        /\ status' = "up" /\ journal = <<>>
    BY <1>5 DEF Start, FirstStart, FirstRun, Started
  <2>2. /\ source \in SUBSET Facts /\ IsFiniteSet(source) /\ Distinct(source)
        /\ now \in Nat /\ MaxTime \in Nat
    BY BoundFacts DEF IInv, Typed, StoreInv, Distinct
  <2>3. opening \in 0 .. MaxTime
    <3>1. CASE source = {}
      BY <2>1, <2>2, <3>1
    <3>2. CASE source # {}
      <4>1. Head(InReplayOrder(source)).at \in Nat
        BY <2>2, <3>2, FirstOpening
      <4> QED BY <2>1, <2>2, <3>2, <4>1 DEF Lesser
    <3> QED BY <3>1, <3>2
  <2> HIDE DEF opening
  <2>4. Memory' = {Abstract!NewLedger(opening)}
    BY <2>1 DEF Memory, NewAuthority, Nowhere, Abstract!NewLedger
  <2> QED BY <1>1, <1>2, <2>1, <2>3, <2>4 DEF Refines, Abstract!Step, Abstract!Open
<1> QED BY <1>1, <1>3, <1>4, <1>5

(* Every step of the daemon is a step of the abstract ledger, or none. *)
LEMMA StepRefines ==
  ASSUME IInv, IInv', [Next]_vars
  PROVE  Refines
<1>1. CASE Start
  BY <1>1, StartRefines
<1>2. CASE Crash
  BY <1>2, EndRefines DEF Crash, stores
<1>3. CASE \E m \in Markets : \/ \E latency \in Latencies : ReceiveBook(m, latency)
                              \/ ReceiveTrade(m)
  BY <1>3, UnchangedRefines DEF ReceiveBook, ReceiveTrade, Receive, stores, process
<1>4. CASE Disconnect
  BY <1>4, UnchangedRefines DEF Disconnect, stores, process, GapsOpened, IInv, Typed, Authorities
<1>5. CASE ReceiveRequest
  BY <1>5, ReceiveRequestRefines
<1>6. CASE \E r \in requests : Answer(r)
  BY <1>6, AnswerRefines
<1>7. CASE \E r \in requests : Unavailable(r)
  BY <1>7, UnchangedRefines DEF Unavailable, stores, process, IInv, Typed, Authorities
<1>8. CASE Flush
  <2>1. /\ UNCHANGED <<source, journal, auth>>
        /\ status' = "conflicting_event" \/ UNCHANGED status
    BY <1>8 DEF Flush, stores
  <2> QED BY <2>1, EndRefines, UnchangedRefines
<1>9. CASE WritePartition
  <2>1. status = "up" /\ source \subseteq source' /\ UNCHANGED <<journal, status, auth>>
    BY <1>9 DEF WritePartition, process
  <2> QED BY <2>1, StoreRefines
<1>10. CASE AdmitNext
  BY <1>10, AdmitNextRefines
<1>11. CASE \E facts \in SUBSET Capturable(now + 1) : facts # {} /\ Capture(facts)
  <2>1. PICK facts : Capture(facts)
    BY <1>11
  <2>2. /\ status = "up" /\ UNCHANGED <<journal, auth>>
        /\ \/ status' = "conflicting_event" /\ UNCHANGED source
           \/ source \subseteq source' /\ UNCHANGED status
    BY <2>1 DEF Capture, Idle
  <2> QED BY <2>2, EndRefines, StoreRefines
<1>12. CASE UNCHANGED vars
  BY <1>12, UnchangedRefines DEF vars, stores, process
<1> QED BY <1>1, <1>2, <1>3, <1>4, <1>5, <1>6, <1>7, <1>8, <1>9, <1>10, <1>11, <1>12
        DEF Next

(* The daemon implements the event-sourced ledger: at every moment the ledger  *)
(* in memory is the one the journal says, every row is admitted once behind its *)
(* evidence, and a restart resumes that ledger (admit_market_event,             *)
(* admit_recovery_result, reconstruct_authority).                               *)
THEOREM JournalRefines == Spec => ImplementsDurableLedger
<1>1. Init => Abstract!Blank
  BY DEF Init, Abstract!Blank, Memory, Identities
<1>2. IInv /\ IInv' /\ [Next]_vars => [Abstract!Step]_(Abstract!durableVars)
  BY StepRefines DEF Refines
<1> QED BY <1>1, <1>2, JournalInvariant, PTL
        DEF Spec, ImplementsDurableLedger, Abstract!Durable
=============================================================================
