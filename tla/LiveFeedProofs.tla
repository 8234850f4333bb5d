--------------------------- MODULE LiveFeedProofs ---------------------------
(***************************************************************************)
(* The live path never opens a fence early, never closes a gap on the     *)
(* evidence of another and never executes a book behind either: proofs    *)
(* for every set of markets, capacity, latency and bound.                 *)
(*                                                                         *)
(* The argument follows the requests of a market through the channel.  A  *)
(* gap that becomes pending is sent before its request, and the client    *)
(* sends no second request before the next gap: so between two places of  *)
(* the channel that ask for a recovery there is a gap (Spaced), and a     *)
(* request with no gap before it belongs to the gap the router has open   *)
(* (Unfenced => Fenced).  A queued request names its snapshot by receipt, *)
(* which commits never defer again, so an answer to an older request is   *)
(* refused while the market is fenced.  A commit is a recursion over its  *)
(* batch; what it keeps is proved by induction over the books.            *)
(***************************************************************************)
EXTENDS LiveFeedProperties, FiniteSetTheorems, WellFoundedInduction, TLAPS

(* Received after its own event time, and not in the future. *)
Fresh(item) == item.at < item.rx /\ item.rx <= now

(* The natural numbers are well ordered by the relation of <. *)
LEMMA NatsWellFounded ==
  \E R : /\ IsWellFoundedOn(R, Nat)
         /\ \A x, y \in Nat : <<y, x>> \in R <=> y < x
<1>1. \A x, y \in Nat : <<y, x>> \in OpToRel(<, Nat) <=> y < x
  BY DEF OpToRel
<1> QED BY <1>1, NatLessThanWellFounded

(* Induction over the natural numbers, for a set of them: what holds of no  *)
(* book committed, and of one more whenever it holds of some, holds of all. *)
LEMMA SetInduction ==
  ASSUME NEW P \in SUBSET Nat, 0 \in P, \A n \in P : n + 1 \in P
  PROVE  P = Nat
<1> SUFFICES ASSUME Nat \ P # {} PROVE FALSE
  OBVIOUS
<1> DEFINE T == Nat \ P
<1>1. PICK R : /\ IsWellFoundedOn(R, Nat)
               /\ \A x, y \in Nat : <<y, x>> \in R <=> y < x
  BY NatsWellFounded
<1>2. T \subseteq Nat /\ T # {}
  OBVIOUS
<1>3. IsWellFoundedOn(R, Nat)
  BY <1>1
<1> HIDE DEF T
<1>4. \E x \in T : \A y \in T : ~ (<<y, x>> \in R)
  BY <1>2, <1>3, WFMin
<1>5. PICK x \in T : \A y \in T : ~ (<<y, x>> \in R)
  BY <1>4
<1>6. x \in Nat \ {0} /\ x \notin P
  BY DEF T
<1>7. x - 1 \in Nat /\ x - 1 < x /\ x = (x - 1) + 1
  BY <1>6
<1>8. x - 1 \notin P
  BY <1>6, <1>7
<1>9. x - 1 \in T
  BY <1>7, <1>8 DEF T
<1>10. <<x - 1, x>> \in R
  BY <1>1, <1>6, <1>7
<1> QED BY <1>5, <1>9, <1>10

(* s is the sequence of states the first n books of a batch are committed *)
(* through, from start on.                                                *)
Commits(s, start, batch, n) ==
  s = [i \in 0 .. n |-> IF i = 0 THEN start ELSE Admit(s[i - 1], batch[i])]

(* The states a batch is committed through exist, however long it is. *)
LEMMA CommitSteps ==
  ASSUME NEW batch, NEW start, NEW n \in Nat
  PROVE  \E s : Commits(s, start, batch, n)
<1> DEFINE Def(s, k) == [i \in 0 .. k |->
                           IF i = 0 THEN start ELSE Admit(s[i - 1], batch[i])]
           P == {k \in Nat : \E s : s = Def(s, k)}
<1>1. 0 \in P
  <2> DEFINE s == [i \in 0 .. 0 |-> start]
  <2>1. s = Def(s, 0)
    OBVIOUS
  <2> QED BY <2>1
<1>2. ASSUME NEW k \in P PROVE k + 1 \in P
  <2>1. PICK s : s = Def(s, k)
    OBVIOUS
  <2> DEFINE t == [i \in 0 .. k + 1 |->
                     IF i = k + 1 THEN Admit(s[k], batch[k + 1]) ELSE s[i]]
  <2>2. ASSUME NEW i \in 0 .. k + 1
        PROVE  t[i] = IF i = 0 THEN start ELSE Admit(t[i - 1], batch[i])
    <3>1. k \in Nat
      OBVIOUS
    <3>2. CASE i = k + 1
      <4>1. i - 1 = k /\ k \in 0 .. k + 1 /\ k # k + 1
        BY <3>1, <3>2
      <4>2. t[i - 1] = s[k]
        BY <4>1
      <4>3. t[i] = Admit(s[k], batch[k + 1]) /\ i # 0
        BY <3>1, <3>2
      <4> QED BY <3>2, <4>2, <4>3
    <3>3. CASE i # k + 1 /\ i # 0
      <4>1. i \in 0 .. k /\ i - 1 \in 0 .. k + 1 /\ i - 1 # k + 1
        BY <3>1, <3>3
      <4>2. t[i] = s[i] /\ t[i - 1] = s[i - 1]
        BY <4>1, <3>3
      <4>3. s[i] = Admit(s[i - 1], batch[i])
        BY <2>1, <4>1, <3>3
      <4> QED BY <3>3, <4>2, <4>3
    <3>4. CASE i # k + 1 /\ i = 0
      BY <3>1, <3>4, <2>1
    <3> QED BY <3>2, <3>3, <3>4
  <2>3. t = Def(t, k + 1)
    BY <2>2
  <2>4. k + 1 \in Nat
    OBVIOUS
  <2> HIDE DEF t
  <2> QED BY <2>3, <2>4
<1>3. P = Nat
  <2>1. P \in SUBSET Nat
    OBVIOUS
  <2> HIDE DEF P
  <2> QED BY <2>1, <1>1, <1>2, SetInduction
<1> QED BY <1>3 DEF Commits

(* The authority a commit begins with. *)
Opened ==
  [boundary |-> boundary, books |-> books, failed |-> failed,
   deferred |-> deferred, executed |-> executed]

(* Committed(batch) is the last of the states the batch goes through. *)
LEMMA CommittedIsLast ==
  ASSUME NEW batch, Len(batch) \in Nat
  PROVE  \E s : Commits(s, Opened, batch, Len(batch)) /\ Committed(batch) = s[Len(batch)]
<1> DEFINE after == CHOOSE s : Commits(s, Opened, batch, Len(batch))
<1>1. \E s : Commits(s, Opened, batch, Len(batch))
  BY CommitSteps
<1>2. Commits(after, Opened, batch, Len(batch))
  BY <1>1
<1>3. Committed(batch) = after[Len(batch)]
  BY DEF Committed, Commits, Opened
<1> HIDE DEF after
<1> QED BY <1>2, <1>3

(* The executed books of the markets. *)
Executions == [Markets -> [at : Times, epoch : 0 .. MaxEpoch]]

(* What a commit works on. *)
Authority == [boundary : Times, books : PerMarketTime, failed : Failures,
              deferred : PerMarketTime, executed : Executions]

(* A batch of books that were received. *)
Seen(batch) ==
  /\ batch \in Seq(Items)
  /\ \A i \in DOMAIN batch : Fresh(batch[i])

(* The same of one market. *)
KeptIn(s, batch, m) ==
  /\ s.executed[m].at <= s.boundary /\ s.deferred[m] <= s.boundary
  /\ s.deferred[m] # deferred[m] =>
       /\ recoveredAt[m] = 0 /\ deferred[m] = 0
       /\ \E i \in DOMAIN batch : /\ batch[i].market = m /\ boundary <= batch[i].at
                                  /\ batch[i].rx = s.deferred[m]
  /\ s.executed[m] # executed[m] =>
       /\ recoveredAt[m] > 0 /\ s.executed[m].at > recoveredAt[m]
       /\ s.executed[m].at > executed[m].at
  /\ recoveredAt[m] > 0 =>
       s.executed[m].at <= s.books[m] \/ s.executed[m].at <= recoveredAt[m]

(* What holds of the authority while a batch is committed. *)
Kept(s, batch) ==
  /\ s \in Authority
  /\ boundary <= s.boundary /\ s.boundary <= now
  /\ \A m \in Markets : KeptIn(s, batch, m)

(* The fields of an item of the channel. *)
LEMMA ItemFields ==
  ASSUME NEW b \in Items
  PROVE  /\ b.kind \in Kinds /\ b.market \in Markets /\ b.generation \in Nat
         /\ b.at \in Times /\ b.rx \in Times /\ b.epoch \in 0 .. MaxEpoch
BY DEF Items

(* The fields of what a commit works on. *)
LEMMA AuthorityFields ==
  ASSUME NEW s \in Authority
  PROVE  /\ s.boundary \in Times /\ s.books \in PerMarketTime
         /\ s.failed \in Failures /\ s.deferred \in PerMarketTime
         /\ s.executed \in Executions
         /\ DOMAIN s = {"boundary", "books", "failed", "deferred", "executed"}
BY DEF Authority

(* What the admission of one book makes of the authority: nothing, a snapshot *)
(* deferred behind the fence, or an execution past the recovered boundary.    *)
LEMMA AdmitCases ==
  ASSUME NEW s \in Authority, NEW b \in Items, recoveredAt \in [Markets -> Nat]
  PROVE  LET a == Admit(s, b) IN
         /\ a \in Authority
         /\ \/ /\ a.boundary = s.boundary /\ a.books = s.books
               /\ a.deferred = s.deferred /\ a.executed = s.executed
            \/ /\ a.boundary = b.rx /\ s.boundary <= b.at /\ a.books = s.books
               /\ recoveredAt[b.market] = 0
               /\ a.deferred = [s.deferred EXCEPT ![b.market] =
                                   IF s.deferred[b.market] = 0 THEN b.rx ELSE s.deferred[b.market]]
               /\ a.executed = s.executed
            \/ /\ a.boundary = b.rx /\ s.boundary <= b.at
               /\ recoveredAt[b.market] > 0 /\ b.at > recoveredAt[b.market]
               /\ b.at > s.books[b.market]
               /\ a.books = [s.books EXCEPT ![b.market] = b.at]
               /\ a.deferred = s.deferred
               /\ a.executed = [s.executed EXCEPT ![b.market] =
                                   [at |-> b.at, epoch |-> b.epoch]]
<1> DEFINE a == Admit(s, b)
           m == b.market
<1>0. /\ b.market \in Markets /\ b.at \in Times /\ b.rx \in Times /\ b.epoch \in 0 .. MaxEpoch
  BY ItemFields
<1>n. Times \subseteq Int
  BY FeedAssumption DEF Times
<1>i. s.boundary \in Int /\ s.books[m] \in Int /\ recoveredAt[m] \in Nat /\ b.at \in Int /\ b.rx \in Int
  BY <1>0, <1>n, AuthorityFields DEF PerMarketTime
<1>1. CASE s.failed # "none" \/ IsLate(s, b)
  <2>1. a = s
    BY <1>1 DEF Admit
  <2> QED BY <2>1
<1>2. CASE ~ (s.failed # "none" \/ IsLate(s, b)) /\ s.books[m] >= b.at
  <2>1. a = [s EXCEPT !.failed = "non_monotonic_book"]
    BY <1>2 DEF Admit
  <2>2. a = [boundary |-> s.boundary, books |-> s.books, failed |-> "non_monotonic_book",
             deferred |-> s.deferred, executed |-> s.executed]
    BY <2>1 DEF Authority
  <2>3. a \in Authority
    BY <2>2, AuthorityFields DEF Authority, Failures
  <2> QED BY <2>2, <2>3
<1>3. CASE ~ (s.failed # "none" \/ IsLate(s, b)) /\ ~ (s.books[m] >= b.at) /\ b.rx - b.at > MaxAge
  <2>1. a = s
    BY <1>3 DEF Admit
  <2> QED BY <2>1
<1>4. CASE /\ ~ (s.failed # "none" \/ IsLate(s, b)) /\ ~ (s.books[m] >= b.at)
           /\ ~ (b.rx - b.at > MaxAge) /\ recoveredAt[m] = 0
  <2> DEFINE d == [s.deferred EXCEPT ![m] = IF s.deferred[m] = 0 THEN b.rx ELSE s.deferred[m]]
  <2>1. a = [s EXCEPT !.boundary = b.rx, !.deferred[m] = IF @ = 0 THEN b.rx ELSE @]
    BY <1>4 DEF Admit
  <2>2. a = [boundary |-> b.rx, books |-> s.books, failed |-> s.failed,
             deferred |-> d, executed |-> s.executed]
    BY <2>1 DEF Authority
  <2>3. d \in PerMarketTime
    BY AuthorityFields, <1>0 DEF PerMarketTime
  <2>4. a \in Authority
    <3> HIDE DEF a, d
    <3> QED BY <2>2, <2>3, <1>0, AuthorityFields DEF Authority
  <2>5. s.boundary <= b.at
    BY <1>4, <1>i DEF IsLate
  <2> QED BY <2>2, <2>4, <2>5, <1>4
<1>5. CASE /\ ~ (s.failed # "none" \/ IsLate(s, b)) /\ ~ (s.books[m] >= b.at)
           /\ ~ (b.rx - b.at > MaxAge) /\ recoveredAt[m] # 0
  <2> DEFINE k == [s.books EXCEPT ![m] = b.at]
             x == [s.executed EXCEPT ![m] = [at |-> b.at, epoch |-> b.epoch]]
  <2>1. a = [s EXCEPT !.boundary = b.rx, !.books[m] = b.at,
                      !.executed[m] = [at |-> b.at, epoch |-> b.epoch]]
    BY <1>5 DEF Admit
  <2>2. a = [boundary |-> b.rx, books |-> k, failed |-> s.failed,
             deferred |-> s.deferred, executed |-> x]
    BY <2>1 DEF Authority
  <2>3. k \in PerMarketTime
    BY AuthorityFields, <1>0 DEF PerMarketTime
  <2>x. [at |-> b.at, epoch |-> b.epoch] \in [at : Times, epoch : 0 .. MaxEpoch]
    BY <1>0
  <2>4. x \in Executions
    BY AuthorityFields, <2>x DEF Executions
  <2>5. a \in Authority
    <3> HIDE DEF a, k, x
    <3> QED BY <2>2, <2>3, <2>4, <1>0, AuthorityFields DEF Authority
  <2>6. recoveredAt[m] > 0 /\ s.boundary <= b.at /\ b.at > recoveredAt[m] /\ b.at > s.books[m]
    BY <1>5, <1>i DEF IsLate
  <2> QED BY <2>2, <2>5, <2>6
<1> QED BY <1>1, <1>2, <1>3, <1>4, <1>5

(* One more book of the batch keeps what holds of the authority. *)
LEMMA KeptStep ==
  ASSUME NEW batch, Seen(batch), NEW s, Kept(s, batch), NEW i \in DOMAIN batch,
         recoveredAt \in [Markets -> Nat], deferred \in PerMarketTime,
         boundary \in Times, executed \in Executions, now \in Times
  PROVE  Kept(Admit(s, batch[i]), batch)
<1> DEFINE b == batch[i]
           a == Admit(s, b)
           m == b.market
<1>1. /\ b \in Items /\ b.at < b.rx /\ b.rx <= now
  BY DEF Seen, Fresh
<1>2. /\ m \in Markets /\ b.at \in Times /\ b.rx \in Times /\ b.epoch \in 0 .. MaxEpoch
  BY <1>1, ItemFields
<1>3. s \in Authority /\ boundary <= s.boundary /\ s.boundary <= now
  BY DEF Kept
<1>n. Times \subseteq Int /\ now \in Int /\ b.at \in Int /\ b.rx \in Int /\ boundary \in Int
  BY <1>2, FeedAssumption DEF Times
<1>4. s.boundary \in Int
  BY <1>3, <1>n, AuthorityFields
<1>5. a \in Authority
  BY <1>1, <1>3, AdmitCases
<1>6. \A n \in Markets : KeptIn(s, batch, n)
  BY DEF Kept
<1>7. \A n \in Markets : /\ s.executed[n].at \in Int /\ s.books[n] \in Int /\ s.deferred[n] \in Int
                          /\ recoveredAt[n] \in Nat /\ executed[n].at \in Int /\ deferred[n] \in Int
  BY <1>3, <1>n, AuthorityFields DEF PerMarketTime, Executions
<1> DEFINE Same == /\ a.boundary = s.boundary /\ a.books = s.books
                   /\ a.deferred = s.deferred /\ a.executed = s.executed
           Defers == /\ a.boundary = b.rx /\ s.boundary <= b.at /\ a.books = s.books
                     /\ recoveredAt[m] = 0
                     /\ a.deferred = [s.deferred EXCEPT ![m] =
                                         IF s.deferred[m] = 0 THEN b.rx ELSE s.deferred[m]]
                     /\ a.executed = s.executed
           Executes == /\ a.boundary = b.rx /\ s.boundary <= b.at
                       /\ recoveredAt[m] > 0 /\ b.at > recoveredAt[m]
                       /\ b.at > s.books[m]
                       /\ a.books = [s.books EXCEPT ![m] = b.at]
                       /\ a.deferred = s.deferred
                       /\ a.executed = [s.executed EXCEPT ![m] = [at |-> b.at, epoch |-> b.epoch]]
<1>8. Same \/ Defers \/ Executes
  BY <1>1, <1>3, AdmitCases
<1> HIDE DEF a
<1>9. CASE Same
  <2>1. ASSUME NEW n \in Markets PROVE KeptIn(a, batch, n)
    BY <1>9, <1>6 DEF KeptIn
  <2>2. Kept(a, batch)
    BY <2>1, <1>3, <1>5, <1>9 DEF Kept
  <2> QED BY <2>2 DEF a
<1>10. CASE Defers
  <2>1. b.rx > s.boundary /\ b.rx >= boundary
    BY <1>10, <1>1, <1>3, <1>4, <1>n
  <2>2. ASSUME NEW n \in Markets PROVE KeptIn(a, batch, n)
    <3>1. CASE n = m /\ s.deferred[m] = 0
      <4>1. a.deferred[n] = b.rx /\ a.executed[n] = s.executed[n] /\ a.books[n] = s.books[n]
        BY <1>10, <3>1, <1>2, <1>3, AuthorityFields DEF PerMarketTime
      <4>2. recoveredAt[n] = 0
        BY <1>10, <3>1
      <4>3. s.executed[n].at <= a.boundary
        <5>1. s.executed[n].at <= s.boundary
          BY <1>6 DEF KeptIn
        <5> QED BY <5>1, <1>10, <2>1, <1>7, <1>4, <1>n
      <4>4. deferred[n] = 0
        BY <1>6, <3>1 DEF KeptIn
      <4>5. boundary <= b.at
        BY <1>10, <1>3, <1>4, <1>n
      <4>6. a.executed[n] = executed[n]
        BY <4>1, <4>2, <1>6, <1>7 DEF KeptIn
      <4>7. a.boundary = b.rx
        BY <1>10
      <4>8. b.rx <= b.rx
        BY <1>n
      <4> QED BY <4>1, <4>2, <4>3, <4>4, <4>5, <4>6, <4>7, <4>8, <3>1 DEF KeptIn
    <3>2. CASE ~ (n = m /\ s.deferred[m] = 0)
      <4>1. a.deferred[n] = s.deferred[n] /\ a.executed[n] = s.executed[n] /\ a.books[n] = s.books[n]
        BY <1>10, <3>2, <1>2, <1>3, AuthorityFields DEF PerMarketTime
      <4>2. a.boundary = b.rx
        BY <1>10
      <4>3. s.executed[n].at <= s.boundary /\ s.deferred[n] <= s.boundary
        BY <1>6 DEF KeptIn
      <4>4. s.executed[n].at <= b.rx /\ s.deferred[n] <= b.rx
        BY <4>3, <2>1, <1>7, <1>4, <1>n
      <4> QED BY <4>1, <4>2, <4>4, <1>6 DEF KeptIn
    <3> QED BY <3>1, <3>2
  <2>3. Kept(a, batch)
    BY <2>1, <2>2, <1>1, <1>5, <1>10 DEF Kept
  <2> QED BY <2>3 DEF a
<1>11. CASE Executes
  <2>1. b.rx > s.boundary /\ b.rx >= boundary
    BY <1>11, <1>1, <1>3, <1>4, <1>n
  <2>2. ASSUME NEW n \in Markets PROVE KeptIn(a, batch, n)
    <3>0. a.deferred[n] = s.deferred[n] /\ a.boundary = b.rx
      BY <1>11
    <3>1. s.executed[n].at <= s.boundary /\ s.deferred[n] <= s.boundary
      BY <1>6 DEF KeptIn
    <3>2. s.executed[n].at <= b.rx /\ s.deferred[n] <= b.rx
      BY <3>1, <2>1, <1>7, <1>4, <1>n
    <3>3. CASE n = m
      <4>1. a.executed[n] = [at |-> b.at, epoch |-> b.epoch] /\ a.books[n] = b.at
        BY <1>11, <3>3, <1>2, <1>3, AuthorityFields DEF PerMarketTime, Executions
      <4>2. a.executed[n].at = b.at
        BY <4>1
      <4>3. b.at <= b.rx /\ b.at <= b.at
        BY <1>1, <1>n
      <4>4. s.executed[n].at <= s.books[n] \/ s.executed[n].at <= recoveredAt[n]
        BY <1>6, <1>11, <3>3 DEF KeptIn
      <4>5. b.at > s.executed[n].at
        BY <4>4, <1>11, <3>3, <1>7, <1>n
      <4>6. s.executed[n] # executed[n] => s.executed[n].at > executed[n].at
        BY <1>6 DEF KeptIn
      <4>7. b.at > executed[n].at
        BY <4>5, <4>6, <1>7, <1>n
      <4>8. recoveredAt[n] > 0 /\ b.at > recoveredAt[n]
        BY <1>11, <3>3
      <4>9. s.deferred[n] = deferred[n]
        BY <4>8, <1>6 DEF KeptIn
      <4> QED BY <3>0, <3>2, <4>1, <4>2, <4>3, <4>7, <4>8, <4>9 DEF KeptIn
    <3>4. CASE n # m
      <4>1. a.executed[n] = s.executed[n] /\ a.books[n] = s.books[n]
        BY <1>11, <3>4, <1>2, <1>3, AuthorityFields DEF PerMarketTime, Executions
      <4> QED BY <4>1, <3>0, <3>2, <1>6 DEF KeptIn
    <3> QED BY <3>3, <3>4
  <2>3. Kept(a, batch)
    BY <2>1, <2>2, <1>1, <1>5, <1>11 DEF Kept
  <2> QED BY <2>3 DEF a
<1> QED BY <1>8, <1>9, <1>10, <1>11

(* A whole batch keeps what holds of the authority. *)
LEMMA KeptCommitted ==
  ASSUME NEW batch, Seen(batch), Kept(Opened, batch),
         recoveredAt \in [Markets -> Nat], deferred \in PerMarketTime,
         boundary \in Times, executed \in Executions, now \in Times
  PROVE  Kept(Committed(batch), batch)
<1>1. Len(batch) \in Nat /\ DOMAIN batch = 1 .. Len(batch)
  BY DEF Seen
<1>2. PICK s : Commits(s, Opened, batch, Len(batch)) /\ Committed(batch) = s[Len(batch)]
  BY <1>1, CommittedIsLast
<1> DEFINE P == {n \in Nat : n <= Len(batch) => Kept(s[n], batch)}
<1>3. 0 \in P
  <2>1. s[0] = Opened
    BY <1>1, <1>2 DEF Commits
  <2> QED BY <2>1
<1>4. ASSUME NEW n \in P PROVE n + 1 \in P
  <2>1. n \in Nat /\ n + 1 \in Nat
    OBVIOUS
  <2>2. SUFFICES ASSUME n + 1 <= Len(batch) PROVE Kept(s[n + 1], batch)
    BY <2>1
  <2>3. n + 1 \in 1 .. Len(batch) /\ n + 1 \in 0 .. Len(batch) /\ n + 1 # 0 /\ (n + 1) - 1 = n /\ n <= Len(batch)
    BY <2>1, <2>2, <1>1
  <2>4. s[n + 1] = Admit(s[n], batch[n + 1])
    BY <1>2, <2>3 DEF Commits
  <2>5. Kept(s[n], batch)
    BY <2>3
  <2> QED BY <2>3, <2>4, <2>5, <1>1, KeptStep
<1>5. P = Nat
  <2>1. P \in SUBSET Nat
    OBVIOUS
  <2> HIDE DEF P
  <2> QED BY <2>1, <1>3, <1>4, SetInduction
<1>6. Len(batch) <= Len(batch)
  BY <1>1
<1>7. Kept(s[Len(batch)], batch)
  BY <1>1, <1>5, <1>6
<1> QED BY <1>2, <1>7

(* Item i of a channel is a gap of market m, or a request for it. *)
GapIn(q, i, m) == q[i].kind = "gap" /\ q[i].market = m
RequestIn(q, i, m) == q[i].kind = "request" /\ q[i].market = m

(* The places of a channel that ask for a recovery of m: its requests, and *)
(* behind them the request a pending gap still has to send.                *)
Asking(q, p, m) ==
  {i \in 1 .. Len(q) + 1 : IF i <= Len(q) THEN RequestIn(q, i, m) ELSE p > 0}

(* Between two of them there is a gap of m. *)
Spaced(q, p, m) ==
  \A i, k \in Asking(q, p, m) : i < k => \E j \in i + 1 .. k - 1 : GapIn(q, j, m)

(* One of them comes before every gap of m. *)
Unfenced(q, p, m) ==
  \E i \in Asking(q, p, m) : \A j \in 1 .. i - 1 : ~ GapIn(q, j, m)

(* A channel with a burst appended: its items and their places. *)
LEMMA ConcatItems ==
  ASSUME NEW S, NEW q \in Seq(S), NEW t \in Seq(S)
  PROVE  /\ q \o t \in Seq(S) /\ Len(q \o t) = Len(q) + Len(t)
         /\ Len(q) \in Nat /\ Len(t) \in Nat
         /\ \A i \in 1 .. Len(q) : (q \o t)[i] = q[i]
         /\ \A i \in 1 .. Len(t) : (q \o t)[Len(q) + i] = t[i]
OBVIOUS

(* A channel without its head: its items and their places. *)
LEMMA TailItems ==
  ASSUME NEW S, NEW q \in Seq(S), q # <<>>
  PROVE  /\ Tail(q) \in Seq(S) /\ Len(q) \in Nat \ {0} /\ Len(Tail(q)) = Len(q) - 1
         /\ \A i \in 1 .. Len(q) - 1 : Tail(q)[i] = q[i + 1]
         /\ Head(q) = q[1] /\ Head(q) \in S /\ DOMAIN q = 1 .. Len(q)
         /\ DOMAIN Tail(q) = 1 .. Len(q) - 1
OBVIOUS

(* A burst without requests for m keeps m's requests apart by gaps; if it *)
(* makes a gap of m pending it carries that gap.                          *)
LEMMA AppendSpaced ==
  ASSUME NEW q \in Seq(Items), NEW t \in Seq(Items), NEW m, NEW p \in Nat, NEW p2 \in Nat,
         \A i \in 1 .. Len(t) : ~ RequestIn(t, i, m),
         p2 = p \/ \E i \in 1 .. Len(t) : GapIn(t, i, m),
         Spaced(q, p, m)
  PROVE  /\ Spaced(q \o t, p2, m)
         /\ Unfenced(q \o t, p2, m) => Unfenced(q, p, m)
<1> DEFINE u == q \o t
           L == Len(q)
           M == Len(t)
<1>1. /\ L \in Nat /\ M \in Nat /\ Len(u) = L + M
      /\ \A i \in 1 .. L : u[i] = q[i]
      /\ \A i \in 1 .. M : u[L + i] = t[i]
  BY ConcatItems
<1> HIDE DEF u, L, M
<1>2. ASSUME NEW i \in Asking(u, p2, m)
      PROVE  \/ i \in 1 .. L /\ i \in Asking(q, p, m)
             \/ i = L + M + 1 /\ p2 > 0
  <2>1. i \in 1 .. L + M + 1
    BY <1>1 DEF Asking
  <2>2. CASE i <= L
    <3>1. i \in 1 .. L /\ i <= Len(u)
      BY <1>1, <2>1, <2>2
    <3>2. RequestIn(u, i, m)
      BY <3>1 DEF Asking
    <3>3. RequestIn(q, i, m)
      BY <3>1, <3>2, <1>1 DEF RequestIn
    <3> QED BY <3>1, <3>3, <1>1 DEF Asking, L
  <2>3. CASE i > L /\ i <= L + M
    <3>1. i - L \in 1 .. M /\ i = L + (i - L) /\ i <= Len(u)
      BY <1>1, <2>1, <2>3
    <3>2. RequestIn(u, i, m)
      BY <3>1 DEF Asking
    <3>3. u[i] = t[i - L]
      BY <3>1, <1>1
    <3>4. RequestIn(t, i - L, m)
      BY <3>2, <3>3 DEF RequestIn
    <3> QED BY <3>1, <3>4 DEF M
  <2>4. CASE i = L + M + 1
    <3>1. ~ (i <= Len(u))
      BY <1>1, <2>4
    <3> QED BY <2>4, <3>1 DEF Asking
  <2> QED BY <1>1, <2>1, <2>2, <2>3, <2>4
<1>3. ASSUME NEW i \in 1 .. L PROVE GapIn(u, i, m) <=> GapIn(q, i, m)
  BY <1>1 DEF GapIn
<1>4. p2 = p \/ \E j \in L + 1 .. L + M : GapIn(u, j, m)
  <2>1. CASE \E i \in 1 .. M : GapIn(t, i, m)
    <3>1. PICK i \in 1 .. M : GapIn(t, i, m)
      BY <2>1
    <3>2. GapIn(u, L + i, m) /\ L + i \in L + 1 .. L + M
      BY <3>1, <1>1 DEF GapIn
    <3> QED BY <3>2
  <2> QED BY <2>1 DEF M
<1>5. p > 0 => L + 1 \in Asking(q, p, m)
  BY <1>1 DEF Asking, L
<1>6. ASSUME NEW i \in Asking(u, p2, m), NEW k \in Asking(u, p2, m), i < k
      PROVE  \E j \in i + 1 .. k - 1 : GapIn(u, j, m)
  <2>1. i \in 1 .. L /\ i \in Asking(q, p, m)
    BY <1>2, <1>6, <1>1
  <2>2. CASE k \in 1 .. L /\ k \in Asking(q, p, m)
    <3>1. PICK j \in i + 1 .. k - 1 : GapIn(q, j, m)
      BY <2>1, <2>2, <1>6 DEF Spaced
    <3>2. j \in 1 .. L
      BY <2>1, <2>2, <1>1
    <3> QED BY <3>1, <3>2, <1>3
  <2>3. CASE k = L + M + 1 /\ p2 > 0 /\ p2 = p
    <3>1. L + 1 \in Asking(q, p, m) /\ i < L + 1
      BY <2>3, <1>5, <2>1, <1>1
    <3>2. PICK j \in i + 1 .. (L + 1) - 1 : GapIn(q, j, m)
      BY <2>1, <3>1 DEF Spaced
    <3>3. j \in 1 .. L /\ j \in i + 1 .. k - 1
      BY <2>1, <2>3, <1>1
    <3> QED BY <3>2, <3>3, <1>3
  <2>4. CASE k = L + M + 1 /\ \E j \in L + 1 .. L + M : GapIn(u, j, m)
    <3>1. PICK j \in L + 1 .. L + M : GapIn(u, j, m)
      BY <2>4
    <3>2. j \in i + 1 .. k - 1
      BY <2>1, <2>4, <1>1
    <3> QED BY <3>1, <3>2
  <2> QED BY <1>2, <2>2, <2>3, <2>4, <1>4
<1>7. ASSUME Unfenced(u, p2, m) PROVE Unfenced(q, p, m)
  <2>1. PICK i \in Asking(u, p2, m) : \A j \in 1 .. i - 1 : ~ GapIn(u, j, m)
    BY <1>7 DEF Unfenced
  <2>2. CASE i \in 1 .. L /\ i \in Asking(q, p, m)
    <3>1. \A j \in 1 .. i - 1 : j \in 1 .. L
      BY <2>2, <1>1
    <3>2. \A j \in 1 .. i - 1 : ~ GapIn(q, j, m)
      BY <3>1, <2>1, <1>3
    <3> QED BY <2>2, <3>2 DEF Unfenced
  <2>3. CASE i = L + M + 1 /\ p2 > 0
    <3>1. \A j \in L + 1 .. L + M : j \in 1 .. i - 1
      BY <2>3, <1>1
    <3>2. p2 = p
      BY <3>1, <2>1, <1>4
    <3>3. L + 1 \in Asking(q, p, m)
      BY <3>2, <2>3, <1>5
    <3>4. \A j \in 1 .. (L + 1) - 1 : j \in 1 .. L /\ j \in 1 .. i - 1
      BY <2>3, <1>1
    <3>5. \A j \in 1 .. (L + 1) - 1 : ~ GapIn(q, j, m)
      BY <3>4, <2>1, <1>3
    <3> QED BY <3>3, <3>5 DEF Unfenced
  <2> QED BY <1>2, <2>2, <2>3
<1>8. Spaced(u, p2, m)
  BY <1>6 DEF Spaced
<1> QED BY <1>7, <1>8 DEF u

(* Receiving the head keeps the requests apart, and leaves a request in front *)
(* with no gap before it only if the head was the gap.                        *)
LEMMA TailSpaced ==
  ASSUME NEW q \in Seq(Items), q # <<>>, NEW m, NEW p \in Nat, Spaced(q, p, m)
  PROVE  /\ Spaced(Tail(q), p, m)
         /\ Unfenced(Tail(q), p, m) => ~ RequestIn(q, 1, m)
         /\ Unfenced(Tail(q), p, m) => GapIn(q, 1, m) \/ Unfenced(q, p, m)
<1> DEFINE u == Tail(q)
           L == Len(q)
<1>1. /\ L \in Nat \ {0} /\ Len(u) = L - 1
      /\ \A i \in 1 .. L - 1 : u[i] = q[i + 1]
  BY TailItems
<1> HIDE DEF u, L
<1>2. ASSUME NEW i \in Asking(u, p, m) PROVE i \in 1 .. L /\ i + 1 \in Asking(q, p, m)
  <2>1. i \in 1 .. L
    BY <1>1 DEF Asking
  <2>2. CASE i <= L - 1
    <3>1. RequestIn(u, i, m)
      BY <2>2, <1>1 DEF Asking
    <3>2. u[i] = q[i + 1]
      BY <2>1, <2>2, <1>1
    <3>3. RequestIn(q, i + 1, m)
      BY <3>1, <3>2 DEF RequestIn
    <3>4. i + 1 \in 1 .. L + 1 /\ i + 1 <= L
      BY <2>1, <2>2, <1>1
    <3> QED BY <2>1, <3>3, <3>4 DEF Asking, L
  <2>3. CASE i = L
    <3>1. ~ (i <= Len(u)) /\ i + 1 \in 1 .. L + 1 /\ ~ (i + 1 <= L)
      BY <1>1, <2>3
    <3> QED BY <2>1, <3>1 DEF Asking, L
  <2> QED BY <2>1, <2>2, <2>3, <1>1
<1>3. ASSUME NEW j \in 1 .. L - 1 PROVE GapIn(u, j, m) <=> GapIn(q, j + 1, m)
  BY <1>1 DEF GapIn
<1>4. ASSUME NEW i \in Asking(u, p, m), NEW k \in Asking(u, p, m), i < k
      PROVE  \E j \in i + 1 .. k - 1 : GapIn(u, j, m)
  <2>1. i \in 1 .. L /\ k \in 1 .. L /\ i + 1 < k + 1
    BY <1>2, <1>4, <1>1
  <2>2. PICK j \in (i + 1) + 1 .. (k + 1) - 1 : GapIn(q, j, m)
    BY <1>2, <2>1 DEF Spaced
  <2>3. j - 1 \in i + 1 .. k - 1 /\ j - 1 \in 1 .. L - 1 /\ (j - 1) + 1 = j
    BY <2>1, <1>1
  <2>4. GapIn(u, j - 1, m)
    BY <2>2, <2>3, <1>3
  <2> QED BY <2>3, <2>4
<1>5. Spaced(u, p, m)
  BY <1>4 DEF Spaced
<1>6. ASSUME Unfenced(u, p, m)
      PROVE  ~ RequestIn(q, 1, m) /\ (GapIn(q, 1, m) \/ Unfenced(q, p, m))
  <2>1. PICK i \in Asking(u, p, m) : \A j \in 1 .. i - 1 : ~ GapIn(u, j, m)
    BY <1>6 DEF Unfenced
  <2>2. i \in 1 .. L /\ i + 1 \in Asking(q, p, m)
    BY <1>2
  <2>3. ASSUME NEW j \in 2 .. i PROVE ~ GapIn(q, j, m)
    <3>1. j - 1 \in 1 .. i - 1 /\ j - 1 \in 1 .. L - 1 /\ (j - 1) + 1 = j
      BY <2>2, <1>1
    <3> QED BY <3>1, <2>1, <1>3
  <2>4. ~ RequestIn(q, 1, m)
    <3> SUFFICES ASSUME RequestIn(q, 1, m) PROVE FALSE
      OBVIOUS
    <3>1. 1 \in Asking(q, p, m)
      BY <1>1 DEF Asking, L
    <3>2. 1 < i + 1 /\ i + 1 \in Asking(q, p, m)
      BY <2>2, <1>1
    <3>3. PICK j \in 1 + 1 .. (i + 1) - 1 : GapIn(q, j, m)
      BY <3>1, <3>2 DEF Spaced
    <3>4. j \in 2 .. i
      BY <2>2, <1>1
    <3> QED BY <3>3, <3>4, <2>3
  <2>5. ASSUME ~ GapIn(q, 1, m) PROVE Unfenced(q, p, m)
    <3>1. ASSUME NEW j \in 1 .. (i + 1) - 1 PROVE ~ GapIn(q, j, m)
      <4>1. j = 1 \/ j \in 2 .. i
        BY <2>2, <1>1
      <4> QED BY <4>1, <2>3, <2>5
    <3> QED BY <2>2, <3>1 DEF Unfenced
  <2> QED BY <2>4, <2>5
<1> QED BY <1>5, <1>6 DEF u

(* A channel with two items appended. *)
LEMMA ConcatTwo ==
  ASSUME NEW S, NEW q \in Seq(S), NEW t \in Seq(S), Len(t) = 2
  PROVE  /\ Len(q) \in Nat /\ Len(q \o t) = Len(q) + 2
         /\ \A i \in 1 .. Len(q) : (q \o t)[i] = q[i]
         /\ (q \o t)[Len(q) + 1] = t[1] /\ (q \o t)[Len(q) + 2] = t[2]
<1>1. /\ Len(q \o t) = Len(q) + Len(t)
      /\ Len(q) \in Nat
      /\ \A i \in 1 .. Len(q) : (q \o t)[i] = q[i]
      /\ \A i \in 1 .. Len(t) : (q \o t)[Len(q) + i] = t[i]
  BY ConcatItems
<1> QED BY <1>1

(* The snapshot's book and request appended take the place of the pending *)
(* gap's request still to come.                                           *)
LEMMA RequestSpaced ==
  ASSUME NEW q \in Seq(Items), NEW t \in Seq(Items), NEW m, NEW p \in Nat,
         p > 0, Len(t) = 2, t[1].kind = "book", RequestIn(t, 2, m),
         Spaced(q, p, m)
  PROVE  /\ Spaced(q \o t, 0, m)
         /\ Unfenced(q \o t, 0, m) => Unfenced(q, p, m)
<1> DEFINE u == q \o t
           L == Len(q)
<1>1. /\ L \in Nat /\ Len(u) = L + 2
      /\ \A i \in 1 .. L : u[i] = q[i]
  BY ConcatTwo
<1>2. u[L + 1] = t[1] /\ u[L + 2] = t[2]
  BY ConcatTwo
<1> HIDE DEF u, L
<1>3. ASSUME NEW i \in 1 .. L PROVE GapIn(u, i, m) <=> GapIn(q, i, m)
  BY <1>1 DEF GapIn
<1>4. ~ GapIn(u, L + 1, m) /\ ~ RequestIn(u, L + 1, m)
  BY <1>2 DEF GapIn, RequestIn
<1>5. L + 1 \in Asking(q, p, m)
  BY <1>1 DEF Asking, L
<1>6. ASSUME NEW i \in Asking(u, 0, m)
      PROVE  (i \in 1 .. L /\ i \in Asking(q, p, m)) \/ i = L + 2
  <2>1. i \in 1 .. L + 3
    BY <1>1 DEF Asking
  <2>2. CASE i <= L
    <3>1. i \in 1 .. L /\ i <= Len(u)
      BY <1>1, <2>1, <2>2
    <3>2. RequestIn(u, i, m)
      BY <3>1 DEF Asking
    <3>3. RequestIn(q, i, m)
      BY <3>1, <3>2, <1>1 DEF RequestIn
    <3> QED BY <3>1, <3>3, <1>1 DEF Asking, L
  <2>3. CASE i = L + 1
    <3>1. i <= Len(u)
      BY <1>1, <2>3
    <3> QED BY <3>1, <2>3, <1>4 DEF Asking
  <2>4. CASE i = L + 3
    <3>1. ~ (i <= Len(u)) /\ ~ (0 > 0)
      BY <1>1, <2>4
    <3> QED BY <3>1 DEF Asking
  <2> QED BY <2>1, <2>2, <2>3, <2>4, <1>1
<1>7. ASSUME NEW i \in Asking(u, 0, m), NEW k \in Asking(u, 0, m), i < k
      PROVE  \E j \in i + 1 .. k - 1 : GapIn(u, j, m)
  <2>1. i \in 1 .. L /\ i \in Asking(q, p, m)
    BY <1>6, <1>7, <1>1
  <2>2. CASE k \in 1 .. L /\ k \in Asking(q, p, m)
    <3>1. PICK j \in i + 1 .. k - 1 : GapIn(q, j, m)
      BY <2>1, <2>2, <1>7 DEF Spaced
    <3>2. j \in 1 .. L
      BY <2>1, <2>2, <1>1
    <3> QED BY <3>1, <3>2, <1>3
  <2>3. CASE k = L + 2
    <3>1. i < L + 1
      BY <2>1, <1>1
    <3>2. PICK j \in i + 1 .. (L + 1) - 1 : GapIn(q, j, m)
      BY <2>1, <3>1, <1>5 DEF Spaced
    <3>3. j \in 1 .. L /\ j \in i + 1 .. k - 1
      BY <2>1, <2>3, <1>1
    <3> QED BY <3>2, <3>3, <1>3
  <2> QED BY <1>6, <2>2, <2>3
<1>8. ASSUME Unfenced(u, 0, m) PROVE Unfenced(q, p, m)
  <2>1. PICK i \in Asking(u, 0, m) : \A j \in 1 .. i - 1 : ~ GapIn(u, j, m)
    BY <1>8 DEF Unfenced
  <2>2. CASE i \in 1 .. L /\ i \in Asking(q, p, m)
    <3>1. \A j \in 1 .. i - 1 : j \in 1 .. L
      BY <2>2, <1>1
    <3>2. \A j \in 1 .. i - 1 : ~ GapIn(q, j, m)
      BY <3>1, <2>1, <1>3
    <3> QED BY <2>2, <3>2 DEF Unfenced
  <2>3. CASE i = L + 2
    <3>1. \A j \in 1 .. (L + 1) - 1 : j \in 1 .. L /\ j \in 1 .. i - 1
      BY <2>3, <1>1
    <3>2. \A j \in 1 .. (L + 1) - 1 : ~ GapIn(q, j, m)
      BY <3>1, <2>1, <1>3
    <3> QED BY <1>5, <3>2 DEF Unfenced
  <2> QED BY <1>6, <2>2, <2>3
<1>9. Spaced(u, 0, m)
  BY <1>7 DEF Spaced
<1> QED BY <1>8, <1>9 DEF u

(* An empty channel without a pending gap asks for nothing. *)
LEMMA EmptySpaced ==
  ASSUME NEW m
  PROVE  Spaced(<<>>, 0, m) /\ ~ Unfenced(<<>>, 0, m)
<1>1. Asking(<<>>, 0, m) = {}
  <2> SUFFICES ASSUME NEW i \in 1 .. 1, IF i <= 0 THEN RequestIn(<<>>, i, m) ELSE 0 > 0
               PROVE  FALSE
    BY DEF Asking
  <2> QED OBVIOUS
<1> QED BY <1>1 DEF Spaced, Unfenced

(* The router has m fenced in this epoch, and no queued request names the *)
(* snapshot deferred behind the fence.                                    *)
Fenced(m) ==
  /\ recoveredAt[m] = 0 /\ gap[m].epoch = epoch
  /\ \A i \in DOMAIN requests :
       requests[i].market = m => deferred[m] # requests[i].rx

(* A request with no gap before it finds its market fenced. *)
FenceInv ==
  \A m \in Markets : /\ Spaced(out, pending[m], m)
                     /\ Unfenced(out, pending[m], m) => Fenced(m)

(* The client lives with its epoch, and what it sent is of it. *)
EpochInv ==
  /\ active => scope # {}
  /\ restart => scope # {}
  /\ ~ active => conn = "off"
  /\ \A i \in DOMAIN out : out[i].epoch = epoch

(* The books and the requests of a channel. *)
Snapshots(q) == {q[i] : i \in {j \in DOMAIN q : q[j].kind = "book"}}
Asked(q) == {q[i] : i \in {j \in DOMAIN q : q[j].kind = "request"}}

(* Receipts identify snapshots, and a queued request is behind the clock. *)
TimeInv ==
  /\ boundary <= now
  /\ \A r \in Asked(out) : r.generation > 0 /\ Fresh(r)
  /\ \A b \in Snapshots(out) : Fresh(b)
  /\ \A i \in DOMAIN buffer : Fresh(buffer[i])
  /\ \A r \in Asked(out) :
       /\ \A b \in Snapshots(out) : b.rx = r.rx => b.at = r.at
       /\ \A j \in DOMAIN buffer : buffer[j].rx = r.rx => buffer[j].at = r.at
  /\ \A i \in DOMAIN requests : /\ requests[i].rx <= boundary /\ requests[i].rx > 0
                                /\ requests[i].generation > 0

(* What is executed, deferred and recovered is behind the clock; a deferred    *)
(* snapshot a request names is of the open gap, and nothing executed is later. *)
RouterInv ==
  /\ \A m \in Markets :
       /\ executed[m].at <= boundary /\ deferred[m] <= boundary
       /\ recoveredAt[m] > 0 =>
            /\ gap[m] = NoGap /\ deferred[m] = 0
            /\ executed[m].at <= books[m] \/ executed[m].at <= recoveredAt[m]
  /\ \A i \in DOMAIN requests :
       LET r == requests[i] IN
         deferred[r.market] = r.rx =>
           /\ gap[r.market].epoch = r.epoch /\ executed[r.market].at <= r.at
  /\ \A r \in Asked(out) :
       deferred[r.market] = r.rx => executed[r.market].at <= r.at

(* The types of the history. *)
HistoryOK == /\ executed \in Executions
             /\ recoveredIn \in [Markets -> 0 .. MaxEpoch]
             /\ delivered \subseteq Markets

(* The inductive invariant. *)
FeedInv == /\ FeedTypeOK /\ HistoryOK /\ EpochInv
           /\ TimeInv /\ RouterInv /\ FenceInv

(* The bounds of times, epochs and retries. *)
LEMMA BoundFacts ==
  /\ Times \subseteq Nat /\ 0 \in Times
  /\ 0 \in 0 .. MaxEpoch /\ MaxEpoch \in Nat /\ MaxTime \in Nat /\ MaxRetries \in Nat
BY FeedAssumption DEF Times

(* Nowhere, as times of the markets and as generations of them. *)
LEMMA NowhereTyped ==
  /\ Nowhere \in PerMarketTime /\ Nowhere \in [Markets -> Nat]
  /\ \A m \in Markets : Nowhere[m] = 0
BY BoundFacts DEF Nowhere, PerMarketTime

(* The inductive invariant holds before the first capture. *)
LEMMA InitInv == Init => FeedInv
<1> SUFFICES ASSUME Init PROVE FeedInv
  OBVIOUS
<1> USE DEF Init
<1>1. FeedTypeOK
  <2>1. <<>> \in Seq(Items) /\ Len(<<>>) = 0
    OBVIOUS
  <2>2. gap \in [Markets -> [epoch : 0 .. MaxEpoch, generation : Nat]]
    BY BoundFacts DEF NoGap
  <2>3. recoveredAt \in [Markets -> Nat] /\ lastGeneration \in [Markets -> Nat] /\ pending \in [Markets -> Nat]
    BY NowhereTyped
  <2>5. now \in Times
    BY FeedAssumption DEF Times
  <2>6. lastBook \in PerMarketTime /\ deferred \in PerMarketTime /\ books \in PerMarketTime
    BY NowhereTyped
  <2>7. Len(buffer) < BatchCapacity /\ retries \in 0 .. MaxRetries /\ epoch \in 0 .. MaxEpoch
    BY <2>1, FeedAssumption
  <2>8. out \in Seq(Items) /\ buffer \in Seq(Items) /\ requests \in Seq(Items)
    BY <2>1
  <2>9. boundary \in Times /\ failed \in Failures
    BY BoundFacts DEF Failures
  <2> QED BY <2>2, <2>3, <2>5, <2>6, <2>7, <2>8, <2>9 DEF FeedTypeOK
<1>2. HistoryOK /\ EpochInv
  <2>1. [at |-> 0, epoch |-> 0] \in [at : Times, epoch : 0 .. MaxEpoch]
    BY BoundFacts
  <2>2. executed \in Executions
    BY <2>1 DEF Executions
  <2>3. recoveredIn \in [Markets -> 0 .. MaxEpoch]
    BY BoundFacts DEF Nowhere
  <2> QED BY <2>2, <2>3 DEF HistoryOK, EpochInv
<1>3. TimeInv
  BY DEF TimeInv, Asked, Snapshots
<1>4. RouterInv
  <2>1. \A m \in Markets : executed[m].at = 0 /\ deferred[m] = 0 /\ recoveredAt[m] = 0
    BY DEF Nowhere
  <2> QED BY <2>1 DEF RouterInv, Asked
<1>5. FenceInv
  <2> SUFFICES ASSUME NEW m \in Markets
               PROVE  /\ Spaced(out, pending[m], m)
                      /\ Unfenced(out, pending[m], m) => Fenced(m)
    BY DEF FenceInv
  <2>1. out = <<>> /\ pending[m] = 0
    BY NowhereTyped
  <2> QED BY <2>1, EmptySpaced
<1> QED BY <1>1, <1>2, <1>3, <1>4, <1>5 DEF FeedInv

(* What a commit keeps holds before its first book. *)
LEMMA OpenedKept ==
  ASSUME FeedInv, NEW batch
  PROVE  Kept(Opened, batch)
<1>1. Opened \in Authority
  BY DEF FeedInv, FeedTypeOK, HistoryOK, Opened, Authority
<1>2. boundary \in Int /\ boundary <= now
  BY BoundFacts DEF FeedInv, FeedTypeOK, TimeInv
<1>3. ASSUME NEW m \in Markets PROVE KeptIn(Opened, batch, m)
  BY DEF FeedInv, RouterInv, KeptIn, Opened
<1>4. Opened.boundary = boundary
  BY DEF Opened
<1> QED BY <1>1, <1>2, <1>3, <1>4 DEF Kept

(* What a commit keeps holds behind its last book. *)
LEMMA CommitKept ==
  ASSUME FeedInv, NEW batch, Seen(batch)
  PROVE  Kept(Committed(batch), batch)
<1>1. /\ recoveredAt \in [Markets -> Nat] /\ deferred \in PerMarketTime
      /\ boundary \in Times /\ executed \in Executions /\ now \in Times
  BY DEF FeedInv, FeedTypeOK, HistoryOK
<1> QED BY <1>1, OpenedKept, KeptCommitted

(* What a commit changes in a market. *)
FlushedIn(batch, m) ==
  /\ executed'[m].at <= boundary' /\ deferred'[m] <= boundary'
  /\ deferred'[m] # deferred[m] =>
       /\ recoveredAt[m] = 0 /\ deferred[m] = 0
       /\ \E i \in DOMAIN batch : /\ batch[i].market = m /\ boundary <= batch[i].at
                                  /\ batch[i].rx = deferred'[m]
  /\ executed'[m] # executed[m] =>
       /\ recoveredAt[m] > 0 /\ executed'[m].at > recoveredAt[m]
       /\ executed'[m].at > executed[m].at
  /\ recoveredAt[m] > 0 =>
       executed'[m].at <= books'[m] \/ executed'[m].at <= recoveredAt[m]

(* What flush_live_source_batch changes: books deferred behind the fence or *)
(* executed past it, never both in a market.                                *)
LEMMA FlushedFacts ==
  ASSUME FeedInv, NEW batch, Seen(batch),
         NEW at \in {Committed(batch).boundary, now}, Flushed(batch, at)
  PROVE  /\ buffer' = <<>> /\ gap' = gap /\ recoveredAt' = recoveredAt
         /\ boundary' \in Times /\ boundary <= boundary' /\ boundary' <= now
         /\ failed' \in Failures /\ books' \in PerMarketTime
         /\ deferred' \in PerMarketTime /\ executed' \in Executions
         /\ \A m \in Markets : FlushedIn(batch, m)
<1> DEFINE s == Committed(batch)
<1>1. Kept(s, batch)
  BY CommitKept
<1>2. /\ buffer' = <<>> /\ gap' = gap /\ recoveredAt' = recoveredAt
      /\ boundary' = at /\ failed' = s.failed
      /\ books' = s.books /\ deferred' = s.deferred /\ executed' = s.executed
  BY DEF Flushed
<1> HIDE DEF s
<1>3. s \in Authority /\ boundary <= s.boundary /\ s.boundary <= now
  BY <1>1 DEF Kept
<1>4. now \in Times /\ boundary \in Times /\ boundary <= now
  BY DEF FeedInv, FeedTypeOK, TimeInv
<1>5. s.boundary \in Times
  BY <1>3, AuthorityFields
<1>n. now \in Int /\ boundary \in Int /\ s.boundary \in Int
  BY <1>4, <1>5, FeedAssumption DEF Times
<1>6. boundary' \in Times /\ boundary <= boundary' /\ boundary' <= now /\ s.boundary <= boundary'
  BY <1>2, <1>3, <1>4, <1>5, <1>n DEF s
<1>7. ASSUME NEW m \in Markets PROVE FlushedIn(batch, m)
  <2>1. KeptIn(s, batch, m)
    BY <1>1 DEF Kept
  <2>2. s.executed[m].at \in Int /\ s.deferred[m] \in Int
    <3>1. s.executed \in Executions /\ s.deferred \in PerMarketTime
      BY <1>3, AuthorityFields
    <3>2. s.executed[m] \in [at : Times, epoch : 0 .. MaxEpoch] /\ s.deferred[m] \in Times
      BY <3>1 DEF Executions, PerMarketTime
    <3> QED BY <3>2, FeedAssumption DEF Times
  <2>3. s.executed[m].at <= s.boundary /\ s.deferred[m] <= s.boundary
    BY <2>1 DEF KeptIn
  <2>4. s.executed[m].at <= boundary' /\ s.deferred[m] <= boundary'
    BY <2>2, <2>3, <1>6, <1>n, <1>4, BoundFacts
  <2> QED BY <2>1, <2>4, <1>2 DEF KeptIn, FlushedIn
<1> QED BY <1>2, <1>3, <1>6, <1>7, AuthorityFields

(* Every buffered book was received after its own event time. *)
LEMMA BufferSeen ==
  ASSUME FeedInv PROVE Seen(buffer)
BY DEF FeedInv, FeedTypeOK, TimeInv, Seen

(* The buffer with the received book behind it. *)
LEMMA AppendedSeen ==
  ASSUME FeedInv, out # <<>>, Head(out).kind = "book"
  PROVE  /\ Seen(Append(buffer, Head(out)))
         /\ Len(Append(buffer, Head(out))) = Len(buffer) + 1
         /\ DOMAIN Append(buffer, Head(out)) = 1 .. Len(buffer) + 1
         /\ \A i \in 1 .. Len(buffer) : Append(buffer, Head(out))[i] = buffer[i]
         /\ Append(buffer, Head(out))[Len(buffer) + 1] = Head(out)
         /\ Head(out) \in Snapshots(out)
<1>1. out \in Seq(Items) /\ buffer \in Seq(Items)
  BY DEF FeedInv, FeedTypeOK
<1>2. 1 \in DOMAIN out /\ Head(out) = out[1] /\ Head(out) \in Items
  BY <1>1, TailItems
<1>3. Head(out) \in Snapshots(out)
  BY <1>2 DEF Snapshots
<1>4. Fresh(Head(out))
  BY <1>3 DEF FeedInv, TimeInv
<1> DEFINE h == Head(out)
           q == Append(buffer, h)
<1>5. h \in Items
  BY <1>2
<1> HIDE DEF h
<1>6. /\ q \in Seq(Items) /\ Len(q) = Len(buffer) + 1 /\ DOMAIN q = 1 .. Len(buffer) + 1
      /\ \A i \in 1 .. Len(buffer) : q[i] = buffer[i]
      /\ q[Len(buffer) + 1] = h
  BY <1>1, <1>5
<1>7. \A i \in 1 .. Len(buffer) : Fresh(buffer[i])
  BY <1>1 DEF FeedInv, TimeInv
<1>8. ASSUME NEW i \in DOMAIN q PROVE Fresh(q[i])
  <2>1. i \in 1 .. Len(buffer) \/ i = Len(buffer) + 1
    BY <1>6, <1>1
  <2> HIDE DEF q
  <2> QED BY <2>1, <1>4, <1>6, <1>7 DEF h
<1> QED BY <1>3, <1>6, <1>8 DEF Seen, h

(* A set of markets in some order: each of them is in it. *)
LEMMA OrderedMarkets ==
  ASSUME NEW S \in SUBSET Markets
  PROVE  /\ SetToSeq(S) \in Seq(S)
         /\ DOMAIN SetToSeq(S) = 1 .. Len(SetToSeq(S))
         /\ Len(SetToSeq(S)) \in Nat
         /\ \A i \in DOMAIN SetToSeq(S) : SetToSeq(S)[i] \in S
         /\ \A x \in S : \E i \in DOMAIN SetToSeq(S) : SetToSeq(S)[i] = x
<1> DEFINE n == Cardinality(S)
           q == SetToSeq(S)
<1>1. IsFiniteSet(S)
  BY FeedAssumption, FS_Subset
<1>2. n \in Nat /\ ExistsBijection(1 .. n, S)
  BY <1>1, FS_CardinalityType
<1>3. \E f \in [1 .. n -> S] : IsInjective(f)
  BY <1>2 DEF ExistsBijection, Bijection, Injection
<1>4. q \in [1 .. n -> S] /\ IsInjective(q)
  BY <1>3 DEF SetToSeq
<1> DEFINE T == {q[i] : i \in 1 .. n}
<1>5. T \in SUBSET S
  BY <1>4
<1>6. q \in Bijection(1 .. n, T)
  <2>1. q \in [1 .. n -> T]
    BY <1>4
  <2>2. \A t \in T : \E i \in 1 .. n : q[i] = t
    OBVIOUS
  <2> QED BY <2>1, <2>2, <1>4 DEF Bijection, Injection, Surjection
<1>7. ExistsBijection(1 .. n, T)
  BY <1>6 DEF ExistsBijection
<1>8. IsFiniteSet(1 .. n) /\ Cardinality(1 .. n) = n
  <2>1. 1 \in Int /\ n \in Int
    BY <1>2
  <2>2. /\ IsFiniteSet(1 .. n)
        /\ Cardinality(1 .. n) = IF 1 > n THEN 0 ELSE n - 1 + 1
    <3> HIDE DEF n
    <3> QED BY <2>1, FS_Interval
  <2> QED BY <2>2, <1>2
<1>9. Cardinality(T) = n
  <2> HIDE DEF T, n, q
  <2> QED BY <1>7, <1>8, FS_Bijection
<1>10. S = T
  <2> HIDE DEF T, q
  <2> QED BY <1>1, <1>5, <1>9, FS_Subset
<1>11. q \in Seq(S) /\ Len(q) = n /\ DOMAIN q = 1 .. n
  <2> HIDE DEF q
  <2> QED BY <1>2, <1>4
<1> HIDE DEF q, n
<1>12. \A x \in S : \E i \in DOMAIN q : q[i] = x
  BY <1>10, <1>11
<1> QED BY <1>2, <1>4, <1>11, <1>12 DEF q

(* One item for each market of a sequence. *)
LEMMA ItemsOf ==
  ASSUME NEW q \in Seq(Markets), NEW t, t \in [DOMAIN q -> Items]
  PROVE  t \in Seq(Items) /\ Len(t) = Len(q) /\ DOMAIN t = 1 .. Len(t)
OBVIOUS

(* A step of the client keeps the types, the history and the epochs. *)
LEMMA ClientTyped ==
  ASSUME FeedInv, now' \in Times,
         conn' \in {"off", "down", "up", "ended"}, retries' \in 0 .. MaxRetries,
         generation' \in Nat, pending' \in [Markets -> Nat], lastBook' \in PerMarketTime,
         out' \in Seq(Items), \A i \in DOMAIN out' : out'[i].epoch = epoch,
         ~ active => conn' = "off",
         UNCHANGED <<live, buffer, boundary, failed, router, recovery, history>>
  PROVE  FeedTypeOK' /\ HistoryOK' /\ EpochInv'
<1>1. /\ UNCHANGED <<scope, active, epoch, restart, observed, connected>>
      /\ UNCHANGED <<buffer, boundary, failed, gap, recoveredAt, deferred, books>>
      /\ UNCHANGED <<worker, requests, lastGeneration, delivered, executed, recoveredIn>>
  BY DEF live, router, recovery, history
<1>2. FeedTypeOK'
  BY <1>1 DEF FeedInv, FeedTypeOK
<1>3. HistoryOK'
  BY <1>1 DEF FeedInv, HistoryOK
<1>4. EpochInv'
  BY <1>1 DEF FeedInv, EpochInv
<1> QED BY <1>2, <1>3, <1>4

(* What the client sends is of its own epoch. *)
LEMMA EmitTyped ==
  ASSUME FeedInv, NEW t \in Seq(Items), Emit(t), \A i \in 1 .. Len(t) : t[i].epoch = epoch
  PROVE  /\ out' = out \o t /\ out' \in Seq(Items)
         /\ \A i \in DOMAIN out' : out'[i].epoch = epoch
<1>1. out \in Seq(Items) /\ out' = out \o t
  BY DEF FeedInv, FeedTypeOK, Emit
<1>2. /\ out' \in Seq(Items) /\ Len(out') = Len(out) + Len(t)
      /\ Len(out) \in Nat /\ Len(t) \in Nat
      /\ \A i \in 1 .. Len(out) : out'[i] = out[i]
      /\ \A i \in 1 .. Len(t) : out'[Len(out) + i] = t[i]
  BY <1>1, ConcatItems
<1>3. ASSUME NEW i \in DOMAIN out' PROVE out'[i].epoch = epoch
  <2>1. i \in 1 .. Len(out) + Len(t)
    BY <1>2
  <2>2. CASE i <= Len(out)
    <3>1. i \in 1 .. Len(out) /\ i \in DOMAIN out
      BY <1>1, <1>2, <2>1, <2>2
    <3> QED BY <3>1, <1>2 DEF FeedInv, EpochInv
  <2>3. CASE i > Len(out)
    <3>1. i - Len(out) \in 1 .. Len(t) /\ i = Len(out) + (i - Len(out))
      BY <1>2, <2>1, <2>3
    <3>2. out'[i] = t[i - Len(out)]
      BY <3>1, <1>2
    <3> QED BY <3>1, <3>2
  <2> QED BY <1>2, <2>1, <2>2, <2>3
<1> QED BY <1>1, <1>2, <1>3

(* The item the client makes, and its fields. *)
LEMMA ItemTyped ==
  ASSUME epoch \in 0 .. MaxEpoch, NEW kind \in Kinds, NEW m \in Markets, NEW g \in Nat,
         NEW at \in Times, NEW rx \in Times
  PROVE  /\ Item(kind, m, g, at, rx) \in Items
         /\ Item(kind, m, g, at, rx).kind = kind
         /\ Item(kind, m, g, at, rx).market = m
         /\ Item(kind, m, g, at, rx).generation = g
         /\ Item(kind, m, g, at, rx).at = at
         /\ Item(kind, m, g, at, rx).rx = rx
         /\ Item(kind, m, g, at, rx).epoch = epoch
BY DEF Item, Items

(* One gap for each market of a sequence, with its generation. *)
GapsOf(q, g) == [i \in DOMAIN q |-> Item("gap", q[i], g[q[i]], 0, 0)]

(* The gaps a lost connection sends. *)
LEMMA GapsTyped ==
  ASSUME epoch \in 0 .. MaxEpoch, NEW q \in Seq(Markets), NEW t,
         NEW g \in [Markets -> Nat],
         t = GapsOf(q, g)
  PROVE  /\ t \in Seq(Items) /\ Len(t) = Len(q) /\ Len(t) \in Nat
         /\ \A i \in 1 .. Len(t) : /\ t[i].epoch = epoch /\ t[i].kind = "gap"
                                   /\ t[i].market = q[i]
<1>1. DOMAIN q = 1 .. Len(q) /\ Len(q) \in Nat /\ \A i \in 1 .. Len(q) : q[i] \in Markets
  OBVIOUS
<1>2. ASSUME NEW i \in DOMAIN q
      PROVE  /\ t[i] \in Items /\ t[i].epoch = epoch /\ t[i].kind = "gap"
             /\ t[i].market = q[i]
  <2>1. q[i] \in Markets /\ g[q[i]] \in Nat
    BY <1>1
  <2>2. "gap" \in Kinds
    BY DEF Kinds
  <2>3. t[i] = Item("gap", q[i], g[q[i]], 0, 0)
    BY DEF GapsOf
  <2> QED BY <2>1, <2>2, <2>3, ItemTyped, BoundFacts
<1>3. t \in [DOMAIN q -> Items]
  BY <1>2 DEF GapsOf
<1> QED BY <1>1, <1>2, <1>3, ItemsOf

(* The requests and the books of a channel with a burst appended. *)
LEMMA AppendedAsked ==
  ASSUME NEW q \in Seq(Items), NEW t \in Seq(Items)
  PROVE  /\ Asked(q \o t) = Asked(q) \cup Asked(t)
         /\ Snapshots(q \o t) = Snapshots(q) \cup Snapshots(t)
<1> DEFINE u == q \o t
<1>1. /\ Len(u) = Len(q) + Len(t) /\ Len(q) \in Nat /\ Len(t) \in Nat
      /\ DOMAIN u = 1 .. Len(q) + Len(t) /\ DOMAIN q = 1 .. Len(q) /\ DOMAIN t = 1 .. Len(t)
      /\ \A i \in 1 .. Len(q) : u[i] = q[i]
      /\ \A i \in 1 .. Len(t) : u[Len(q) + i] = t[i]
  BY ConcatItems
<1> HIDE DEF u
<1>2. ASSUME NEW i \in DOMAIN u
      PROVE  \/ i \in DOMAIN q /\ u[i] = q[i]
             \/ \E j \in DOMAIN t : u[i] = t[j]
  <2>1. i \in 1 .. Len(q) + Len(t)
    BY <1>1
  <2>2. CASE i <= Len(q)
    <3>1. i \in 1 .. Len(q)
      BY <1>1, <2>1, <2>2
    <3> QED BY <3>1, <1>1
  <2>3. CASE i > Len(q)
    <3>1. i - Len(q) \in 1 .. Len(t) /\ i = Len(q) + (i - Len(q))
      BY <1>1, <2>1, <2>3
    <3>2. u[i] = t[i - Len(q)]
      BY <3>1, <1>1
    <3> QED BY <3>1, <3>2, <1>1
  <2> QED BY <1>1, <2>1, <2>2, <2>3
<1>3. ASSUME NEW i \in DOMAIN q PROVE i \in DOMAIN u /\ u[i] = q[i]
  BY <1>1
<1>4. ASSUME NEW j \in DOMAIN t PROVE \E i \in DOMAIN u : u[i] = t[j]
  <2>1. Len(q) + j \in DOMAIN u /\ u[Len(q) + j] = t[j]
    BY <1>1
  <2> QED BY <2>1
<1>5. Asked(u) = Asked(q) \cup Asked(t)
  BY <1>2, <1>3, <1>4 DEF Asked
<1>6. Snapshots(u) = Snapshots(q) \cup Snapshots(t)
  BY <1>2, <1>3, <1>4 DEF Snapshots
<1> QED BY <1>5, <1>6 DEF u

(* The requests and the books of a channel are items of it. *)
LEMMA Asks ==
  ASSUME NEW q \in Seq(Items)
  PROVE  /\ Asked(q) \subseteq Items /\ Snapshots(q) \subseteq Items
         /\ \A r \in Asked(q) : r.kind = "request"
         /\ \A b \in Snapshots(q) : b.kind = "book"
<1>1. \A i \in DOMAIN q : q[i] \in Items
  OBVIOUS
<1> QED BY <1>1 DEF Asked, Snapshots

(* What no step of the client changes. *)
Elsewhere == <<live, buffer, boundary, failed, router, recovery, history>>

(* A client that sends gaps or a terminal record keeps the invariant, if every *)
(* gap that becomes pending is among them.                                     *)
LEMMA SendsGaps ==
  ASSUME FeedInv, now' = now, UNCHANGED Elsewhere,
         conn' \in {"off", "down", "up", "ended"}, retries' \in 0 .. MaxRetries,
         generation' \in Nat, pending' \in [Markets -> Nat], lastBook' \in PerMarketTime,
         ~ active => conn' = "off",
         NEW t \in Seq(Items), out' = out \o t,
         \A i \in 1 .. Len(t) : t[i].kind \in {"gap", "terminal"} /\ t[i].epoch = epoch,
         \A m \in Markets :
           pending'[m] = pending[m] \/ \E i \in 1 .. Len(t) : GapIn(t, i, m)
  PROVE  FeedInv'
<1>0. /\ now \in Times /\ out \in Seq(Items) /\ pending \in [Markets -> Nat]
  BY DEF FeedInv, FeedTypeOK
<1>u. /\ UNCHANGED <<live, router, recovery, history>>
      /\ UNCHANGED <<scope, active, epoch, restart, observed, connected>>
      /\ UNCHANGED <<buffer, boundary, failed, gap, recoveredAt, deferred, books>>
      /\ UNCHANGED <<worker, requests, lastGeneration, delivered, executed, recoveredIn>>
  BY DEF Elsewhere, live, router, recovery, history
<1>1. /\ Len(out') = Len(out) + Len(t) /\ Len(out) \in Nat /\ Len(t) \in Nat
      /\ out' \in Seq(Items)
      /\ \A i \in 1 .. Len(out) : out'[i] = out[i]
      /\ \A i \in 1 .. Len(t) : out'[Len(out) + i] = t[i]
  BY <1>0, ConcatItems
<1>2. ASSUME NEW i \in DOMAIN out' PROVE out'[i].epoch = epoch
  <2>1. i \in 1 .. Len(out) + Len(t)
    BY <1>1
  <2>2. CASE i <= Len(out)
    <3>1. i \in 1 .. Len(out) /\ i \in DOMAIN out
      BY <1>0, <1>1, <2>1, <2>2
    <3> QED BY <3>1, <1>1 DEF FeedInv, EpochInv
  <2>3. CASE i > Len(out)
    <3>1. i - Len(out) \in 1 .. Len(t) /\ i = Len(out) + (i - Len(out))
      BY <1>1, <2>1, <2>3
    <3>2. out'[i] = t[i - Len(out)]
      BY <3>1, <1>1
    <3> QED BY <3>1, <3>2
  <2> QED BY <1>1, <2>1, <2>2, <2>3
<1>3. FeedTypeOK' /\ HistoryOK' /\ EpochInv'
  <2>1. now' \in Times
    BY <1>0
  <2> QED BY <2>1, <1>u, <1>1, <1>2, ClientTyped
<1>4. Asked(t) = {} /\ Snapshots(t) = {}
  <2>1. DOMAIN t = 1 .. Len(t)
    OBVIOUS
  <2> QED BY <2>1 DEF Asked, Snapshots
<1>5. Asked(out') = Asked(out) /\ Snapshots(out') = Snapshots(out)
  <2>1. /\ Asked(out \o t) = Asked(out) \cup Asked(t)
        /\ Snapshots(out \o t) = Snapshots(out) \cup Snapshots(t)
    BY <1>0, AppendedAsked
  <2>2. Asked(out \o t) = Asked(out) /\ Snapshots(out \o t) = Snapshots(out)
    BY <2>1, <1>4
  <2>3. out' = out \o t
    OBVIOUS
  <2> QED BY <2>2, <2>3
<1>6. Asked(out)' = Asked(out) /\ Snapshots(out)' = Snapshots(out)
  BY <1>5 DEF Asked, Snapshots
<1>7. TimeInv'
  BY <1>6, <1>u DEF FeedInv, TimeInv, Fresh
<1>8. RouterInv'
  BY <1>6, <1>u DEF FeedInv, RouterInv
<1>9. FenceInv'
  <2> SUFFICES ASSUME NEW m \in Markets
               PROVE  /\ Spaced(out', pending'[m], m)
                      /\ Unfenced(out', pending'[m], m) => Fenced(m)'
    BY DEF FenceInv
  <2>1. \A i \in 1 .. Len(t) : ~ RequestIn(t, i, m)
    BY DEF RequestIn
  <2>2. /\ Spaced(out, pending[m], m)
        /\ Unfenced(out, pending[m], m) => Fenced(m)
    BY DEF FeedInv, FenceInv
  <2>3. pending[m] \in Nat /\ pending'[m] \in Nat
    BY <1>0
  <2>4. pending'[m] = pending[m] \/ \E i \in 1 .. Len(t) : GapIn(t, i, m)
    OBVIOUS
  <2>5. /\ Spaced(out \o t, pending'[m], m)
        /\ Unfenced(out \o t, pending'[m], m) => Unfenced(out, pending[m], m)
    BY <1>0, <2>1, <2>2, <2>3, <2>4, AppendSpaced
  <2>6. Fenced(m)' <=> Fenced(m)
    BY <1>u DEF Fenced
  <2> QED BY <2>2, <2>5, <2>6
<1> QED BY <1>3, <1>7, <1>8, <1>9 DEF FeedInv

(* Nothing appended. *)
LEMMA ConcatEmpty ==
  ASSUME NEW S, NEW q \in Seq(S) PROVE q \o <<>> = q /\ <<>> \in Seq(S) /\ Len(<<>>) = 0
OBVIOUS

(* A burst of one item. *)
LEMMA ConcatOne ==
  ASSUME NEW S, NEW e \in S
  PROVE  <<e>> \in Seq(S) /\ Len(<<e>>) = 1 /\ <<e>>[1] = e /\ DOMAIN <<e>> = {1}
OBVIOUS

(* run_connection keeps the invariant. *)
LEMMA ConnectInv == ASSUME FeedInv, Connect PROVE FeedInv'
<1>1. /\ now' = now /\ conn' = "up" /\ retries' = retries /\ generation' = generation
      /\ pending' = pending /\ lastBook' = Nowhere /\ out' = out /\ conn = "down"
      /\ UNCHANGED Elsewhere
  BY DEF Connect, Elsewhere
<1>2. /\ retries \in 0 .. MaxRetries /\ generation \in Nat /\ pending \in [Markets -> Nat]
      /\ out \in Seq(Items) /\ active
  BY <1>1 DEF FeedInv, FeedTypeOK, EpochInv
<1>3. Nowhere \in PerMarketTime
  BY NowhereTyped
<1>4. out' = out \o <<>> /\ <<>> \in Seq(Items) /\ Len(<<>>) = 0
  BY <1>1, <1>2, ConcatEmpty
<1>5. \A i \in 1 .. 0 : FALSE
  OBVIOUS
<1> QED BY <1>1, <1>2, <1>3, <1>4, <1>5, SendsGaps

(* A dropped trade batch, which ends the client, keeps the invariant. *)
LEMMA IdentityLimitInv == ASSUME FeedInv, IdentityLimit PROVE FeedInv'
<1> DEFINE any == CHOOSE m \in scope : TRUE
           t == <<Item("terminal", any, 0, 0, 0)>>
<1>1. /\ now' = now /\ conn' = "ended" /\ retries' = retries /\ generation' = generation
      /\ pending' = pending /\ lastBook' = lastBook /\ conn = "up"
      /\ UNCHANGED Elsewhere /\ out' = out \o t
  BY DEF IdentityLimit, Elsewhere, Emit
<1>2. /\ retries \in 0 .. MaxRetries /\ generation \in Nat /\ pending \in [Markets -> Nat]
      /\ out \in Seq(Items) /\ active /\ scope # {} /\ scope \subseteq Markets
      /\ lastBook \in PerMarketTime /\ epoch \in 0 .. MaxEpoch
  BY <1>1 DEF FeedInv, FeedTypeOK, EpochInv
<1>3. any \in Markets
  BY <1>2
<1>4. /\ Item("terminal", any, 0, 0, 0) \in Items
      /\ Item("terminal", any, 0, 0, 0).kind = "terminal"
      /\ Item("terminal", any, 0, 0, 0).epoch = epoch
  <2>1. "terminal" \in Kinds
    BY DEF Kinds
  <2> HIDE DEF any
  <2> QED BY <1>2, <1>3, <2>1, BoundFacts, ItemTyped
<1>5. t \in Seq(Items) /\ Len(t) = 1 /\ t[1].kind = "terminal" /\ t[1].epoch = epoch
  BY <1>4, ConcatOne
<1> HIDE DEF t
<1>6. \A i \in 1 .. Len(t) : t[i].kind \in {"gap", "terminal"} /\ t[i].epoch = epoch
  BY <1>5
<1> QED BY <1>1, <1>2, <1>5, <1>6, SendsGaps

(* emit_gaps and schedule_reconnect keep the invariant: each market whose gap *)
(* becomes pending gets it sent.                                              *)
LEMMA DisconnectInv == ASSUME FeedInv, Disconnect PROVE FeedInv'
<1> DEFINE S == {m \in scope : pending[m] = 0}
           q == Affected
           g == [m \in Markets |-> generation + 1]
           opened == [i \in DOMAIN q |-> Item("gap", q[i], generation + 1, 0, 0)]
           pendingNow == [m \in Markets |->
                            IF m \in scope /\ pending[m] = 0 THEN generation + 1 ELSE pending[m]]
           tries == (IF conn = "up" /\ Healthy THEN 0 ELSE retries) + 1
           order == SetToSeq(scope)
           again == [i \in DOMAIN order |-> Item("gap", order[i], pendingNow[order[i]], 0, 0)]
<1>0. /\ retries \in 0 .. MaxRetries /\ generation \in Nat /\ pending \in [Markets -> Nat]
      /\ out \in Seq(Items) /\ scope \subseteq Markets
      /\ lastBook \in PerMarketTime /\ epoch \in 0 .. MaxEpoch
      /\ ~ active => conn = "off"
  BY DEF FeedInv, FeedTypeOK, EpochInv
<1>1. /\ now' = now /\ lastBook' = lastBook /\ UNCHANGED Elsewhere
      /\ conn \in {"up", "down"} /\ pending' = pendingNow
      /\ generation' \in {generation, generation + 1}
  BY DEF Disconnect, Elsewhere
<1>2. \/ conn' = "ended" /\ retries' = 0 /\ out' = out \o (opened \o again)
      \/ conn' = "down" /\ retries' = tries /\ tries <= MaxRetries /\ out' = out \o opened
  <2>1. tries \in Int
    BY <1>0
  <2>2. tries > MaxRetries \/ tries <= MaxRetries
    BY <2>1, BoundFacts
  <2> QED BY <2>2 DEF Disconnect, Emit
<1>3. tries <= MaxRetries => tries \in 0 .. MaxRetries
  BY <1>0, BoundFacts
<1>4. pendingNow \in [Markets -> Nat]
  BY <1>0
<1>5. /\ q \in Seq(Markets) /\ \A x \in S : \E i \in DOMAIN q : q[i] = x
  <2>1. S \in SUBSET Markets /\ q = SetToSeq(S)
    BY <1>0 DEF Affected
  <2> HIDE DEF S, q
  <2>2. q \in Seq(S) /\ \A x \in S : \E i \in DOMAIN q : q[i] = x
    BY <2>1, OrderedMarkets
  <2> QED BY <2>1, <2>2
<1>6. order \in Seq(Markets)
  <2>1. scope \in SUBSET Markets
    BY <1>0
  <2>2. order \in Seq(scope)
    BY <2>1, OrderedMarkets
  <2> HIDE DEF order
  <2> QED BY <2>1, <2>2
<1>7. /\ opened \in Seq(Items) /\ Len(opened) = Len(q)
      /\ \A i \in 1 .. Len(opened) : /\ opened[i].epoch = epoch /\ opened[i].kind = "gap"
                                     /\ opened[i].market = q[i]
  <2>1. g \in [Markets -> Nat]
    BY <1>0
  <2>2. opened = GapsOf(q, g)
    <3>1. \A i \in DOMAIN q : g[q[i]] = generation + 1
      BY <1>5
    <3> HIDE DEF g, q
    <3> QED BY <3>1 DEF GapsOf
  <2>3. q \in Seq(Markets) /\ epoch \in 0 .. MaxEpoch
    BY <1>0, <1>5
  <2> HIDE DEF opened, g, q
  <2> QED BY ONLY <2>1, <2>2, <2>3, GapsTyped
<1>8. /\ again \in Seq(Items)
      /\ \A i \in 1 .. Len(again) : again[i].epoch = epoch /\ again[i].kind = "gap"
  <2>1. again = GapsOf(order, pendingNow)
    BY DEF GapsOf
  <2> HIDE DEF again, order, pendingNow
  <2> QED BY <1>0, <1>4, <1>6, <2>1, GapsTyped
<1>9. ASSUME NEW m \in Markets, pendingNow[m] # pending[m]
      PROVE  \E i \in 1 .. Len(opened) : GapIn(opened, i, m)
  <2>1. m \in S
    BY <1>9
  <2>2. PICK i \in DOMAIN q : q[i] = m
    BY <1>5, <2>1
  <2>3. i \in 1 .. Len(opened)
    <3> HIDE DEF q, opened
    <3> QED BY <1>5, <1>7
  <2> QED BY <1>7, <2>2, <2>3 DEF GapIn
<1> DEFINE all == opened \o again
<1>10. /\ all \in Seq(Items) /\ Len(all) = Len(opened) + Len(again)
       /\ Len(opened) \in Nat /\ Len(again) \in Nat
       /\ \A i \in 1 .. Len(opened) : all[i] = opened[i]
       /\ \A i \in 1 .. Len(again) : all[Len(opened) + i] = again[i]
  <2> HIDE DEF opened, again
  <2>1. opened \in Seq(Items) /\ again \in Seq(Items)
    BY <1>7, <1>8
  <2> QED BY <2>1, ConcatItems
<1> HIDE DEF all, opened, again, S, q, order
<1>11. ASSUME NEW i \in 1 .. Len(all)
       PROVE  all[i].kind \in {"gap", "terminal"} /\ all[i].epoch = epoch
  <2>1. CASE i <= Len(opened)
    <3>1. i \in 1 .. Len(opened)
      BY <1>10, <2>1
    <3> QED BY <3>1, <1>7, <1>10
  <2>2. CASE i > Len(opened)
    <3>1. i - Len(opened) \in 1 .. Len(again) /\ i = Len(opened) + (i - Len(opened))
      BY <1>10, <2>2
    <3>2. all[i] = again[i - Len(opened)]
      BY <3>1, <1>10
    <3> QED BY <3>1, <3>2, <1>8
  <2> QED BY <1>10, <2>1, <2>2
<1>12. \A m \in Markets : pendingNow[m] = pending[m] \/ \E i \in 1 .. Len(all) : GapIn(all, i, m)
  <2> SUFFICES ASSUME NEW m \in Markets, pendingNow[m] # pending[m]
               PROVE  \E i \in 1 .. Len(all) : GapIn(all, i, m)
    OBVIOUS
  <2>1. PICK i \in 1 .. Len(opened) : GapIn(opened, i, m)
    BY <1>9
  <2>2. i \in 1 .. Len(all) /\ all[i] = opened[i]
    BY <1>10
  <2> QED BY <2>1, <2>2 DEF GapIn
<1>13. generation' \in Nat /\ 0 \in 0 .. MaxRetries /\ active
  BY <1>0, <1>1, BoundFacts
<1>14. CASE conn' = "ended" /\ retries' = 0 /\ out' = out \o all
  <2> HIDE DEF pendingNow
  <2> QED BY <1>0, <1>1, <1>4, <1>10, <1>11, <1>12, <1>13, <1>14, SendsGaps
<1>15. CASE conn' = "down" /\ retries' = tries /\ tries <= MaxRetries /\ out' = out \o opened
  <2>1. \A i \in 1 .. Len(opened) : opened[i].kind \in {"gap", "terminal"} /\ opened[i].epoch = epoch
    BY <1>7
  <2>2. retries' \in 0 .. MaxRetries
    BY <1>3, <1>15
  <2> HIDE DEF pendingNow, tries
  <2> QED BY <1>0, <1>1, <1>4, <1>7, <1>9, <1>13, <1>15, <2>1, <2>2, SendsGaps
<1> QED BY <1>2, <1>14, <1>15 DEF all

(* A burst of a book. *)
LEMMA BookOnly ==
  ASSUME NEW b \in Items, b.kind = "book"
  PROVE  LET t == <<b>> \o <<>> IN
         /\ t \in Seq(Items) /\ Len(t) = 1 /\ t[1] = b
         /\ Asked(t) = {} /\ Snapshots(t) = {b}
<1>1. <<b>> \o <<>> = <<b>>
  BY ConcatOne, ConcatEmpty
<1> DEFINE t == <<b>>
<1>2. Len(t) = 1 /\ t[1] = b /\ DOMAIN t = {1} /\ t \in Seq(Items)
  BY ConcatOne
<1>3. Snapshots(t) = {b} /\ Asked(t) = {}
  BY <1>2 DEF Snapshots, Asked
<1> QED BY <1>1, <1>2, <1>3

(* A burst of a book and the request behind it. *)
LEMMA BookAndRequest ==
  ASSUME NEW b \in Items, NEW r \in Items, b.kind = "book", r.kind = "request"
  PROVE  LET t == <<b>> \o <<r>> IN
         /\ t \in Seq(Items) /\ Len(t) = 2 /\ t[1] = b /\ t[2] = r
         /\ Asked(t) = {r} /\ Snapshots(t) = {b}
<1> DEFINE s == <<b>>
           q == <<r>>
           t == s \o q
<1>1. /\ s \in Seq(Items) /\ Len(s) = 1 /\ s[1] = b
      /\ q \in Seq(Items) /\ Len(q) = 1 /\ q[1] = r
  BY ConcatOne
<1> HIDE DEF s, q
<1>2. /\ t \in Seq(Items) /\ Len(t) = Len(s) + Len(q)
      /\ \A i \in 1 .. Len(s) : t[i] = s[i]
      /\ \A i \in 1 .. Len(q) : t[Len(s) + i] = q[i]
  BY <1>1, ConcatItems
<1>3. Len(t) = 2 /\ t[1] = b /\ t[2] = r
  BY <1>1, <1>2
<1> HIDE DEF t
<1>4. DOMAIN t = {1, 2}
  <2>1. t \in Seq(Items)
    BY <1>2
  <2>2. DOMAIN t = 1 .. Len(t)
    BY <2>1
  <2>3. DOMAIN t = 1 .. 2
    BY <2>2, <1>3
  <2>4. 1 .. 2 = {1, 2}
    OBVIOUS
  <2> QED BY <2>3, <2>4
<1>5. Snapshots(t) = {b} /\ Asked(t) = {r}
  BY <1>3, <1>4 DEF Snapshots, Asked
<1> QED BY <1>2, <1>3, <1>5 DEF t, s, q

(* handle_frame keeps the invariant: the request of the pending gap is stamped *)
(* with a receipt no other book of the channel or of the buffer has.           *)
LEMMA SnapshotInv ==
  ASSUME FeedInv, NEW m \in Markets, NEW latency \in 1 .. MaxLatency, Snapshot(m, latency)
  PROVE  FeedInv'
<1> DEFINE rx == now + 1
           at == rx - latency
           p == pending[m]
           b == Item("book", m, 0, at, rx)
           r == Item("request", m, p, at, rx)
           asked == IF p = 0 THEN <<>> ELSE <<r>>
           t == <<b>> \o asked
<1>0. /\ retries \in 0 .. MaxRetries /\ generation \in Nat /\ pending \in [Markets -> Nat]
      /\ out \in Seq(Items) /\ scope \subseteq Markets /\ now \in Times
      /\ lastBook \in PerMarketTime /\ epoch \in 0 .. MaxEpoch
      /\ deferred \in PerMarketTime /\ boundary \in Times /\ buffer \in Seq(Items)
  BY DEF FeedInv, FeedTypeOK
<1>1. /\ now' = rx /\ rx <= MaxTime /\ at > lastBook[m] /\ UNCHANGED Elsewhere
      /\ conn = "up" /\ conn' = conn /\ retries' = retries /\ generation' = generation
      /\ lastBook' = [lastBook EXCEPT ![m] = at]
      /\ pending' = [pending EXCEPT ![m] = 0]
  BY DEF Snapshot, Elsewhere
<1>2. Emit(t) /\ out' = out \o t
  BY DEF Snapshot, Emit
<1>3. /\ rx \in Times /\ at \in Times /\ p \in Nat /\ at < rx /\ rx > now /\ now \in Int /\ rx \in Int
  <2>1. lastBook[m] \in Nat /\ p \in Nat
    BY <1>0, FeedAssumption DEF PerMarketTime, Times
  <2>2. now \in Nat /\ latency \in Nat /\ latency >= 1 /\ MaxTime \in Nat
    BY <1>0, FeedAssumption DEF Times
  <2>3. rx <= MaxTime /\ at > lastBook[m]
    BY <1>1
  <2>4. rx \in 0 .. MaxTime /\ at \in 0 .. MaxTime /\ at < rx /\ rx > now
    BY <2>1, <2>2, <2>3
  <2> QED BY <2>1, <2>2, <2>4 DEF Times
<1> HIDE DEF rx, at, p
<1>4. /\ b \in Items /\ b.kind = "book" /\ b.market = m /\ b.at = at /\ b.rx = rx /\ b.epoch = epoch
      /\ r \in Items /\ r.kind = "request" /\ r.market = m /\ r.at = at /\ r.rx = rx
      /\ r.epoch = epoch /\ r.generation = p
  <2>1. "book" \in Kinds /\ "request" \in Kinds /\ 0 \in Nat
    BY DEF Kinds
  <2> QED BY <1>0, <1>3, <2>1, ItemTyped
<1>5. (p = 0 /\ asked = <<>>) \/ (p > 0 /\ asked = <<r>>)
  BY <1>3
<1>6. /\ t \in Seq(Items) /\ t[1] = b /\ Snapshots(t) = {b}
      /\ \/ p = 0 /\ Len(t) = 1 /\ Asked(t) = {}
         \/ p > 0 /\ Len(t) = 2 /\ t[2] = r /\ Asked(t) = {r}
  <2>1. CASE p = 0 /\ asked = <<>>
    <3>1. t = <<b>> \o <<>>
      BY <2>1
    <3> HIDE DEF b, r, t, asked
    <3> QED BY <1>4, <2>1, <3>1, BookOnly
  <2>2. CASE p > 0 /\ asked = <<r>>
    <3>1. t = <<b>> \o <<r>>
      BY <2>2
    <3> HIDE DEF b, r, t, asked
    <3> QED BY <1>4, <2>2, <3>1, BookAndRequest
  <2> QED BY <1>5, <2>1, <2>2
<1>b. \A i \in 1 .. Len(t) : t[i] = b \/ t[i] = r
  <2> HIDE DEF b, r, t, asked
  <2>1. (\A i \in 1 .. 1 : i = 1) /\ (\A i \in 1 .. 2 : i = 1 \/ i = 2)
    OBVIOUS
  <2> QED BY <1>6, <2>1
<1> HIDE DEF b, r, t, asked
<1>7. /\ Asked(out') = Asked(out) \cup Asked(t)
      /\ Snapshots(out') = Snapshots(out) \cup {b}
  <2>1. /\ Asked(out \o t) = Asked(out) \cup Asked(t)
        /\ Snapshots(out \o t) = Snapshots(out) \cup Snapshots(t)
    BY <1>0, <1>6, AppendedAsked
  <2> QED BY <2>1, <1>2, <1>6
<1>u. /\ UNCHANGED <<live, router, recovery, history>>
      /\ UNCHANGED <<scope, active, epoch, restart, observed, connected>>
      /\ UNCHANGED <<buffer, boundary, failed, gap, recoveredAt, deferred, books>>
      /\ UNCHANGED <<worker, requests, lastGeneration, delivered, executed, recoveredIn>>
  BY <1>1 DEF Elsewhere, live, router, recovery, history
<1>8. FeedTypeOK' /\ HistoryOK' /\ EpochInv'
  <2>1. out' \in Seq(Items) /\ \A i \in DOMAIN out' : out'[i].epoch = epoch
    <3>1. \A i \in 1 .. Len(t) : t[i].epoch = epoch
      BY <1>4, <1>6, <1>b
    <3> QED BY <1>2, <1>6, <3>1, EmitTyped
  <2>2. lastBook' \in PerMarketTime
    BY <1>0, <1>1, <1>3 DEF PerMarketTime
  <2>3. pending' \in [Markets -> Nat]
    BY <1>0, <1>1
  <2>4. active
    BY <1>1 DEF FeedInv, EpochInv
  <2>5. conn' \in {"off", "down", "up", "ended"} /\ now' \in Times
    BY <1>1, <1>3
  <2> QED BY <1>0, <1>1, <1>u, <2>1, <2>2, <2>3, <2>4, <2>5, ClientTyped
<1>9. boundary <= now /\ boundary \in Int
  BY <1>0, BoundFacts DEF FeedInv, TimeInv
<1>10. ASSUME NEW x \in Asked(out) \cup Snapshots(out)
       PROVE  /\ x.at < x.rx /\ x.rx <= now /\ x.rx \in Int
  <2>1. x \in Items
    BY <1>0, Asks
  <2>2. x.rx \in Int
    BY <2>1, ItemFields, FeedAssumption DEF Times
  <2>3. Fresh(x)
    BY DEF FeedInv, TimeInv
  <2> QED BY <2>2, <2>3 DEF Fresh
<1>11. \A i \in DOMAIN buffer : buffer[i].at < buffer[i].rx /\ buffer[i].rx <= now /\ buffer[i].rx \in Int
  <2> SUFFICES ASSUME NEW i \in DOMAIN buffer
               PROVE  buffer[i].at < buffer[i].rx /\ buffer[i].rx <= now /\ buffer[i].rx \in Int
    OBVIOUS
  <2>1. buffer[i] \in Items
    BY <1>0
  <2>2. buffer[i].rx \in Int
    BY <2>1, ItemFields, FeedAssumption DEF Times
  <2> QED BY <2>2 DEF FeedInv, TimeInv, Fresh
<1>12. ASSUME NEW x \in Asked(out')
       PROVE  x \in Asked(out) \/ (x = r /\ p > 0)
  BY <1>6, <1>7
<1>13. Asked(out)' = Asked(out') /\ Snapshots(out)' = Snapshots(out')
  BY DEF Asked, Snapshots
<1>14. TimeInv'
  <2>1. boundary' <= now'
    BY <1>1, <1>3, <1>9, <1>u
  <2>2. ASSUME NEW x \in Asked(out') PROVE x.generation > 0 /\ Fresh(x)'
    <3>1. CASE x \in Asked(out)
      <4>1. x.generation > 0
        BY <3>1 DEF FeedInv, TimeInv
      <4> QED BY <4>1, <3>1, <1>10, <1>1, <1>3 DEF Fresh
    <3>2. CASE x = r /\ p > 0
      BY <3>2, <1>4, <1>1, <1>3 DEF Fresh
    <3> QED BY <1>12, <3>1, <3>2
  <2>3. ASSUME NEW x \in Snapshots(out') PROVE Fresh(x)'
    <3>1. CASE x \in Snapshots(out)
      BY <3>1, <1>10, <1>1, <1>3 DEF Fresh
    <3>2. CASE x = b
      BY <3>2, <1>4, <1>1, <1>3 DEF Fresh
    <3> QED BY <1>7, <3>1, <3>2
  <2>4. (\A i \in DOMAIN buffer : Fresh(buffer[i]))'
    BY <1>u, <1>11, <1>1, <1>3 DEF Fresh
  <2>5. ASSUME NEW x \in Asked(out')
        PROVE  /\ \A y \in Snapshots(out') : y.rx = x.rx => y.at = x.at
               /\ \A j \in DOMAIN buffer' : buffer'[j].rx = x.rx => buffer'[j].at = x.at
    <3>1. CASE x \in Asked(out)
      <4>1. x.rx < rx
        BY <3>1, <1>10, <1>3
      <4>2. \A y \in Snapshots(out) : y.rx = x.rx => y.at = x.at
        BY <3>1 DEF FeedInv, TimeInv
      <4>3. \A j \in DOMAIN buffer : buffer[j].rx = x.rx => buffer[j].at = x.at
        BY <3>1 DEF FeedInv, TimeInv
      <4>4. b.rx # x.rx
        BY <4>1, <1>4, <1>3, <3>1, <1>10
      <4> QED BY <4>2, <4>3, <4>4, <1>7, <1>u
    <3>2. CASE x = r
      <4>1. \A y \in Snapshots(out) : y.rx # rx
        BY <1>10, <1>3
      <4>2. \A j \in DOMAIN buffer : buffer[j].rx # rx
        BY <1>11, <1>3
      <4> QED BY <3>2, <4>1, <4>2, <1>4, <1>7, <1>u
    <3> QED BY <1>12, <3>1, <3>2
  <2>6. \A i \in DOMAIN requests' : /\ requests'[i].rx <= boundary' /\ requests'[i].rx > 0
                                    /\ requests'[i].generation > 0
    BY <1>u DEF FeedInv, TimeInv
  <2> QED BY <1>13, <2>1, <2>2, <2>3, <2>4, <2>5, <2>6 DEF TimeInv
<1>15. RouterInv'
  <2>1. deferred[m] < rx
    <3>1. deferred[m] \in Int
      BY <1>0, FeedAssumption DEF PerMarketTime, Times
    <3>2. deferred[m] <= boundary
      BY DEF FeedInv, RouterInv
    <3> QED BY <3>1, <3>2, <1>9, <1>3
  <2>2. ASSUME NEW x \in Asked(out')
        PROVE  deferred'[x.market] = x.rx => executed'[x.market].at <= x.at
    <3>1. CASE x \in Asked(out)
      BY <3>1, <1>u DEF FeedInv, RouterInv
    <3>2. CASE x = r
      <4>1. deferred[m] # rx
        BY <2>1, <1>3, <1>0, BoundFacts DEF PerMarketTime
      <4> QED BY <3>2, <4>1, <1>4, <1>u
    <3> QED BY <1>12, <3>1, <3>2
  <2> QED BY <1>13, <1>u, <2>2 DEF FeedInv, RouterInv
<1>16. FenceInv'
  <2> SUFFICES ASSUME NEW n \in Markets
               PROVE  /\ Spaced(out', pending'[n], n)
                      /\ Unfenced(out', pending'[n], n) => Fenced(n)'
    BY DEF FenceInv
  <2>1. /\ Spaced(out, pending[n], n)
        /\ Unfenced(out, pending[n], n) => Fenced(n)
    BY DEF FeedInv, FenceInv
  <2>2. pending[n] \in Nat
    BY <1>0
  <2>3. CASE n = m /\ p > 0
    <3>1. pending'[n] = 0 /\ pending[n] = p
      BY <2>3, <1>0, <1>1 DEF p
    <3>2. Len(t) = 2 /\ t[1].kind = "book" /\ RequestIn(t, 2, n)
      BY <2>3, <1>3, <1>6, <1>4, <1>6 DEF RequestIn
    <3>3. /\ Spaced(out \o t, 0, n)
          /\ Unfenced(out \o t, 0, n) => Unfenced(out, p, n)
      BY <1>0, <1>6, <2>1, <2>2, <2>3, <3>1, <3>2, RequestSpaced
    <3>4. Fenced(n)' <=> Fenced(n)
      BY <1>u DEF Fenced
    <3> QED BY <1>2, <2>1, <3>1, <3>3, <3>4
  <2>4. CASE n # m \/ p = 0
    <3>1. pending'[n] = pending[n]
      BY <2>4, <1>0, <1>1 DEF p
    <3>2. \A i \in 1 .. Len(t) : ~ RequestIn(t, i, n)
      <4>1. CASE n # m
        <5>1. \A i \in 1 .. Len(t) : t[i].market = m
          BY <1>4, <1>6, <1>b
        <5> QED BY <4>1, <5>1 DEF RequestIn
      <4>2. CASE p = 0
        <5>1. Len(t) = 1 /\ \A i \in 1 .. 1 : i = 1
          BY <4>2, <1>3, <1>6
        <5>3. \A i \in 1 .. Len(t) : t[i] = b
          BY <5>1, <1>6
        <5> QED BY <5>3, <1>4 DEF RequestIn
      <4> QED BY <2>4, <4>1, <4>2
    <3>3. /\ Spaced(out \o t, pending'[n], n)
          /\ Unfenced(out \o t, pending'[n], n) => Unfenced(out, pending[n], n)
      BY <1>0, <1>6, <2>1, <2>2, <3>1, <3>2, AppendSpaced
    <3>4. Fenced(n)' <=> Fenced(n)
      BY <1>u DEF Fenced
    <3> QED BY <1>2, <2>1, <3>3, <3>4
  <2>5. p > 0 \/ p = 0
    BY <1>3
  <2> QED BY <2>3, <2>4, <2>5
<1> QED BY <1>8, <1>14, <1>15, <1>16 DEF FeedInv

(* Times are integers. *)
LEMMA TimesAreInts == Times \subseteq Int
BY FeedAssumption DEF Times

(* The requests and the books of the next channel. *)
LEMMA PrimedAsks ==
  Asked(out)' = Asked(out') /\ Snapshots(out)' = Snapshots(out')
BY DEF Asked, Snapshots

(* A commit defers no snapshot a request was already submitted for. *)
LEMMA DeferredApart ==
  ASSUME FeedInv, NEW batch, Seen(batch),
         NEW at \in {Committed(batch).boundary, now}, Flushed(batch, at),
         NEW i \in DOMAIN requests, NEW m \in Markets,
         deferred'[m] # deferred[m]
  PROVE  deferred'[m] # requests[i].rx
<1>1. FlushedIn(batch, m)
  BY FlushedFacts
<1>2. PICK j \in DOMAIN batch : boundary <= batch[j].at /\ batch[j].rx = deferred'[m]
  BY <1>1 DEF FlushedIn
<1>3. batch[j] \in Items /\ batch[j].at < batch[j].rx
  BY DEF Seen, Fresh
<1>4. requests[i] \in Items /\ requests[i].rx <= boundary
  BY DEF FeedInv, FeedTypeOK, TimeInv
<1>5. /\ batch[j].at \in Int /\ batch[j].rx \in Int /\ requests[i].rx \in Int /\ boundary \in Int
  BY <1>3, <1>4, ItemFields, TimesAreInts DEF FeedInv, FeedTypeOK
<1> QED BY <1>2, <1>3, <1>4, <1>5

(* A commit keeps the router's part of the invariant. *)
LEMMA RouterFlushed ==
  ASSUME FeedInv, NEW batch, Seen(batch),
         NEW at \in {Committed(batch).boundary, now}, Flushed(batch, at),
         requests' = requests, Asked(out') \subseteq Asked(out),
         \A r \in Asked(out') : \A i \in DOMAIN batch : batch[i].rx = r.rx => batch[i].at = r.at
  PROVE  RouterInv'
<1>1. /\ gap' = gap /\ recoveredAt' = recoveredAt
      /\ \A m \in Markets : FlushedIn(batch, m)
  BY FlushedFacts
<1>2. /\ deferred \in PerMarketTime /\ boundary \in Times /\ executed \in Executions
      /\ requests \in Seq(Items) /\ out \in Seq(Items) /\ recoveredAt \in [Markets -> Nat]
  BY DEF FeedInv, FeedTypeOK, HistoryOK
<1>3. ASSUME NEW m \in Markets
      PROVE  /\ executed'[m].at <= boundary' /\ deferred'[m] <= boundary'
             /\ recoveredAt'[m] > 0 =>
                  /\ gap'[m] = NoGap /\ deferred'[m] = 0
                  /\ executed'[m].at <= books'[m] \/ executed'[m].at <= recoveredAt'[m]
  <2>1. FlushedIn(batch, m)
    BY <1>1
  <2>2. recoveredAt[m] > 0 => gap[m] = NoGap /\ deferred[m] = 0
    BY DEF FeedInv, RouterInv
  <2>3. recoveredAt[m] \in Nat
    BY <1>2
  <2> QED BY <1>1, <2>1, <2>2, <2>3 DEF FlushedIn
<1>4. ASSUME NEW i \in DOMAIN requests, deferred'[requests[i].market] = requests[i].rx
      PROVE  /\ gap'[requests[i].market].epoch = requests[i].epoch
             /\ executed'[requests[i].market].at <= requests[i].at
  <2> DEFINE r == requests[i]
             m == r.market
  <2>1. r \in Items /\ m \in Markets /\ r.rx > 0
    BY <1>2, ItemFields DEF FeedInv, TimeInv
  <2>2. deferred'[m] = deferred[m]
    BY <1>4, <2>1, DeferredApart
  <2>3. gap[m].epoch = r.epoch /\ executed[m].at <= r.at
    BY <1>4, <2>2 DEF FeedInv, RouterInv
  <2>4. deferred[m] # 0
    BY <1>4, <2>1, <2>2
  <2>5. ~ (recoveredAt[m] > 0)
    BY <2>1, <2>4 DEF FeedInv, RouterInv
  <2>6. executed'[m] = executed[m]
    <3>1. FlushedIn(batch, m)
      BY <1>1, <2>1
    <3> QED BY <3>1, <2>5 DEF FlushedIn
  <2> QED BY <1>1, <2>3, <2>6
<1>5. ASSUME NEW r \in Asked(out'), deferred'[r.market] = r.rx
      PROVE  executed'[r.market].at <= r.at
  <2> DEFINE m == r.market
  <2>1. r \in Asked(out) /\ r \in Items
    BY <1>2, Asks
  <2>2. m \in Markets /\ r.rx \in Int /\ r.at \in Nat /\ r.at < r.rx
    <3>1. m \in Markets /\ r.rx \in Times /\ r.at \in Times
      BY <2>1, ItemFields
    <3>2. Fresh(r)
      BY <2>1 DEF FeedInv, TimeInv
    <3> QED BY <3>1, <3>2, FeedAssumption DEF Times, Fresh
  <2>3. FlushedIn(batch, m)
    BY <1>1, <2>2
  <2>4. executed[m].at <= boundary /\ executed[m].at \in Int /\ boundary \in Int
    BY <1>2, <2>2, TimesAreInts DEF FeedInv, RouterInv, Executions
  <2>5. CASE deferred'[m] = deferred[m]
    <3>1. deferred[m] # 0
      BY <1>5, <2>2, <2>5
    <3>2. ~ (recoveredAt[m] > 0)
      BY <2>2, <3>1 DEF FeedInv, RouterInv
    <3>3. executed'[m] = executed[m]
      BY <2>3, <3>2 DEF FlushedIn
    <3>4. executed[m].at <= r.at
      BY <1>5, <2>1, <2>5 DEF FeedInv, RouterInv
    <3> QED BY <3>3, <3>4
  <2>6. CASE deferred'[m] # deferred[m]
    <3>1. recoveredAt[m] = 0
      BY <2>3, <2>6 DEF FlushedIn
    <3>2. executed'[m] = executed[m]
      BY <2>3, <3>1 DEF FlushedIn
    <3>3. PICK j \in DOMAIN batch : boundary <= batch[j].at /\ batch[j].rx = deferred'[m]
      BY <2>3, <2>6 DEF FlushedIn
    <3>4. batch[j].at = r.at
      BY <1>5, <3>3
    <3> QED BY <2>2, <2>4, <3>2, <3>3, <3>4
  <2> QED BY <2>5, <2>6
<1> QED BY <1>3, <1>4, <1>5, PrimedAsks DEF RouterInv

(* A commit keeps the clocks' part of the invariant. *)
LEMMA TimeFlushed ==
  ASSUME FeedInv, NEW batch, Seen(batch),
         NEW at \in {Committed(batch).boundary, now}, Flushed(batch, at),
         requests' = requests, now' = now,
         Asked(out') \subseteq Asked(out), Snapshots(out') \subseteq Snapshots(out)
  PROVE  TimeInv'
<1>1. buffer' = <<>> /\ boundary <= boundary' /\ boundary' <= now /\ boundary' \in Times
  BY FlushedFacts
<1>2. boundary \in Int /\ boundary' \in Int /\ requests \in Seq(Items)
  BY <1>1, TimesAreInts DEF FeedInv, FeedTypeOK
<1>3. ASSUME NEW i \in DOMAIN requests
      PROVE  requests[i].rx <= boundary' /\ requests[i].rx > 0 /\ requests[i].generation > 0
  <2>1. requests[i].rx \in Int
    <3>1. requests[i] \in Items
      BY <1>2
    <3> QED BY <3>1, ItemFields, TimesAreInts
  <2>2. requests[i].rx <= boundary /\ requests[i].rx > 0 /\ requests[i].generation > 0
    BY DEF FeedInv, TimeInv
  <2> QED BY <1>1, <1>2, <2>1, <2>2
<1>4. ASSUME NEW x \in Asked(out') PROVE x.generation > 0 /\ Fresh(x)'
  BY DEF FeedInv, TimeInv, Fresh
<1>5. ASSUME NEW x \in Snapshots(out') PROVE Fresh(x)'
  BY DEF FeedInv, TimeInv, Fresh
<1>6. \A x \in Asked(out') : \A b \in Snapshots(out') : b.rx = x.rx => b.at = x.at
  BY DEF FeedInv, TimeInv
<1>7. DOMAIN buffer' = {}
  BY <1>1
<1> QED BY <1>1, <1>3, <1>4, <1>5, <1>6, <1>7, PrimedAsks DEF TimeInv

(* A commit leaves a fenced market fenced. *)
LEMMA FencedFlushed ==
  ASSUME FeedInv, NEW batch, Seen(batch),
         NEW at \in {Committed(batch).boundary, now}, Flushed(batch, at),
         requests' = requests, epoch' = epoch, NEW m \in Markets, Fenced(m)
  PROVE  Fenced(m)'
<1>1. gap' = gap /\ recoveredAt' = recoveredAt
  BY FlushedFacts
<1>2. ASSUME NEW i \in DOMAIN requests, requests[i].market = m
      PROVE  deferred'[m] # requests[i].rx
  <2>1. CASE deferred'[m] = deferred[m]
    BY <1>2, <2>1 DEF Fenced
  <2>2. CASE deferred'[m] # deferred[m]
    BY <2>2, DeferredApart
  <2> QED BY <2>1, <2>2
<1> QED BY <1>1, <1>2 DEF Fenced

(* The requests and the books behind the head of a channel. *)
LEMMA TailAsked ==
  ASSUME NEW q \in Seq(Items), q # <<>>
  PROVE  /\ Asked(Tail(q)) \subseteq Asked(q) /\ Snapshots(Tail(q)) \subseteq Snapshots(q)
         /\ Head(q).kind = "book" => Head(q) \in Snapshots(q)
         /\ Head(q).kind = "request" => Head(q) \in Asked(q)
<1> DEFINE u == Tail(q)
<1>1. /\ Len(q) \in Nat \ {0} /\ Head(q) = q[1] /\ DOMAIN q = 1 .. Len(q)
      /\ DOMAIN u = 1 .. Len(q) - 1 /\ \A i \in 1 .. Len(q) - 1 : u[i] = q[i + 1]
  BY TailItems
<1> HIDE DEF u
<1>2. ASSUME NEW i \in DOMAIN u PROVE i + 1 \in DOMAIN q /\ u[i] = q[i + 1]
  BY <1>1
<1>3. 1 \in DOMAIN q
  BY <1>1
<1> QED BY <1>1, <1>2, <1>3 DEF Asked, Snapshots, u

(* What is behind the head is of the same epoch. *)
LEMMA TailEpochs ==
  ASSUME FeedInv, out # <<>>
  PROVE  /\ Tail(out) \in Seq(Items) /\ \A i \in DOMAIN Tail(out) : Tail(out)[i].epoch = epoch
         /\ Head(out) \in Items /\ Head(out).epoch = epoch
<1>1. /\ out \in Seq(Items) /\ \A i \in DOMAIN out : out[i].epoch = epoch
  BY DEF FeedInv, FeedTypeOK, EpochInv
<1>2. /\ Tail(out) \in Seq(Items) /\ Len(out) \in Nat \ {0}
      /\ \A i \in 1 .. Len(out) - 1 : Tail(out)[i] = out[i + 1]
      /\ Head(out) = out[1] /\ Head(out) \in Items
      /\ DOMAIN Tail(out) = 1 .. Len(out) - 1 /\ DOMAIN out = 1 .. Len(out)
  BY <1>1, TailItems
<1>3. ASSUME NEW i \in DOMAIN Tail(out) PROVE Tail(out)[i].epoch = epoch
  <2>1. i + 1 \in DOMAIN out /\ Tail(out)[i] = out[i + 1]
    BY <1>2
  <2> QED BY <2>1, <1>1
<1>4. 1 \in DOMAIN out
  BY <1>2
<1> QED BY <1>1, <1>2, <1>3, <1>4

(* Receiving a book or a request keeps the fence's part of the invariant, if *)
(* it leaves the other markets fenced.                                       *)
LEMMA TailFence ==
  ASSUME FeedInv, out # <<>>, Head(out).kind # "gap",
         out' = Tail(out), pending' = pending,
         \A m \in Markets : Fenced(m) /\ ~ RequestIn(out, 1, m) => Fenced(m)'
  PROVE  FenceInv'
<1> SUFFICES ASSUME NEW m \in Markets
             PROVE  /\ Spaced(out', pending'[m], m)
                    /\ Unfenced(out', pending'[m], m) => Fenced(m)'
  BY DEF FenceInv
<1>1. out \in Seq(Items) /\ pending[m] \in Nat
  BY DEF FeedInv, FeedTypeOK
<1>2. /\ Spaced(out, pending[m], m)
      /\ Unfenced(out, pending[m], m) => Fenced(m)
  BY DEF FeedInv, FenceInv
<1>3. /\ Spaced(Tail(out), pending[m], m)
      /\ Unfenced(Tail(out), pending[m], m) => ~ RequestIn(out, 1, m)
      /\ Unfenced(Tail(out), pending[m], m) => GapIn(out, 1, m) \/ Unfenced(out, pending[m], m)
  BY <1>1, <1>2, TailSpaced
<1>4. ~ GapIn(out, 1, m)
  <2>1. Head(out) = out[1]
    BY <1>1, TailItems
  <2> QED BY <2>1 DEF GapIn
<1> QED BY <1>2, <1>3, <1>4

(* A commit keeps the types, the history and the epochs. *)
LEMMA FlushTyped ==
  ASSUME FeedInv, NEW batch, Seen(batch), FlushBatch(batch), now' = now,
         UNCHANGED <<conn, retries, generation, pending, lastBook>>,
         UNCHANGED recovery, recoveredIn' = recoveredIn, delivered' \subseteq Markets,
         out' \in Seq(Items), \A i \in DOMAIN out' : out'[i].epoch = epoch
  PROVE  FeedTypeOK' /\ HistoryOK' /\ EpochInv'
<1> DEFINE at == Committed(batch).boundary
<1>1. at \in {Committed(batch).boundary, now} /\ Flushed(batch, at)
  BY DEF FlushBatch
<1>2. /\ buffer' = <<>> /\ gap' = gap /\ recoveredAt' = recoveredAt
      /\ boundary' \in Times
      /\ failed' \in Failures /\ books' \in PerMarketTime
      /\ deferred' \in PerMarketTime /\ executed' \in Executions
  <2> HIDE DEF at
  <2> QED BY <1>1, FlushedFacts DEF at
<1>3. UNCHANGED <<scope, active, epoch, restart>>
  BY DEF FlushBatch
<1>4. observed' \subseteq scope /\ connected' \in BOOLEAN
  <2>1. observed \subseteq scope /\ connected \in BOOLEAN
    BY DEF FeedInv, FeedTypeOK
  <2>2. CASE active
    <3>1. /\ observed' = observed \cup ({batch[i].market : i \in DOMAIN batch} \cap scope)
          /\ connected' = (connected \/ ({batch[i].market : i \in DOMAIN batch} \cap scope # {} /\ observed' = scope))
      BY <2>2 DEF FlushBatch, ObserveL2
    <3>2. observed' \subseteq scope
      BY <2>1, <3>1
    <3>3. connected' \in BOOLEAN
      BY <3>1, Zenon
    <3> QED BY <3>2, <3>3
  <2>3. CASE ~ active
    <3>1. observed' = observed /\ connected' = connected
      BY <2>3 DEF FlushBatch, ObserveL2
    <3> QED BY <2>1, <3>1
  <2> QED BY <2>2, <2>3
<1>5. /\ UNCHANGED <<worker, requests, lastGeneration>>
  BY DEF recovery
<1>6. buffer' \in Seq(Items) /\ Len(buffer') < BatchCapacity
  BY <1>2, FeedAssumption
<1>7. FeedTypeOK'
  BY <1>2, <1>3, <1>4, <1>5, <1>6 DEF FeedInv, FeedTypeOK
<1>8. HistoryOK'
  BY <1>2 DEF FeedInv, HistoryOK
<1>9. EpochInv'
  BY <1>3 DEF FeedInv, EpochInv
<1> QED BY <1>7, <1>8, <1>9

(* The tick of live_flush_clock keeps the invariant. *)
LEMMA FlushInv == ASSUME FeedInv, Flush PROVE FeedInv'
<1>1. /\ FlushBatch(buffer) /\ UNCHANGED <<now, client, recovery, delivered, recoveredIn>>
  BY DEF Flush
<1>2. /\ now' = now /\ UNCHANGED <<conn, retries, generation, pending, lastBook, out>>
      /\ UNCHANGED recovery /\ requests' = requests /\ delivered' = delivered /\ recoveredIn' = recoveredIn
  BY <1>1 DEF client, recovery
<1>3. /\ out \in Seq(Items) /\ \A i \in DOMAIN out : out[i].epoch = epoch
      /\ delivered \subseteq Markets
  BY DEF FeedInv, FeedTypeOK, EpochInv, HistoryOK
<1>4. Seen(buffer)
  BY BufferSeen
<1>5. FeedTypeOK' /\ HistoryOK' /\ EpochInv'
  BY <1>1, <1>2, <1>3, <1>4, FlushTyped
<1>6. PICK at \in {Committed(buffer).boundary, now} : Flushed(buffer, at)
  BY <1>1 DEF FlushBatch
<1>7. epoch' = epoch
  BY <1>1 DEF FlushBatch
<1>8. TimeInv'
  BY <1>2, <1>4, <1>6, TimeFlushed
<1>9. RouterInv'
  <2>1. \A r \in Asked(out') : \A i \in DOMAIN buffer : buffer[i].rx = r.rx => buffer[i].at = r.at
    BY <1>2 DEF FeedInv, TimeInv
  <2> QED BY <1>2, <1>4, <1>6, <2>1, RouterFlushed
<1>10. FenceInv'
  <2>1. \A m \in Markets : Fenced(m) => Fenced(m)'
    BY <1>2, <1>4, <1>6, <1>7, FencedFlushed
  <2> QED BY <1>2, <2>1 DEF FeedInv, FenceInv
<1> QED BY <1>5, <1>8, <1>9, <1>10 DEF FeedInv

(* A received book, buffered or committed with the full buffer, keeps the *)
(* invariant.                                                             *)
LEMMA ReceiveBookInv == ASSUME FeedInv, ReceiveBook PROVE FeedInv'
<1> DEFINE h == Head(out)
           batch == Append(buffer, h)
<1>1. /\ out # <<>> /\ h.kind = "book" /\ out' = Tail(out)
      /\ UNCHANGED <<now, conn, retries, generation, pending, lastBook>>
      /\ UNCHANGED recovery /\ requests' = requests /\ recoveredIn' = recoveredIn
      /\ delivered' = delivered \cup {h.market}
  BY DEF ReceiveBook, Receives, recovery
<1>2. /\ out \in Seq(Items) /\ delivered \subseteq Markets
  BY DEF FeedInv, FeedTypeOK, HistoryOK
<1>3. /\ out' \in Seq(Items) /\ (\A i \in DOMAIN out' : out'[i].epoch = epoch)
      /\ h \in Items /\ h.market \in Markets
  BY <1>1, TailEpochs, ItemFields
<1>4. /\ Asked(out') \subseteq Asked(out) /\ Snapshots(out') \subseteq Snapshots(out)
      /\ h \in Snapshots(out)
  BY <1>1, <1>2, TailAsked
<1>5. /\ Seen(batch) /\ Len(batch) = Len(buffer) + 1 /\ DOMAIN batch = 1 .. Len(buffer) + 1
      /\ \A i \in 1 .. Len(buffer) : batch[i] = buffer[i]
      /\ batch[Len(buffer) + 1] = h
  BY <1>1, AppendedSeen
<1>6. delivered' \subseteq Markets
  BY <1>1, <1>2, <1>3
<1>7. \A m \in Markets : ~ RequestIn(out, 1, m)
  <2>1. h = out[1]
    BY <1>1, <1>2, TailItems
  <2> QED BY <1>1, <2>1 DEF RequestIn
<1>8. \/ Len(batch) >= BatchCapacity /\ FlushBatch(batch)
      \/ ~ (Len(batch) >= BatchCapacity) /\ buffer' = batch /\ UNCHANGED <<live, boundary, failed, router, executed>>
  BY DEF ReceiveBook
<1>9. \A r \in Asked(out) : \A i \in DOMAIN batch : batch[i].rx = r.rx => batch[i].at = r.at
  <2> SUFFICES ASSUME NEW r \in Asked(out), NEW i \in 1 .. Len(buffer) + 1, batch[i].rx = r.rx
               PROVE  batch[i].at = r.at
    BY <1>5
  <2>1. buffer \in Seq(Items)
    BY DEF FeedInv, FeedTypeOK
  <2>2. Len(buffer) \in Nat /\ DOMAIN buffer = 1 .. Len(buffer)
    BY <2>1
  <2>3. CASE i \in 1 .. Len(buffer)
    <3>1. batch[i] = buffer[i]
      BY <1>5, <2>3
    <3> QED BY <2>2, <2>3, <3>1 DEF FeedInv, TimeInv
  <2>4. CASE i = Len(buffer) + 1
    <3>1. batch[i] = h
      BY <1>5, <2>4
    <3> QED BY <1>4, <3>1 DEF FeedInv, TimeInv
  <2> QED BY <2>2, <2>3, <2>4
<1> HIDE DEF batch, h
<1>10. CASE FlushBatch(batch)
  <2>1. FeedTypeOK' /\ HistoryOK' /\ EpochInv'
    BY <1>1, <1>3, <1>5, <1>6, <1>10, FlushTyped
  <2>2. PICK at \in {Committed(batch).boundary, now} : Flushed(batch, at)
    BY <1>10 DEF FlushBatch
  <2>3. epoch' = epoch
    BY <1>10 DEF FlushBatch
  <2>4. TimeInv'
    BY <1>1, <1>4, <1>5, <2>2, TimeFlushed
  <2>5. RouterInv'
    BY <1>1, <1>4, <1>5, <1>9, <2>2, RouterFlushed
  <2>6. \A m \in Markets : Fenced(m) => Fenced(m)'
    BY <1>1, <1>5, <2>2, <2>3, FencedFlushed
  <2>7. FenceInv'
    BY <1>1, <2>6, TailFence DEF h
  <2> QED BY <2>1, <2>4, <2>5, <2>7 DEF FeedInv
<1>11. CASE /\ ~ (Len(batch) >= BatchCapacity) /\ buffer' = batch
            /\ UNCHANGED <<live, boundary, failed, router, executed>>
  <2>0. /\ UNCHANGED <<scope, active, epoch, restart, observed, connected>>
        /\ UNCHANGED <<boundary, failed, gap, recoveredAt, deferred, books, executed>>
        /\ UNCHANGED <<worker, requests, lastGeneration>>
    BY <1>1, <1>11 DEF live, router, recovery
  <2>1. FeedTypeOK'
    <3>1. buffer' \in Seq(Items)
      BY <1>5, <1>11 DEF Seen
    <3>2. Len(buffer') < BatchCapacity
      <4>1. Len(batch) \in Nat
        BY <1>5 DEF Seen
      <4> QED BY <4>1, <1>11, FeedAssumption
    <3> QED BY <1>1, <1>3, <2>0, <3>1, <3>2 DEF FeedInv, FeedTypeOK
  <2>2. HistoryOK' /\ EpochInv'
    BY <1>1, <1>3, <1>6, <2>0 DEF FeedInv, HistoryOK, EpochInv
  <2>3. TimeInv'
    <3>1. (\A i \in DOMAIN buffer : Fresh(buffer[i]))'
      <4>1. \A i \in DOMAIN batch : Fresh(batch[i])
        BY <1>5 DEF Seen
      <4> QED BY <4>1, <1>1, <1>11 DEF Fresh
    <3>2. (\A r \in Asked(out) : r.generation > 0 /\ Fresh(r))'
      BY <1>1, <1>4, PrimedAsks DEF FeedInv, TimeInv, Fresh
    <3>3. (\A b \in Snapshots(out) : Fresh(b))'
      BY <1>1, <1>4, PrimedAsks DEF FeedInv, TimeInv, Fresh
    <3>4. (\A r \in Asked(out) :
             /\ \A b \in Snapshots(out) : b.rx = r.rx => b.at = r.at
             /\ \A j \in DOMAIN buffer : buffer[j].rx = r.rx => buffer[j].at = r.at)'
      BY <1>4, <1>9, <1>11, PrimedAsks DEF FeedInv, TimeInv
    <3>5. boundary' <= now' /\ requests' = requests /\ boundary' = boundary
      BY <1>1, <2>0 DEF FeedInv, TimeInv
    <3> QED BY <3>1, <3>2, <3>3, <3>4, <3>5 DEF FeedInv, TimeInv
  <2>4. RouterInv'
    BY <1>4, <2>0, PrimedAsks DEF FeedInv, RouterInv
  <2>5. FenceInv'
    <3>1. \A m \in Markets : Fenced(m) => Fenced(m)'
      BY <2>0 DEF Fenced
    <3> QED BY <1>1, <3>1, TailFence DEF h
  <2> QED BY <2>1, <2>2, <2>3, <2>4, <2>5 DEF FeedInv
<1> QED BY <1>8, <1>10, <1>11

(* A client that ended or begins asks for nothing. *)
LEMMA ResetClient ==
  ASSUME out' = <<>>, pending' = Nowhere
  PROVE  FenceInv' /\ Asked(out') = {} /\ Snapshots(out') = {}
<1>1. Asked(out') = {} /\ Snapshots(out') = {}
  BY DEF Asked, Snapshots
<1>2. ASSUME NEW m \in Markets
      PROVE  /\ Spaced(out', pending'[m], m)
             /\ ~ Unfenced(out', pending'[m], m)
  BY NowhereTyped, EmptySpaced
<1> QED BY <1>1, <1>2 DEF FenceInv

(* end_live_epoch keeps the invariant. *)
LEMMA ReceiveEndInv == ASSUME FeedInv, ReceiveEnd PROVE FeedInv'
<1>1. /\ conn' = "off" /\ retries' = 0 /\ generation' = 0
      /\ pending' = Nowhere /\ lastBook' = Nowhere /\ out' = <<>>
      /\ connected' = FALSE /\ observed' = {} /\ active' = FALSE
      /\ restart' = (scope # {})
      /\ UNCHANGED <<now, scope, epoch, buffer, boundary, failed>>
      /\ UNCHANGED <<gap, recoveredAt, deferred, books>>
      /\ UNCHANGED <<worker, requests, lastGeneration>>
      /\ UNCHANGED <<delivered, executed, recoveredIn>>
  BY DEF ReceiveEnd, StopClient, router, recovery, history
<1>2. FenceInv' /\ Asked(out') = {} /\ Snapshots(out') = {}
  BY <1>1, ResetClient
<1>3. FeedTypeOK'
  <2>1. /\ Nowhere \in PerMarketTime /\ Nowhere \in [Markets -> Nat] /\ 0 \in 0 .. MaxRetries
    BY NowhereTyped, BoundFacts
  <2>2. <<>> \in Seq(Items)
    OBVIOUS
  <2>3. restart' \in BOOLEAN
    BY <1>1
  <2> QED BY <1>1, <2>1, <2>2, <2>3 DEF FeedInv, FeedTypeOK
<1>4. HistoryOK'
  BY <1>1 DEF FeedInv, HistoryOK
<1>5. EpochInv'
  <2>1. restart' => scope' # {}
    BY <1>1
  <2>2. DOMAIN out' = {}
    BY <1>1
  <2>3. ~ active' /\ conn' = "off"
    BY <1>1
  <2> QED BY <2>1, <2>2, <2>3 DEF EpochInv
<1>6. TimeInv'
  BY <1>1, <1>2, PrimedAsks DEF FeedInv, TimeInv, Fresh
<1>7. RouterInv'
  BY <1>1, <1>2, PrimedAsks DEF FeedInv, RouterInv
<1> QED BY <1>2, <1>3, <1>4, <1>5, <1>6, <1>7 DEF FeedInv

(* open_gap keeps the invariant: it fences its market in this epoch. *)
LEMMA ReceiveGapInv == ASSUME FeedInv, ReceiveGap PROVE FeedInv'
<1> DEFINE h == Head(out)
           m == h.market
           opened == [epoch |-> h.epoch, generation |-> h.generation]
<1>1. /\ out # <<>> /\ h.kind = "gap" /\ out' = Tail(out)
      /\ UNCHANGED <<now, conn, retries, generation, pending, lastBook>>
      /\ gap' = [gap EXCEPT ![m] = opened]
      /\ recoveredAt' = [recoveredAt EXCEPT ![m] = 0]
      /\ deferred' = [deferred EXCEPT ![m] = 0]
      /\ UNCHANGED <<scope, active, epoch, restart, observed, connected>>
      /\ UNCHANGED <<books, buffer, boundary, failed>>
      /\ UNCHANGED <<worker, requests, lastGeneration>>
      /\ UNCHANGED <<delivered, executed, recoveredIn>>
  BY DEF ReceiveGap, Receives, live, recovery, history
<1>2. /\ out' \in Seq(Items) /\ (\A i \in DOMAIN out' : out'[i].epoch = epoch)
      /\ h \in Items /\ m \in Markets /\ h.epoch = epoch /\ h.generation \in Nat
  BY <1>1, TailEpochs, ItemFields
<1>3. /\ out \in Seq(Items) /\ gap \in [Markets -> [epoch : 0 .. MaxEpoch, generation : Nat]]
      /\ recoveredAt \in [Markets -> Nat] /\ deferred \in PerMarketTime /\ epoch \in 0 .. MaxEpoch
      /\ requests \in Seq(Items) /\ pending \in [Markets -> Nat]
  BY DEF FeedInv, FeedTypeOK
<1>4. /\ Asked(out') \subseteq Asked(out) /\ Snapshots(out') \subseteq Snapshots(out)
  BY <1>1, <1>3, TailAsked
<1>t. opened \in [epoch : 0 .. MaxEpoch, generation : Nat] /\ opened.epoch = epoch
  BY <1>2, <1>3
<1>h. h = out[1]
  BY <1>1, <1>3, TailItems
<1> HIDE DEF opened, m, h
<1>5. /\ gap' \in [Markets -> [epoch : 0 .. MaxEpoch, generation : Nat]]
      /\ recoveredAt' \in [Markets -> Nat] /\ deferred' \in PerMarketTime
  <2>1. 0 \in Times /\ 0 \in Nat
    BY BoundFacts
  <2> QED BY <1>1, <1>3, <1>t, <2>1 DEF PerMarketTime
<1>6. FeedTypeOK'
  BY <1>1, <1>2, <1>5 DEF FeedInv, FeedTypeOK
<1>7. HistoryOK' /\ EpochInv'
  BY <1>1, <1>2 DEF FeedInv, HistoryOK, EpochInv
<1>8. TimeInv'
  BY <1>1, <1>4, PrimedAsks DEF FeedInv, TimeInv, Fresh
<1>9. /\ deferred'[m] = 0 /\ recoveredAt'[m] = 0 /\ gap'[m] = opened
      /\ \A n \in Markets \ {m} : /\ deferred'[n] = deferred[n] /\ recoveredAt'[n] = recoveredAt[n]
                                  /\ gap'[n] = gap[n]
  BY <1>1, <1>2, <1>3 DEF PerMarketTime
<1>10. \A i \in DOMAIN requests : requests[i].rx > 0 /\ requests[i].market \in Markets
  <2> SUFFICES ASSUME NEW i \in DOMAIN requests
               PROVE  requests[i].rx > 0 /\ requests[i].market \in Markets
    OBVIOUS
  <2>1. requests[i] \in Items
    BY <1>3
  <2> QED BY <2>1, ItemFields DEF FeedInv, TimeInv
<1>11. RouterInv'
  <2>1. ASSUME NEW n \in Markets
        PROVE  /\ executed'[n].at <= boundary' /\ deferred'[n] <= boundary'
               /\ recoveredAt'[n] > 0 =>
                    /\ gap'[n] = NoGap /\ deferred'[n] = 0
                    /\ executed'[n].at <= books'[n] \/ executed'[n].at <= recoveredAt'[n]
    <3>1. 0 <= boundary
      BY FeedAssumption DEF FeedInv, FeedTypeOK, Times
    <3>2. CASE n = m
      BY <1>1, <1>9, <3>1, <3>2 DEF FeedInv, RouterInv
    <3>3. CASE n # m
      BY <1>1, <1>9, <3>3 DEF FeedInv, RouterInv
    <3> QED BY <3>2, <3>3
  <2>2. ASSUME NEW i \in DOMAIN requests, deferred'[requests[i].market] = requests[i].rx
        PROVE  /\ gap'[requests[i].market].epoch = requests[i].epoch
               /\ executed'[requests[i].market].at <= requests[i].at
    <3>1. requests[i].market # m
      BY <2>2, <1>9, <1>10
    <3> QED BY <2>2, <3>1, <1>1, <1>9, <1>10 DEF FeedInv, RouterInv
  <2>3. ASSUME NEW r \in Asked(out'), deferred'[r.market] = r.rx
        PROVE  executed'[r.market].at <= r.at
    <3>1. r \in Items /\ r \in Asked(out)
      BY <1>3, <1>4, Asks
    <3>2. r.rx > 0 /\ r.market \in Markets
      <4>1. Fresh(r) /\ r.market \in Markets /\ r.at \in Nat /\ r.rx \in Nat
        BY <3>1, ItemFields, FeedAssumption DEF FeedInv, TimeInv, Times
      <4> QED BY <4>1 DEF Fresh
    <3>3. r.market # m
      BY <2>3, <1>9, <3>2
    <3> QED BY <2>3, <3>1, <3>2, <3>3, <1>1, <1>9 DEF FeedInv, RouterInv
  <2> QED BY <1>1, <2>1, <2>2, <2>3, PrimedAsks DEF RouterInv
<1>12. FenceInv'
  <2> SUFFICES ASSUME NEW n \in Markets
               PROVE  /\ Spaced(out', pending'[n], n)
                      /\ Unfenced(out', pending'[n], n) => Fenced(n)'
    BY DEF FenceInv
  <2>1. /\ Spaced(out, pending[n], n)
        /\ Unfenced(out, pending[n], n) => Fenced(n)
    BY DEF FeedInv, FenceInv
  <2>2. pending[n] \in Nat
    BY <1>3
  <2>3. /\ Spaced(Tail(out), pending[n], n)
        /\ Unfenced(Tail(out), pending[n], n) => GapIn(out, 1, n) \/ Unfenced(out, pending[n], n)
    BY <1>1, <1>3, <2>1, <2>2, TailSpaced
  <2>4. CASE n = m
    <3>1. Fenced(n)'
      <4>1. \A i \in DOMAIN requests : deferred'[m] # requests[i].rx
        BY <1>9, <1>10
      <4> QED BY <4>1, <2>4, <1>1, <1>9, <1>t DEF Fenced
    <3> QED BY <3>1, <2>3, <1>1
  <2>5. CASE n # m
    <3>1. ~ GapIn(out, 1, n)
      BY <2>5, <1>h DEF GapIn, m
    <3>2. Fenced(n) => Fenced(n)'
      BY <2>5, <1>1, <1>9 DEF Fenced
    <3> QED BY <1>1, <2>1, <2>3, <3>1, <3>2
  <2> QED BY <2>4, <2>5
<1> QED BY <1>6, <1>7, <1>8, <1>11, <1>12 DEF FeedInv

(* The queue with a request behind it. *)
LEMMA AppendItems ==
  ASSUME NEW S, NEW q \in Seq(S), NEW e \in S
  PROVE  /\ Append(q, e) \in Seq(S) /\ Len(q) \in Nat
         /\ DOMAIN Append(q, e) = 1 .. Len(q) + 1 /\ DOMAIN q = 1 .. Len(q)
         /\ \A i \in 1 .. Len(q) : Append(q, e)[i] = q[i]
         /\ Append(q, e)[Len(q) + 1] = e
OBVIOUS

(* RecoveryRequested keeps the invariant: the request submitted is that of the *)
(* market's open gap, and nothing was executed after its snapshot.             *)
LEMMA ReceiveRequestInv == ASSUME FeedInv, ReceiveRequest PROVE FeedInv'
<1> DEFINE r == Head(out)
           m == r.market
<1>1. /\ out # <<>> /\ r.kind = "request" /\ out' = Tail(out)
      /\ UNCHANGED <<now, conn, retries, generation, pending, lastBook>>
      /\ UNCHANGED <<scope, active, epoch, restart, observed, connected>>
      /\ UNCHANGED <<gap, recoveredAt, deferred, books, buffer>>
      /\ UNCHANGED <<delivered, executed, recoveredIn>>
  BY DEF ReceiveRequest, Receives, live, router, history
<1>2. /\ \/ failed' = "backward_time" /\ boundary' = boundary /\ UNCHANGED <<worker, requests, lastGeneration>>
         \/ failed' = failed /\ boundary' = r.rx /\ Submit(r) /\ ~ (r.rx < boundary)
  BY DEF ReceiveRequest, recovery
<1>3. /\ out' \in Seq(Items) /\ (\A i \in DOMAIN out' : out'[i].epoch = epoch)
      /\ r \in Items /\ m \in Markets /\ r.epoch = epoch /\ r.generation \in Nat
      /\ r.at \in Times /\ r.rx \in Times
  BY <1>1, TailEpochs, ItemFields
<1>4. /\ out \in Seq(Items) /\ boundary \in Times /\ failed \in Failures
      /\ requests \in Seq(Items) /\ pending \in [Markets -> Nat] /\ lastGeneration \in [Markets -> Nat]
      /\ worker \in {"running", "failing", "fenced"} /\ deferred \in PerMarketTime
      /\ executed \in Executions
  BY DEF FeedInv, FeedTypeOK, HistoryOK
<1>5. /\ Asked(out') \subseteq Asked(out) /\ Snapshots(out') \subseteq Snapshots(out)
      /\ r \in Asked(out)
  BY <1>1, <1>4, TailAsked
<1>h. r = out[1]
  BY <1>1, <1>4, TailItems
<1>6. /\ worker' \in {"running", "failing", "fenced"}
      /\ \/ UNCHANGED <<requests, lastGeneration>>
         \/ /\ requests' = Append(requests, r)
            /\ lastGeneration' = [lastGeneration EXCEPT ![m] = r.generation]
            /\ boundary' = r.rx
  BY <1>2, <1>4 DEF Submit, recovery
<1>7. r.generation > 0 /\ r.at < r.rx /\ r.rx <= now
  BY <1>5 DEF FeedInv, TimeInv, Fresh
<1>n. /\ boundary \in Int /\ now \in Int /\ r.rx \in Nat /\ r.at \in Nat
  BY <1>3, <1>4, FeedAssumption DEF FeedInv, FeedTypeOK, Times
<1>8. boundary' \in Times /\ boundary <= boundary' /\ boundary' <= now
  BY <1>2, <1>3, <1>4, <1>7, <1>n DEF FeedInv, TimeInv
<1>9. ASSUME NEW i \in DOMAIN requests'
      PROVE  \/ i \in DOMAIN requests /\ requests'[i] = requests[i]
             \/ requests'[i] = r /\ boundary' = r.rx
  <2>1. CASE UNCHANGED <<requests, lastGeneration>>
    BY <2>1
  <2>2. CASE requests' = Append(requests, r) /\ boundary' = r.rx
    <3>1. /\ DOMAIN requests' = 1 .. Len(requests) + 1 /\ DOMAIN requests = 1 .. Len(requests)
          /\ Len(requests) \in Nat
          /\ \A j \in 1 .. Len(requests) : requests'[j] = requests[j]
          /\ requests'[Len(requests) + 1] = r
      <4> HIDE DEF r
      <4> QED BY <1>3, <1>4, <2>2, AppendItems
    <3>2. i \in 1 .. Len(requests) \/ i = Len(requests) + 1
      BY <3>1
    <3> QED BY <2>2, <3>1, <3>2
  <2> QED BY <1>6, <2>1, <2>2
<1>10. requests' \in Seq(Items) /\ lastGeneration' \in [Markets -> Nat]
  <2>1. CASE UNCHANGED <<requests, lastGeneration>>
    BY <1>4, <2>1
  <2>2. CASE requests' = Append(requests, r) /\ lastGeneration' = [lastGeneration EXCEPT ![m] = r.generation]
    <3> HIDE DEF r, m
    <3> QED BY <1>3, <1>4, <2>2, AppendItems
  <2> QED BY <1>6, <2>1, <2>2
<1>11. failed' \in Failures
  BY <1>2, <1>4 DEF Failures
<1> HIDE DEF r, m
<1>12. FeedTypeOK'
  BY <1>1, <1>3, <1>6, <1>8, <1>10, <1>11 DEF FeedInv, FeedTypeOK
<1>13. HistoryOK' /\ EpochInv'
  BY <1>1, <1>3 DEF FeedInv, HistoryOK, EpochInv
<1>14. ASSUME NEW i \in DOMAIN requests'
       PROVE  /\ requests'[i].rx <= boundary' /\ requests'[i].rx > 0
              /\ requests'[i].generation > 0
  <2>1. CASE i \in DOMAIN requests /\ requests'[i] = requests[i]
    <3>1. requests[i].rx <= boundary /\ requests[i].rx > 0 /\ requests[i].generation > 0
      BY <2>1 DEF FeedInv, TimeInv
    <3>2. requests[i].rx \in Int
      <4>1. requests[i] \in Items
        BY <2>1, <1>4
      <4> QED BY <4>1, ItemFields, TimesAreInts
    <3> QED BY <2>1, <3>1, <3>2, <1>8, <1>n, TimesAreInts
  <2>2. CASE requests'[i] = r /\ boundary' = r.rx
    BY <2>2, <1>7, <1>n
  <2> QED BY <1>9, <2>1, <2>2
<1>15. TimeInv'
  <2>1. (\A x \in Asked(out) : x.generation > 0 /\ Fresh(x))'
    BY <1>1, <1>5, PrimedAsks DEF FeedInv, TimeInv, Fresh
  <2>2. (\A b \in Snapshots(out) : Fresh(b))'
    BY <1>1, <1>5, PrimedAsks DEF FeedInv, TimeInv, Fresh
  <2>3. (\A i \in DOMAIN buffer : Fresh(buffer[i]))'
    BY <1>1 DEF FeedInv, TimeInv, Fresh
  <2>4. (\A x \in Asked(out) :
           /\ \A b \in Snapshots(out) : b.rx = x.rx => b.at = x.at
           /\ \A j \in DOMAIN buffer : buffer[j].rx = x.rx => buffer[j].at = x.at)'
    BY <1>1, <1>5, PrimedAsks DEF FeedInv, TimeInv
  <2> QED BY <1>1, <1>8, <1>14, <2>1, <2>2, <2>3, <2>4 DEF TimeInv
<1>16. RouterInv'
  <2>1. ASSUME NEW n \in Markets
        PROVE  /\ executed'[n].at <= boundary' /\ deferred'[n] <= boundary'
               /\ recoveredAt'[n] > 0 =>
                    /\ gap'[n] = NoGap /\ deferred'[n] = 0
                    /\ executed'[n].at <= books'[n] \/ executed'[n].at <= recoveredAt'[n]
    <3>1. executed[n].at \in Int /\ deferred[n] \in Int /\ boundary' \in Int
      BY <1>4, <1>8, TimesAreInts DEF Executions, PerMarketTime
    <3>2. executed[n].at <= boundary /\ deferred[n] <= boundary
      BY DEF FeedInv, RouterInv
    <3>3. executed[n].at <= boundary' /\ deferred[n] <= boundary'
      BY <3>1, <3>2, <1>8, <1>n
    <3> QED BY <1>1, <3>3 DEF FeedInv, RouterInv
  <2>2. ASSUME NEW i \in DOMAIN requests', deferred'[requests'[i].market] = requests'[i].rx
        PROVE  /\ gap'[requests'[i].market].epoch = requests'[i].epoch
               /\ executed'[requests'[i].market].at <= requests'[i].at
    <3>1. CASE i \in DOMAIN requests /\ requests'[i] = requests[i]
      BY <1>1, <2>2, <3>1 DEF FeedInv, RouterInv
    <3>2. CASE requests'[i] = r
      <4>1. executed[m].at <= r.at
        BY <1>1, <1>5, <2>2, <3>2 DEF FeedInv, RouterInv, m
      <4>2. Unfenced(out, pending[m], m)
        <5>1. RequestIn(out, 1, m) /\ Len(out) \in Nat \ {0}
          BY <1>1, <1>h, <1>4, TailItems DEF RequestIn, m
        <5>2. 1 \in Asking(out, pending[m], m)
          BY <5>1 DEF Asking
        <5>3. \A j \in 1 .. 1 - 1 : FALSE
          OBVIOUS
        <5> QED BY <5>2, <5>3 DEF Unfenced
      <4>3. gap[m].epoch = epoch
        BY <1>3, <4>2 DEF FeedInv, FenceInv, Fenced
      <4> QED BY <1>1, <1>3, <3>2, <4>1, <4>3 DEF m
    <3> QED BY <1>9, <3>1, <3>2
  <2>3. ASSUME NEW x \in Asked(out'), deferred'[x.market] = x.rx
        PROVE  executed'[x.market].at <= x.at
    BY <1>1, <1>5, <2>3 DEF FeedInv, RouterInv
  <2> QED BY <2>1, <2>2, <2>3, PrimedAsks DEF RouterInv
<1>17. FenceInv'
  <2>1. ASSUME NEW n \in Markets, Fenced(n), ~ RequestIn(out, 1, n) PROVE Fenced(n)'
    <3>1. n # m
      BY <1>1, <1>h, <2>1 DEF RequestIn, m
    <3>2. ASSUME NEW i \in DOMAIN requests', requests'[i].market = n
          PROVE  deferred'[n] # requests'[i].rx
      <4>1. requests'[i] # r
        BY <3>1, <3>2 DEF m
      <4>2. i \in DOMAIN requests /\ requests'[i] = requests[i]
        BY <1>9, <4>1
      <4> QED BY <1>1, <2>1, <3>2, <4>2 DEF Fenced
    <3> QED BY <1>1, <2>1, <3>2 DEF Fenced
  <2>2. Head(out).kind # "gap"
    BY <1>1 DEF r
  <2> QED BY <1>1, <2>1, <2>2, TailFence
<1> QED BY <1>12, <1>13, <1>15, <1>16, <1>17 DEF FeedInv

(* The types of what an epoch begins or ends with. *)
EpochTyped ==
  /\ conn' \in {"off", "down", "up", "ended"} /\ retries' \in 0 .. MaxRetries
  /\ generation' \in Nat /\ pending' \in [Markets -> Nat] /\ lastBook' \in PerMarketTime
  /\ out' \in Seq(Items) /\ scope' \subseteq Markets /\ active' \in BOOLEAN
  /\ epoch' \in 0 .. MaxEpoch /\ restart' \in BOOLEAN
  /\ observed' \subseteq scope' /\ connected' \in BOOLEAN
  /\ delivered' \subseteq Markets

(* WsClient::start for a scope that is not empty. *)
LEMMA StartEpochStep ==
  ASSUME FeedInv, NEW newScope \in SUBSET Markets, newScope # {}, StartEpoch(newScope)
  PROVE  EpochTyped /\ EpochInv' /\ out' = <<>> /\ pending' = Nowhere
<1>1. /\ epoch < MaxEpoch /\ epoch' = epoch + 1
      /\ scope' = newScope /\ observed' = {} /\ restart' = FALSE
      /\ connected' = FALSE /\ active' = TRUE /\ delivered' = {}
      /\ conn' = "down" /\ retries' = 0 /\ generation' = 0
      /\ pending' = Nowhere /\ lastBook' = Nowhere /\ out' = <<>>
  BY DEF StartEpoch, StartClient
<1>2. epoch \in 0 .. MaxEpoch
  BY DEF FeedInv, FeedTypeOK
<1>3. epoch' \in 0 .. MaxEpoch
  BY <1>1, <1>2, BoundFacts
<1>4. /\ Nowhere \in PerMarketTime /\ Nowhere \in [Markets -> Nat] /\ 0 \in 0 .. MaxRetries
      /\ <<>> \in Seq(Items) /\ DOMAIN <<>> = {}
  BY NowhereTyped, BoundFacts
<1>5. EpochTyped
  BY <1>1, <1>3, <1>4 DEF EpochTyped
<1>6. EpochInv'
  BY <1>1, <1>4 DEF EpochInv
<1> QED BY <1>1, <1>5, <1>6

(* An unchanged scope. *)
LEMMA KeepScopeStep ==
  ASSUME FeedInv, KeepScope
  PROVE  EpochTyped /\ EpochInv' /\ out' = out /\ pending' = pending /\ epoch' = epoch
<1>1. /\ UNCHANGED <<conn, retries, generation, pending, lastBook, out>>
      /\ UNCHANGED <<scope, active, epoch, restart, observed, connected, delivered>>
  BY DEF KeepScope, client, live
<1>2. EpochTyped
  BY <1>1 DEF FeedInv, FeedTypeOK, HistoryOK, EpochTyped
<1>3. EpochInv'
  BY <1>1 DEF FeedInv, EpochInv
<1> QED BY <1>1, <1>2, <1>3

(* A scope that becomes empty. *)
LEMMA StopEpochStep ==
  ASSUME FeedInv, StopEpoch
  PROVE  /\ EpochTyped /\ EpochInv' /\ epoch' = epoch
         /\ (out' = out /\ pending' = pending) \/ (out' = <<>> /\ pending' = Nowhere)
<1>1. /\ scope' = {} /\ observed' = {} /\ restart' = FALSE /\ active' = FALSE
      /\ epoch' = epoch /\ delivered' = delivered
  BY DEF StopEpoch
<1>2. CASE active
  <2>1. /\ connected' = FALSE /\ conn' = "off" /\ retries' = 0 /\ generation' = 0
        /\ pending' = Nowhere /\ lastBook' = Nowhere /\ out' = <<>>
    BY <1>2 DEF StopEpoch, StopClient
  <2>2. /\ Nowhere \in PerMarketTime /\ Nowhere \in [Markets -> Nat] /\ 0 \in 0 .. MaxRetries
        /\ <<>> \in Seq(Items) /\ DOMAIN <<>> = {}
    BY NowhereTyped, BoundFacts
  <2>3. EpochTyped
    BY <1>1, <2>1, <2>2 DEF FeedInv, FeedTypeOK, HistoryOK, EpochTyped
  <2>4. EpochInv'
    BY <1>1, <2>1, <2>2 DEF EpochInv
  <2> QED BY <1>1, <2>1, <2>3, <2>4
<1>3. CASE ~ active
  <2>1. /\ UNCHANGED <<conn, retries, generation, pending, lastBook, out, connected>>
    BY <1>3 DEF StopEpoch, client
  <2>2. EpochTyped
    BY <1>1, <2>1 DEF FeedInv, FeedTypeOK, HistoryOK, EpochTyped
  <2>3. EpochInv'
    BY <1>1, <1>3, <2>1 DEF FeedInv, EpochInv
  <2> QED BY <1>1, <2>1, <2>2, <2>3
<1> QED BY <1>2, <1>3

(* restart_due keeps the invariant. *)
LEMMA RestartDueInv == ASSUME FeedInv, RestartDue PROVE FeedInv'
<1>1. /\ restart /\ StartEpoch(scope)
      /\ UNCHANGED <<now, buffer, boundary, failed, executed, recoveredIn>>
      /\ UNCHANGED <<gap, recoveredAt, deferred, books>>
      /\ UNCHANGED <<worker, requests, lastGeneration>>
  BY DEF RestartDue, router, recovery
<1>2. scope \in SUBSET Markets /\ scope # {}
  BY <1>1 DEF FeedInv, FeedTypeOK, EpochInv
<1>3. EpochTyped /\ EpochInv' /\ out' = <<>> /\ pending' = Nowhere
  BY <1>1, <1>2, StartEpochStep
<1>4. FenceInv' /\ Asked(out') = {} /\ Snapshots(out') = {}
  BY <1>3, ResetClient
<1>5. FeedTypeOK'
  BY <1>1, <1>3 DEF FeedInv, FeedTypeOK, EpochTyped
<1>6. HistoryOK'
  BY <1>1, <1>3 DEF FeedInv, HistoryOK, EpochTyped
<1>7. TimeInv'
  BY <1>1, <1>4, PrimedAsks DEF FeedInv, TimeInv, Fresh
<1>8. RouterInv'
  BY <1>1, <1>4, PrimedAsks DEF FeedInv, RouterInv
<1> QED BY <1>3, <1>4, <1>5, <1>6, <1>7, <1>8 DEF FeedInv

(* An admitted capture keeps the invariant: the buffer is committed, and the *)
(* scope kept, stopped or started.                                           *)
LEMMA CaptureInv ==
  ASSUME FeedInv, NEW newScope \in Scopes, NEW at \in 0 .. MaxTime, CaptureAdmitted(newScope, at)
  PROVE  FeedInv'
<1>1. /\ at \in {Committed(buffer).boundary, now} /\ Flushed(buffer, at)
      /\ KeepScope \/ ReplaceScope(newScope)
      /\ now' = now /\ recoveredIn' = recoveredIn /\ UNCHANGED <<worker, requests, lastGeneration>>
  BY DEF CaptureAdmitted, recovery
<1>2. newScope \in SUBSET Markets
  BY FeedAssumption
<1>3. KeepScope \/ StopEpoch \/ (newScope # {} /\ StartEpoch(newScope))
  BY <1>1 DEF ReplaceScope
<1>4. /\ EpochTyped /\ EpochInv'
      /\ \/ out' = out /\ pending' = pending /\ epoch' = epoch
         \/ out' = <<>> /\ pending' = Nowhere
  BY <1>2, <1>3, KeepScopeStep, StopEpochStep, StartEpochStep
<1>5. Seen(buffer)
  BY BufferSeen
<1>6. /\ buffer' = <<>> /\ gap' = gap /\ recoveredAt' = recoveredAt
      /\ boundary' \in Times /\ failed' \in Failures /\ books' \in PerMarketTime
      /\ deferred' \in PerMarketTime /\ executed' \in Executions
  BY <1>1, <1>5, FlushedFacts
<1>7. FeedTypeOK'
  <2>1. buffer' \in Seq(Items) /\ Len(buffer') < BatchCapacity
    BY <1>6, FeedAssumption
  <2> QED BY <1>1, <1>4, <1>6, <2>1 DEF FeedInv, FeedTypeOK, EpochTyped
<1>8. HistoryOK'
  BY <1>1, <1>4, <1>6 DEF FeedInv, HistoryOK, EpochTyped
<1>9. Asked(out') \subseteq Asked(out) /\ Snapshots(out') \subseteq Snapshots(out)
  BY <1>4, ResetClient
<1>10. TimeInv'
  BY <1>1, <1>5, <1>9, TimeFlushed
<1>11. RouterInv'
  <2>1. \A r \in Asked(out') : \A i \in DOMAIN buffer : buffer[i].rx = r.rx => buffer[i].at = r.at
    BY <1>9 DEF FeedInv, TimeInv
  <2> QED BY <1>1, <1>5, <1>9, <2>1, RouterFlushed
<1>12. FenceInv'
  <2>1. CASE out' = <<>> /\ pending' = Nowhere
    BY <2>1, ResetClient
  <2>2. CASE out' = out /\ pending' = pending /\ epoch' = epoch
    <3>1. \A m \in Markets : Fenced(m) => Fenced(m)'
      BY <1>1, <1>5, <2>2, FencedFlushed
    <3> QED BY <2>2, <3>1 DEF FeedInv, FenceInv
  <2> QED BY <1>4, <2>1, <2>2
<1> QED BY <1>4, <1>7, <1>8, <1>10, <1>11, <1>12 DEF FeedInv

(* Division rounds down. *)
LEMMA DivIsFloor ==
  ASSUME NEW a \in Nat, NEW b \in Nat \ {0}
  PROVE  a \div b \in Nat /\ a < (a \div b) * b + b
OBVIOUS

(* next_completion_boundary is no earlier than the snapshot. *)
LEMMA BoundaryIsLater ==
  ASSUME NEW at \in Nat
  PROVE  NextBoundary(at) \in Nat /\ NextBoundary(at) >= at
<1> DEFINE a == at + Bar - 1
           q == a \div Bar
           p == q * Bar
<1>1. Bar \in Nat \ {0} /\ a \in Nat
  BY FeedAssumption
<1> HIDE DEF a
<1>2. q \in Nat /\ a < p + Bar
  BY <1>1, DivIsFloor
<1> HIDE DEF q
<1>3. p \in Nat
  BY <1>1, <1>2
<1> HIDE DEF p
<1>4. at <= p
  BY <1>1, <1>2, <1>3 DEF a
<1> QED BY <1>3, <1>4 DEF a, q, p, NextBoundary

(* The head of the worker's queue and what is behind it. *)
LEMMA HeadRequest ==
  ASSUME FeedInv, requests # <<>>
  PROVE  /\ Head(requests) \in Items /\ Head(requests).rx > 0
         /\ 1 \in DOMAIN requests /\ Head(requests) = requests[1]
         /\ Tail(requests) \in Seq(Items)
         /\ \A i \in DOMAIN Tail(requests) :
              i + 1 \in DOMAIN requests /\ Tail(requests)[i] = requests[i + 1]
         /\ \A i \in DOMAIN requests : requests[i] \in Items /\ requests[i].rx > 0
<1>1. requests \in Seq(Items)
  BY DEF FeedInv, FeedTypeOK
<1>2. /\ Tail(requests) \in Seq(Items) /\ Len(requests) \in Nat \ {0}
      /\ \A i \in 1 .. Len(requests) - 1 : Tail(requests)[i] = requests[i + 1]
      /\ Head(requests) = requests[1] /\ Head(requests) \in Items
      /\ DOMAIN Tail(requests) = 1 .. Len(requests) - 1 /\ DOMAIN requests = 1 .. Len(requests)
  BY <1>1, TailItems
<1>3. \A i \in DOMAIN Tail(requests) :
        i + 1 \in DOMAIN requests /\ Tail(requests)[i] = requests[i + 1]
  BY <1>2
<1>4. 1 \in DOMAIN requests
  BY <1>2
<1>5. \A i \in DOMAIN requests : requests[i] \in Items /\ requests[i].rx > 0
  BY <1>1 DEF FeedInv, TimeInv
<1> QED BY <1>2, <1>3, <1>4, <1>5

(* A request in the channel has a market and a receipt. *)
LEMMA AskedFacts ==
  ASSUME FeedInv, NEW r \in Asked(out)
  PROVE  r \in Items /\ r.market \in Markets /\ r.rx > 0
<1>1. out \in Seq(Items)
  BY DEF FeedInv, FeedTypeOK
<1>2. r \in Items
  BY <1>1, Asks
<1>3. Fresh(r) /\ r.market \in Markets /\ r.at \in Nat /\ r.rx \in Nat
  BY <1>2, ItemFields, FeedAssumption DEF FeedInv, TimeInv, Times
<1> QED BY <1>2, <1>3 DEF Fresh

(* An answer of the worker keeps the clocks' part of the invariant. *)
LEMMA AnsweredTime ==
  ASSUME FeedInv, requests # <<>>, requests' = Tail(requests),
         now' = now, out' = out, buffer' = buffer, boundary' = boundary
  PROVE  TimeInv'
<1>1. (\A i \in DOMAIN requests : /\ requests[i].rx <= boundary /\ requests[i].rx > 0
                                  /\ requests[i].generation > 0)'
  BY HeadRequest DEF FeedInv, TimeInv
<1>2. (\A x \in Asked(out) : x.generation > 0 /\ Fresh(x))'
  BY PrimedAsks DEF FeedInv, TimeInv, Fresh
<1>3. (\A b \in Snapshots(out) : Fresh(b))'
  BY PrimedAsks DEF FeedInv, TimeInv, Fresh
<1>4. (\A i \in DOMAIN buffer : Fresh(buffer[i]))'
  BY DEF FeedInv, TimeInv, Fresh
<1>5. (\A x \in Asked(out) :
         /\ \A b \in Snapshots(out) : b.rx = x.rx => b.at = x.at
         /\ \A j \in DOMAIN buffer : buffer[j].rx = x.rx => buffer[j].at = x.at)'
  BY PrimedAsks DEF FeedInv, TimeInv
<1>6. boundary' <= now'
  BY DEF FeedInv, TimeInv
<1> QED BY <1>1, <1>2, <1>3, <1>4, <1>5, <1>6 DEF TimeInv

(* An answer that forgets its market's deferred snapshot keeps the router's *)
(* part of the invariant.                                                   *)
LEMMA AnsweredRouter ==
  ASSUME FeedInv, requests # <<>>, requests' = Tail(requests), out' = out,
         boundary' = boundary, executed' = executed,
         NEW m \in Markets, deferred'[m] = 0,
         \A n \in Markets \ {m} : /\ deferred'[n] = deferred[n] /\ recoveredAt'[n] = recoveredAt[n]
                                  /\ gap'[n] = gap[n] /\ books'[n] = books[n],
         recoveredAt'[m] > 0 =>
           gap'[m] = NoGap /\ executed[m].at <= recoveredAt'[m]
  PROVE  RouterInv'
<1>1. ASSUME NEW n \in Markets
      PROVE  /\ executed'[n].at <= boundary' /\ deferred'[n] <= boundary'
             /\ recoveredAt'[n] > 0 =>
                  /\ gap'[n] = NoGap /\ deferred'[n] = 0
                  /\ executed'[n].at <= books'[n] \/ executed'[n].at <= recoveredAt'[n]
  <2>1. 0 <= boundary
    BY FeedAssumption DEF FeedInv, FeedTypeOK, Times
  <2>2. CASE n = m
    BY <2>1, <2>2 DEF FeedInv, RouterInv
  <2>3. CASE n # m
    BY <2>3 DEF FeedInv, RouterInv
  <2> QED BY <2>2, <2>3
<1>2. ASSUME NEW i \in DOMAIN requests', deferred'[requests'[i].market] = requests'[i].rx
      PROVE  /\ gap'[requests'[i].market].epoch = requests'[i].epoch
             /\ executed'[requests'[i].market].at <= requests'[i].at
  <2>1. i + 1 \in DOMAIN requests /\ requests'[i] = requests[i + 1]
    BY HeadRequest
  <2>2. requests'[i] \in Items /\ requests'[i].rx > 0 /\ requests'[i].market \in Markets
    BY <2>1, HeadRequest, ItemFields
  <2>3. requests'[i].market # m
    BY <1>2, <2>2
  <2> QED BY <1>2, <2>1, <2>2, <2>3 DEF FeedInv, RouterInv
<1>3. ASSUME NEW r \in Asked(out'), deferred'[r.market] = r.rx
      PROVE  executed'[r.market].at <= r.at
  <2>1. r \in Asked(out) /\ r.market \in Markets /\ r.rx > 0
    BY AskedFacts
  <2>2. r.market # m
    BY <1>3, <2>1
  <2> QED BY <1>3, <2>1, <2>2 DEF FeedInv, RouterInv
<1> QED BY <1>1, <1>2, <1>3, PrimedAsks DEF RouterInv

(* fence_recovery_worker keeps the invariant. *)
LEMMA WorkerFailedInv == ASSUME FeedInv, WorkerFailed PROVE FeedInv'
<1>1. /\ worker' = "fenced" /\ requests' = <<>>
      /\ UNCHANGED <<now, conn, retries, generation, pending, lastBook, out>>
      /\ UNCHANGED <<scope, active, epoch, restart, observed, connected>>
      /\ UNCHANGED <<buffer, boundary, failed, gap, recoveredAt, deferred, books>>
      /\ UNCHANGED <<lastGeneration, delivered, executed, recoveredIn>>
  BY DEF WorkerFailed, client, live, router, history
<1>2. DOMAIN requests' = {} /\ requests' \in Seq(Items)
  BY <1>1
<1>3. FeedTypeOK'
  BY <1>1, <1>2 DEF FeedInv, FeedTypeOK
<1>4. HistoryOK' /\ EpochInv'
  BY <1>1 DEF FeedInv, HistoryOK, EpochInv
<1>5. Asked(out') = Asked(out) /\ Snapshots(out') = Snapshots(out)
  BY <1>1
<1>6. TimeInv'
  BY <1>1, <1>2, <1>5, PrimedAsks DEF FeedInv, TimeInv, Fresh
<1>7. RouterInv'
  BY <1>1, <1>2, <1>5, PrimedAsks DEF FeedInv, RouterInv
<1>8. FenceInv'
  <2>1. \A m \in Markets : Fenced(m) => Fenced(m)'
    BY <1>1, <1>2 DEF Fenced
  <2> QED BY <1>1, <2>1 DEF FeedInv, FenceInv
<1> QED BY <1>3, <1>4, <1>6, <1>7, <1>8 DEF FeedInv

(* An unavailable recovery keeps the invariant: its market is fenced, whatever *)
(* gap is open.                                                                *)
LEMMA UnavailableInv == ASSUME FeedInv, Unavailable PROVE FeedInv'
<1> DEFINE m == Head(requests).market
<1>1. /\ requests # <<>> /\ requests' = Tail(requests)
      /\ recoveredAt' = [recoveredAt EXCEPT ![m] = 0]
      /\ deferred' = [deferred EXCEPT ![m] = 0]
      /\ UNCHANGED <<now, conn, retries, generation, pending, lastBook, out>>
      /\ UNCHANGED <<scope, active, epoch, restart, observed, connected>>
      /\ UNCHANGED <<buffer, boundary, failed, gap, books>>
      /\ UNCHANGED <<worker, lastGeneration, delivered, executed, recoveredIn>>
  BY DEF Unavailable, client, live, history
<1>2. /\ recoveredAt \in [Markets -> Nat] /\ deferred \in PerMarketTime
  BY DEF FeedInv, FeedTypeOK
<1>3. m \in Markets
  BY <1>1, HeadRequest, ItemFields
<1> HIDE DEF m
<1>4. /\ recoveredAt' \in [Markets -> Nat] /\ deferred' \in PerMarketTime
      /\ requests' \in Seq(Items)
  <2>1. 0 \in Times /\ 0 \in Nat
    BY BoundFacts
  <2> QED BY <1>1, <1>2, <2>1, HeadRequest DEF PerMarketTime
<1>5. /\ deferred'[m] = 0 /\ recoveredAt'[m] = 0
      /\ \A n \in Markets \ {m} : deferred'[n] = deferred[n] /\ recoveredAt'[n] = recoveredAt[n]
  BY <1>1, <1>2, <1>3 DEF PerMarketTime
<1>6. FeedTypeOK'
  BY <1>1, <1>4 DEF FeedInv, FeedTypeOK
<1>7. HistoryOK' /\ EpochInv'
  BY <1>1 DEF FeedInv, HistoryOK, EpochInv
<1>8. TimeInv'
  BY <1>1, AnsweredTime
<1>9. RouterInv'
  BY <1>1, <1>3, <1>5, AnsweredRouter
<1>10. FenceInv'
  <2>1. ASSUME NEW n \in Markets, Fenced(n) PROVE Fenced(n)'
    <3>1. ASSUME NEW i \in DOMAIN requests', requests'[i].market = n
          PROVE  deferred'[n] # requests'[i].rx
      <4>1. i + 1 \in DOMAIN requests /\ requests'[i] = requests[i + 1] /\ requests'[i].rx > 0
        BY <1>1, HeadRequest
      <4> QED BY <1>5, <2>1, <3>1, <4>1 DEF Fenced
    <3>2. recoveredAt'[n] = 0
      BY <1>5, <2>1 DEF Fenced
    <3> QED BY <1>1, <2>1, <3>1, <3>2 DEF Fenced
  <2> QED BY <1>1, <2>1 DEF FeedInv, FenceInv
<1> QED BY <1>6, <1>7, <1>8, <1>9, <1>10 DEF FeedInv

(* complete_recovery keeps the invariant: it is refused for a fenced market, *)
(* since no queued request names the snapshot deferred behind the fence.     *)
LEMMA ReconciledInv == ASSUME FeedInv, Reconciled PROVE FeedInv'
<1> DEFINE r == Head(requests)
           m == r.market
<1>1. /\ requests # <<>> /\ requests' = Tail(requests) /\ failed' = Refusal(r)
      /\ (failed' = "none" /\ Complete(r)) \/ (failed' # "none" /\ UNCHANGED <<router, recoveredIn>>)
      /\ UNCHANGED <<now, conn, retries, generation, pending, lastBook, out>>
      /\ UNCHANGED <<scope, active, epoch, restart, observed, connected>>
      /\ UNCHANGED <<buffer, boundary>>
      /\ UNCHANGED <<worker, lastGeneration, delivered, executed>>
  <2>1. /\ requests # <<>> /\ requests' = Tail(requests) /\ failed' = Refusal(r)
        /\ UNCHANGED <<now, client, live, buffer, boundary, worker,
                       lastGeneration, delivered, executed>>
    BY DEF Reconciled
  <2>2. (failed' = "none" /\ Complete(r)) \/ (failed' # "none" /\ UNCHANGED <<router, recoveredIn>>)
    BY DEF Reconciled
  <2> HIDE DEF r
  <2> QED BY <2>1, <2>2 DEF client, live
<1>2. /\ recoveredAt \in [Markets -> Nat] /\ deferred \in PerMarketTime /\ books \in PerMarketTime
      /\ gap \in [Markets -> [epoch : 0 .. MaxEpoch, generation : Nat]]
      /\ recoveredIn \in [Markets -> 0 .. MaxEpoch] /\ executed \in Executions
  BY DEF FeedInv, FeedTypeOK, HistoryOK
<1>3. /\ r \in Items /\ m \in Markets /\ r.epoch \in 0 .. MaxEpoch /\ r.at \in Times
      /\ r.rx > 0 /\ 1 \in DOMAIN requests /\ r = requests[1]
  BY <1>1, HeadRequest, ItemFields
<1>4. failed' \in Failures
  BY <1>1 DEF Refusal, Failures
<1>5. failed' = "none" => deferred[m] = r.rx
  BY <1>1 DEF Refusal
<1>6. requests' \in Seq(Items)
  BY <1>1, HeadRequest
<1> HIDE DEF r, m
<1>7. EpochInv'
  BY <1>1 DEF FeedInv, EpochInv
<1>8. TimeInv'
  BY <1>1, AnsweredTime
<1>9. CASE failed' # "none" /\ UNCHANGED <<router, recoveredIn>>
  <2>1. UNCHANGED <<gap, recoveredAt, deferred, books>> /\ recoveredIn' = recoveredIn
    BY <1>9 DEF router
  <2>2. FeedTypeOK' /\ HistoryOK'
    BY <1>1, <1>4, <1>6, <2>1 DEF FeedInv, FeedTypeOK, HistoryOK
  <2>3. \A i \in DOMAIN requests' : i + 1 \in DOMAIN requests /\ requests'[i] = requests[i + 1]
    BY <1>1, HeadRequest
  <2>4. RouterInv'
    BY <1>1, <2>1, <2>3, PrimedAsks DEF FeedInv, RouterInv
  <2>5. FenceInv'
    <3>1. \A n \in Markets : Fenced(n) => Fenced(n)'
      BY <1>1, <2>1, <2>3 DEF Fenced
    <3> QED BY <1>1, <3>1 DEF FeedInv, FenceInv
  <2> QED BY <1>7, <1>8, <2>2, <2>4, <2>5 DEF FeedInv
<1>10. CASE failed' = "none" /\ Complete(r)
  <2>1. /\ gap' = [gap EXCEPT ![m] = NoGap]
        /\ deferred' = [deferred EXCEPT ![m] = 0]
        /\ books' = [books EXCEPT ![m] = 0]
        /\ recoveredAt' = [recoveredAt EXCEPT ![m] = NextBoundary(r.at)]
        /\ recoveredIn' = [recoveredIn EXCEPT ![m] = r.epoch]
    BY <1>10 DEF Complete, m
  <2>2. NextBoundary(r.at) \in Nat /\ NextBoundary(r.at) >= r.at /\ r.at \in Nat
    <3>1. r.at \in Nat
      BY <1>3, BoundFacts
    <3> QED BY <3>1, BoundaryIsLater
  <2> DEFINE bound == NextBoundary(r.at)
  <2>3. /\ gap' \in [Markets -> [epoch : 0 .. MaxEpoch, generation : Nat]]
        /\ deferred' \in PerMarketTime /\ books' \in PerMarketTime
        /\ recoveredAt' \in [Markets -> Nat] /\ recoveredIn' \in [Markets -> 0 .. MaxEpoch]
    <3>1. NoGap \in [epoch : 0 .. MaxEpoch, generation : Nat]
      BY BoundFacts DEF NoGap
    <3>2. 0 \in Times
      BY BoundFacts
    <3> QED BY <1>2, <1>3, <2>1, <2>2, <3>1, <3>2 DEF PerMarketTime
  <2>4. FeedTypeOK' /\ HistoryOK'
    BY <1>1, <1>4, <1>6, <2>3 DEF FeedInv, FeedTypeOK, HistoryOK
  <2>5. /\ deferred'[m] = 0 /\ gap'[m] = NoGap /\ recoveredAt'[m] = NextBoundary(r.at)
        /\ \A n \in Markets \ {m} : /\ deferred'[n] = deferred[n] /\ recoveredAt'[n] = recoveredAt[n]
                                    /\ gap'[n] = gap[n] /\ books'[n] = books[n]
    BY <1>2, <1>3, <2>1 DEF PerMarketTime
  <2>6. executed[m].at <= recoveredAt'[m]
    <3>1. executed[m].at <= r.at
      BY <1>3, <1>5, <1>10 DEF FeedInv, RouterInv, m
    <3>2. executed[m].at \in Int
      BY <1>2, <1>3, TimesAreInts DEF Executions
    <3> QED BY <2>2, <2>5, <3>1, <3>2
  <2>7. RouterInv'
    BY <1>1, <1>3, <2>5, <2>6, AnsweredRouter
  <2>8. FenceInv'
    <3>1. ~ Fenced(m)
      BY <1>3, <1>5, <1>10 DEF Fenced, m
    <3>2. ASSUME NEW n \in Markets, Fenced(n) PROVE Fenced(n)'
      <4>1. n # m
        BY <3>1, <3>2
      <4>2. \A i \in DOMAIN requests' : i + 1 \in DOMAIN requests /\ requests'[i] = requests[i + 1]
        BY <1>1, HeadRequest
      <4>3. deferred'[n] = deferred[n] /\ recoveredAt'[n] = recoveredAt[n] /\ gap'[n] = gap[n]
        BY <2>5, <4>1
      <4> QED BY <1>1, <3>2, <4>2, <4>3 DEF Fenced
    <3> QED BY <1>1, <3>2 DEF FeedInv, FenceInv
  <2> QED BY <1>7, <1>8, <2>4, <2>7, <2>8 DEF FeedInv
<1> QED BY <1>1, <1>9, <1>10

(* A gap closes on its own evidence, in a market. *)
ClosesOnEvidence(m) ==
  recoveredAt[m] = 0 /\ recoveredAt'[m] > 0 =>
    /\ gap[m] # NoGap /\ gap'[m] = NoGap
    /\ recoveredIn'[m] = gap[m].epoch

(* An execution in a market is fenced and in order. *)
ExecutesInOrder(m) ==
  executed'[m] # executed[m] =>
    /\ gap'[m] = NoGap /\ recoveredAt'[m] > 0
    /\ executed'[m].at > recoveredAt'[m]
    /\ executed'[m].at > executed[m].at

(* Both, in every market. *)
Promises == \A m \in Markets : ClosesOnEvidence(m) /\ ExecutesInOrder(m)

(* What a commit executes is past the fence and later than before. *)
LEMMA FlushedPromises ==
  ASSUME FeedInv, NEW batch, Seen(batch),
         NEW at \in {Committed(batch).boundary, now}, Flushed(batch, at)
  PROVE  Promises
<1> SUFFICES ASSUME NEW m \in Markets PROVE ClosesOnEvidence(m) /\ ExecutesInOrder(m)
  BY DEF Promises
<1>1. gap' = gap /\ recoveredAt' = recoveredAt /\ FlushedIn(batch, m)
  BY FlushedFacts
<1>2. recoveredAt[m] > 0 => gap[m] = NoGap
  BY DEF FeedInv, RouterInv
<1>3. recoveredAt[m] \in Nat
  BY DEF FeedInv, FeedTypeOK
<1>4. ClosesOnEvidence(m)
  BY <1>1, <1>3 DEF ClosesOnEvidence
<1>5. ExecutesInOrder(m)
  BY <1>1, <1>2 DEF ExecutesInOrder, FlushedIn
<1> QED BY <1>4, <1>5

(* A step that executes nothing and at most fences markets. *)
LEMMA KeptPromises ==
  ASSUME FeedInv, executed' = executed,
         \A m \in Markets : recoveredAt'[m] = recoveredAt[m] \/ recoveredAt'[m] = 0
  PROVE  Promises
<1>1. ASSUME NEW m \in Markets PROVE ClosesOnEvidence(m)
  <2>1. recoveredAt[m] \in Nat
    BY DEF FeedInv, FeedTypeOK
  <2> QED BY <2>1 DEF ClosesOnEvidence
<1>2. ASSUME NEW m \in Markets PROVE ExecutesInOrder(m)
  BY DEF ExecutesInOrder
<1> QED BY <1>1, <1>2 DEF Promises

(* complete_recovery closes the gap its request was sent for. *)
LEMMA ReconciledPromises == ASSUME FeedInv, Reconciled PROVE Promises
<1> DEFINE r == Head(requests)
           m == r.market
<1>1. /\ requests # <<>> /\ executed' = executed /\ failed' = Refusal(r)
      /\ (failed' = "none" /\ Complete(r)) \/ UNCHANGED <<router, recoveredIn>>
  BY DEF Reconciled
<1>2. 1 \in DOMAIN requests /\ r = requests[1] /\ m \in Markets /\ r \in Items
  BY <1>1, HeadRequest, ItemFields
<1>3. r.generation > 0 /\ r.generation \in Nat
  BY <1>2, ItemFields DEF FeedInv, TimeInv
<1>4. /\ recoveredAt \in [Markets -> Nat] /\ recoveredIn \in [Markets -> 0 .. MaxEpoch]
      /\ gap \in [Markets -> [epoch : 0 .. MaxEpoch, generation : Nat]]
  BY DEF FeedInv, FeedTypeOK, HistoryOK
<1>5. failed' = "none" => gap[m].generation = r.generation /\ deferred[m] = r.rx
  BY <1>1 DEF Refusal
<1> HIDE DEF r, m
<1>6. CASE UNCHANGED <<router, recoveredIn>>
  <2>1. recoveredAt' = recoveredAt
    BY <1>6 DEF router
  <2> QED BY <1>1, <2>1, KeptPromises
<1>7. CASE failed' = "none" /\ Complete(r)
  <2>1. /\ gap' = [gap EXCEPT ![m] = NoGap]
        /\ recoveredAt' = [recoveredAt EXCEPT ![m] = NextBoundary(r.at)]
        /\ recoveredIn' = [recoveredIn EXCEPT ![m] = r.epoch]
    BY <1>7 DEF Complete, m
  <2>2. gap[m] # NoGap
    <3>1. NoGap.generation = 0
      BY DEF NoGap
    <3> QED BY <1>3, <1>5, <1>7, <3>1
  <2>3. gap[m].epoch = r.epoch
    BY <1>2, <1>5, <1>7 DEF FeedInv, RouterInv, m
  <2>4. ASSUME NEW n \in Markets PROVE ClosesOnEvidence(n)
    <3>1. CASE n = m
      <4>1. gap'[n] = NoGap /\ recoveredIn'[n] = r.epoch
        BY <1>2, <1>4, <2>1, <3>1
      <4> QED BY <2>2, <2>3, <3>1, <4>1 DEF ClosesOnEvidence
    <3>2. CASE n # m
      <4>1. recoveredAt'[n] = recoveredAt[n] /\ recoveredAt[n] \in Nat
        BY <1>4, <2>1, <3>2
      <4> QED BY <4>1 DEF ClosesOnEvidence
    <3> QED BY <3>1, <3>2
  <2>5. ASSUME NEW n \in Markets PROVE ExecutesInOrder(n)
    BY <1>1 DEF ExecutesInOrder
  <2> QED BY <2>4, <2>5 DEF Promises
<1> QED BY <1>1, <1>6, <1>7

(* Every step of the live path keeps the invariant and both promises. *)
LEMMA NextFacts ==
  ASSUME FeedInv, [Next]_vars
  PROVE  FeedInv' /\ Promises
<1>1. CASE Connect
  <2>1. executed' = executed /\ recoveredAt' = recoveredAt
    BY <1>1 DEF Connect, router, history
  <2> QED BY <1>1, <2>1, ConnectInv, KeptPromises
<1>2. CASE Disconnect
  <2>1. executed' = executed /\ recoveredAt' = recoveredAt
    BY <1>2 DEF Disconnect, router, history
  <2> QED BY <1>2, <2>1, DisconnectInv, KeptPromises
<1>3. CASE IdentityLimit
  <2>1. executed' = executed /\ recoveredAt' = recoveredAt
    BY <1>3 DEF IdentityLimit, router, history
  <2> QED BY <1>3, <2>1, IdentityLimitInv, KeptPromises
<1>4. CASE \E m \in Markets, latency \in 1 .. MaxLatency : Snapshot(m, latency)
  <2>1. PICK m \in Markets, latency \in 1 .. MaxLatency : Snapshot(m, latency)
    BY <1>4
  <2>2. executed' = executed /\ recoveredAt' = recoveredAt
    BY <2>1 DEF Snapshot, router, history
  <2> QED BY <2>1, <2>2, SnapshotInv, KeptPromises
<1>5. CASE ReceiveBook
  <2>1. FeedInv'
    BY <1>5, ReceiveBookInv
  <2> DEFINE batch == Append(buffer, Head(out))
  <2>2. out # <<>> /\ Head(out).kind = "book"
    BY <1>5 DEF ReceiveBook, Receives
  <2>3. Seen(batch)
    BY <2>2, AppendedSeen
  <2>4. FlushBatch(batch) \/ UNCHANGED <<router, executed>>
    BY <1>5 DEF ReceiveBook
  <2> HIDE DEF batch
  <2>5. CASE FlushBatch(batch)
    <3>1. PICK at \in {Committed(batch).boundary, now} : Flushed(batch, at)
      BY <2>5 DEF FlushBatch
    <3> QED BY <2>1, <2>3, <3>1, FlushedPromises
  <2>6. CASE UNCHANGED <<router, executed>>
    <3>1. executed' = executed /\ recoveredAt' = recoveredAt
      BY <2>6 DEF router
    <3> QED BY <2>1, <3>1, KeptPromises
  <2> QED BY <2>4, <2>5, <2>6
<1>6. CASE ReceiveGap
  <2>1. executed' = executed /\ recoveredAt' = [recoveredAt EXCEPT ![Head(out).market] = 0]
    BY <1>6 DEF ReceiveGap, history
  <2>2. recoveredAt \in [Markets -> Nat]
    BY DEF FeedInv, FeedTypeOK
  <2>3. \A m \in Markets : recoveredAt'[m] = recoveredAt[m] \/ recoveredAt'[m] = 0
    BY <2>1, <2>2
  <2> QED BY <1>6, <2>1, <2>3, ReceiveGapInv, KeptPromises
<1>7. CASE ReceiveRequest
  <2>1. executed' = executed /\ recoveredAt' = recoveredAt
    BY <1>7 DEF ReceiveRequest, router, history
  <2> QED BY <1>7, <2>1, ReceiveRequestInv, KeptPromises
<1>8. CASE ReceiveEnd
  <2>1. executed' = executed /\ recoveredAt' = recoveredAt
    BY <1>8 DEF ReceiveEnd, router, history
  <2> QED BY <1>8, <2>1, ReceiveEndInv, KeptPromises
<1>9. CASE Flush
  <2>1. Seen(buffer)
    BY BufferSeen
  <2>2. PICK at \in {Committed(buffer).boundary, now} : Flushed(buffer, at)
    BY <1>9 DEF Flush, FlushBatch
  <2> QED BY <1>9, <2>1, <2>2, FlushInv, FlushedPromises
<1>10. CASE RestartDue
  <2>1. executed' = executed /\ recoveredAt' = recoveredAt
    BY <1>10 DEF RestartDue, router
  <2> QED BY <1>10, <2>1, RestartDueInv, KeptPromises
<1>11. CASE \E newScope \in Scopes, at \in 0 .. MaxTime : CaptureAdmitted(newScope, at)
  <2>1. PICK newScope \in Scopes, at \in 0 .. MaxTime : CaptureAdmitted(newScope, at)
    BY <1>11
  <2>2. at \in {Committed(buffer).boundary, now} /\ Flushed(buffer, at)
    BY <2>1 DEF CaptureAdmitted
  <2>3. Seen(buffer)
    BY BufferSeen
  <2>4. Promises
    BY <2>2, <2>3, FlushedPromises
  <2> QED BY <2>1, <2>4, CaptureInv
<1>12. CASE Reconciled
  BY <1>12, ReconciledInv, ReconciledPromises
<1>13. CASE Unavailable
  <2>1. executed' = executed /\ recoveredAt' = [recoveredAt EXCEPT ![Head(requests).market] = 0]
    BY <1>13 DEF Unavailable, history
  <2>2. recoveredAt \in [Markets -> Nat]
    BY DEF FeedInv, FeedTypeOK
  <2>3. \A m \in Markets : recoveredAt'[m] = recoveredAt[m] \/ recoveredAt'[m] = 0
    BY <2>1, <2>2
  <2> QED BY <1>13, <2>1, <2>3, UnavailableInv, KeptPromises
<1>14. CASE WorkerFailed
  <2>1. executed' = executed /\ recoveredAt' = recoveredAt
    BY <1>14 DEF WorkerFailed, router, history
  <2> QED BY <1>14, <2>1, WorkerFailedInv, KeptPromises
<1>15. CASE UNCHANGED vars
  <2>1. /\ UNCHANGED <<now, conn, retries, generation, pending, lastBook, out>>
        /\ UNCHANGED <<scope, active, epoch, restart, observed, connected>>
        /\ UNCHANGED <<buffer, boundary, failed, gap, recoveredAt, deferred, books>>
        /\ UNCHANGED <<worker, requests, lastGeneration, delivered, executed, recoveredIn>>
    BY <1>15 DEF vars, client, live, router, recovery, history
  <2>2. FeedTypeOK' /\ HistoryOK' /\ EpochInv'
    BY <2>1 DEF FeedInv, FeedTypeOK, HistoryOK, EpochInv
  <2>3. Asked(out)' = Asked(out) /\ Snapshots(out)' = Snapshots(out)
    BY <2>1 DEF Asked, Snapshots
  <2>4. TimeInv' /\ RouterInv'
    BY <2>1, <2>3 DEF FeedInv, TimeInv, RouterInv, Fresh
  <2>5. FenceInv'
    BY <2>1 DEF FeedInv, FenceInv, Fenced
  <2> QED BY <2>1, <2>2, <2>4, <2>5, KeptPromises DEF FeedInv
<1> QED BY <1>1, <1>2, <1>3, <1>4, <1>5, <1>6, <1>7, <1>8, <1>9, <1>10, <1>11, <1>12,
           <1>13, <1>14, <1>15 DEF Next, ClientNext, AuthorityNext

(* The inductive invariant of the live path: the types, the epochs, the clocks, *)
(* the router's evidence and the fence, for every number of markets, channel    *)
(* and batch capacity, every latency, retry count and every bound of the model. *)
THEOREM FeedInvariant == Spec => []FeedInv
<1>1. FeedInv /\ [Next]_vars => FeedInv'
  BY NextFacts
<1> QED BY <1>1, InitInv, PTL DEF Spec

(* The types of the client, the authority and the router. *)
THEOREM FeedTyped == Spec => []FeedTypeOK
<1>1. FeedInv => FeedTypeOK
  BY DEF FeedInv
<1> QED BY <1>1, FeedInvariant, PTL

(* A market whose client has a gap pending is fenced, or that gap is still in *)
(* the channel: no answer to an older request, of this epoch or of an earlier *)
(* one, opens the fence behind a gap the router knows of.                     *)
THEOREM PendingFenced == Spec => []PendingGapsAreFenced
<1>1. ASSUME FeedInv PROVE PendingGapsAreFenced
  <2> SUFFICES ASSUME NEW m \in Markets, pending[m] > 0, recoveredAt[m] > 0,
                      \A i \in DOMAIN out : ~ (out[i].kind = "gap" /\ out[i].market = m)
               PROVE  FALSE
    BY DEF PendingGapsAreFenced
  <2>1. out \in Seq(Items) /\ pending[m] \in Nat
    BY <1>1 DEF FeedInv, FeedTypeOK
  <2>2. Len(out) \in Nat /\ DOMAIN out = 1 .. Len(out)
    BY <2>1
  <2>3. Len(out) + 1 \in Asking(out, pending[m], m)
    BY <2>2 DEF Asking
  <2>4. \A j \in 1 .. (Len(out) + 1) - 1 : ~ GapIn(out, j, m)
    BY <2>2 DEF GapIn
  <2>5. Unfenced(out, pending[m], m)
    BY <2>3, <2>4 DEF Unfenced
  <2>6. recoveredAt[m] = 0
    BY <1>1, <2>5 DEF FeedInv, FenceInv, Fenced
  <2> QED BY <2>6
<1> QED BY <1>1, FeedInvariant, PTL

(* complete_recovery closes a gap with the answer to the request of that very *)
(* gap, sent in the epoch the gap is of.                                      *)
THEOREM GapsClose == Spec => GapsCloseOnTheirOwnEvidence
<1>1. FeedInv /\ [Next]_vars =>
        [\A m \in Markets :
           recoveredAt[m] = 0 /\ recoveredAt'[m] > 0 =>
             /\ gap[m] # NoGap /\ gap'[m] = NoGap
             /\ recoveredIn'[m] = gap[m].epoch]_vars
  BY NextFacts DEF Promises, ClosesOnEvidence
<1> QED BY <1>1, FeedInvariant, PTL DEF Spec, GapsCloseOnTheirOwnEvidence

(* route_book executes a book only in a market without a known gap, past the *)
(* recovered boundary and later than every book executed there before.       *)
THEOREM ExecutionFenced == Spec => ExecutionIsFencedAndOrdered
<1>1. FeedInv /\ [Next]_vars =>
        [\A m \in Markets : executed'[m] # executed[m] =>
           /\ gap'[m] = NoGap /\ recoveredAt'[m] > 0
           /\ executed'[m].at > recoveredAt'[m]
           /\ executed'[m].at > executed[m].at]_vars
  BY NextFacts DEF Promises, ExecutesInOrder
<1> QED BY <1>1, FeedInvariant, PTL DEF Spec, ExecutionIsFencedAndOrdered
=============================================================================
