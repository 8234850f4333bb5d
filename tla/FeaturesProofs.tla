--------------------------- MODULE FeaturesProofs ---------------------------
(***************************************************************************)
(* Proofs that a decision reads exactly what was there at its boundary or  *)
(* learns that it is unavailable, for all markets, facts, digests, limits  *)
(* and lengths.                                                            *)
(*                                                                         *)
(* Every memory of the engine is bounded, so the invariant says what an    *)
(* absence means.  A fact accepted and no longer held left a full history  *)
(* of later ones behind (Lost).  A trade that no bucket of a window counts *)
(* lies before all its buckets, at or before the last one pruned (Counts). *)
(* A sample is kept at the latest of the facts of its boundary             *)
(* (SamplesOf), also when they come after the boundary.                    *)
(***************************************************************************)
EXTENDS FeaturesProperties, FiniteSetTheorems, WellFoundedInduction, TLAPS

----------------------------------------------------------------------------
(* Finite sets in order                                                    *)

\* The natural numbers are well ordered by the relation of <.
LEMMA NatsWellFounded ==
  \E R : /\ IsWellFoundedOn(R, Nat)
         /\ \A x, y \in Nat : <<y, x>> \in R <=> y < x
<1>1. \A x, y \in Nat : <<y, x>> \in OpToRel(<, Nat) <=> y < x
  BY DEF OpToRel
<1> QED
  BY <1>1, NatLessThanWellFounded

\* Induction over the natural numbers, for a set of them.
LEMMA SetInduction ==
  ASSUME NEW P \in SUBSET Nat, 0 \in P, \A n \in P : n + 1 \in P
  PROVE  P = Nat
<1> SUFFICES ASSUME Nat \ P # {}
             PROVE  FALSE
  OBVIOUS
<1> DEFINE T == Nat \ P
<1>1. PICK R : /\ IsWellFoundedOn(R, Nat)
               /\ \A x, y \in Nat : <<y, x>> \in R <=> y < x
  BY NatsWellFounded
<1>2. T \subseteq Nat /\ T # {}
  OBVIOUS
<1>3. IsWellFoundedOn(R, Nat)
  BY <1>1
<1> HIDE DEF T
<1>4. \E x \in T : \A y \in T : ~ (<<y, x>> \in R)
  BY <1>2, <1>3, WFMin
<1>5. PICK x \in T : \A y \in T : ~ (<<y, x>> \in R)
  BY <1>4
<1>6. x \in Nat \ {0} /\ x \notin P
  BY DEF T
<1>7. x - 1 \in Nat /\ x - 1 < x /\ x = (x - 1) + 1
  BY <1>6
<1>8. x - 1 \notin P
  BY <1>6, <1>7
<1>9. x - 1 \in T
  BY <1>7, <1>8 DEF T
<1> QED
  BY <1>1, <1>5, <1>6, <1>7, <1>9

\* R is a strict total order of the members of S.
Orders(R, S) ==
  /\ \A x \in S : <<x, x>> \notin R
  /\ \A x, y, z \in S : <<x, y>> \in R /\ <<y, z>> \in R => <<x, z>> \in R
  /\ \A x, y \in S : x # y => <<x, y>> \in R \/ <<y, x>> \in R

\* A finite set in order has a first member.
LEMMA FirstExists ==
  ASSUME NEW R, NEW S, IsFiniteSet(S), S # {}, Orders(R, S)
  PROVE  \E x \in S : \A y \in S \ {x} : <<x, y>> \in R
<1> DEFINE Has(T) == \E x \in T : \A y \in T \ {x} : <<x, y>> \in R
           Good(T) == IsFiniteSet(T) /\ T # {} /\ Orders(R, T) => Has(T)
           P == {n \in Nat : \A T : Cardinality(T) = n => Good(T)}
<1>1. 0 \in P
  BY FS_EmptySet
<1>2. ASSUME NEW n \in P
      PROVE  n + 1 \in P
  <2>1. n \in Nat /\ n + 1 \in Nat
    OBVIOUS
  <2>2. ASSUME NEW T, IsFiniteSet(T), Cardinality(T) = n + 1, T # {}, Orders(R, T)
        PROVE  Has(T)
    <3>1. PICK z : z \in T
      BY <2>2
    <3> DEFINE U == T \ {z}
    <3>2. IsFiniteSet(U) /\ Cardinality(U) = n /\ Orders(R, U)
      <4>1. IsFiniteSet(U) /\ Cardinality(U) = Cardinality(T) - 1
        BY <2>2, <3>1, FS_RemoveElement
      <4>2. Orders(R, U)
        BY <2>2 DEF Orders
      <4> QED
        BY <2>1, <2>2, <4>1, <4>2
    <3>3. CASE U = {}
      BY <3>1, <3>3
    <3>4. CASE U # {}
      <4>1. Has(U)
        <5>1. Good(U)
          <6> HIDE DEF U, Good
          <6> QED
            BY <3>2
        <5> HIDE DEF U, Has
        <5> QED
          BY <3>2, <3>4, <5>1
      <4>2. PICK x \in U : \A y \in U \ {x} : <<x, y>> \in R
        BY <4>1
      <4>3. CASE <<x, z>> \in R
        BY <4>2, <4>3
      <4>4. CASE <<x, z>> \notin R
        <5>1. <<z, x>> \in R /\ x \in T /\ z \in T
          BY <2>2, <3>1, <4>2, <4>4 DEF Orders
        <5>2. \A y \in T \ {z} : y # x => <<z, y>> \in R
          BY <2>2, <4>2, <5>1 DEF Orders
        <5> QED
          BY <5>1, <5>2
      <4> QED
        BY <4>3, <4>4
    <3> QED
      BY <3>3, <3>4
  <2> HIDE DEF Has
  <2> QED
    BY <2>1, <2>2
<1>3. P = Nat
  <2>1. P \in SUBSET Nat
    OBVIOUS
  <2> HIDE DEF P
  <2> QED
    BY <1>1, <1>2, <2>1, SetInduction
<1>4. Cardinality(S) \in Nat
  BY FS_CardinalityType
<1>5. Has(S)
  <2>1. Cardinality(S) \in P
    BY <1>3, <1>4
  <2>2. Good(S)
    <3> HIDE DEF Good
    <3> QED
      BY <2>1
  <2> HIDE DEF Has
  <2> QED
    BY <2>2
<1> QED
  BY <1>5

\* So has it a last one.
LEMMA LastExists ==
  ASSUME NEW R, NEW S, IsFiniteSet(S), S # {}, Orders(R, S)
  PROVE  \E x \in S : \A y \in S \ {x} : <<y, x>> \in R
<1> DEFINE C == {p \in S \X S : <<p[2], p[1]>> \in R}
<1>1. \A x, y \in S : <<x, y>> \in C <=> <<y, x>> \in R
  OBVIOUS
<1>2. Orders(C, S)
  <2> HIDE DEF C
  <2> QED
    BY <1>1 DEF Orders
<1> HIDE DEF C
<1>3. PICK x \in S : \A y \in S \ {x} : <<x, y>> \in C
  BY <1>2, FirstExists
<1> QED
  BY <1>1, <1>3

\* No more than N members have fewer than N behind them.
LEMMA AtMost ==
  ASSUME NEW R, NEW S, IsFiniteSet(S), Orders(R, S), NEW N \in Nat
  PROVE  LET T == {x \in S : Cardinality({y \in S : <<x, y>> \in R}) < N}
         IN  IsFiniteSet(T) /\ Cardinality(T) <= N
<1> DEFINE After(x) == {y \in S : <<x, y>> \in R}
           T == {x \in S : Cardinality(After(x)) < N}
<1>1. IsFiniteSet(T) /\ Cardinality(T) \in Nat
  <2>1. T \in SUBSET S
    OBVIOUS
  <2> QED
    BY <2>1, FS_Subset, FS_CardinalityType
<1>2. ASSUME Cardinality(T) > N
      PROVE  FALSE
  <2>1. T # {} /\ Orders(R, T)
    BY <1>1, <1>2, FS_EmptySet DEF Orders
  <2>2. PICK x \in T : \A y \in T \ {x} : <<x, y>> \in R
    <3> HIDE DEF T
    <3> QED
      BY <1>1, <2>1, FirstExists
  <2>3. IsFiniteSet(T \ {x}) /\ Cardinality(T \ {x}) = Cardinality(T) - 1
    <3> HIDE DEF T
    <3> QED
      BY <1>1, <2>2, FS_RemoveElement
  <2>4. T \ {x} \subseteq After(x)
    BY <2>2
  <2>5. IsFiniteSet(After(x)) /\ Cardinality(After(x)) \in Nat
    <3>1. After(x) \in SUBSET S
      OBVIOUS
    <3> QED
      BY <3>1, FS_Subset, FS_CardinalityType
  <2>6. Cardinality(T \ {x}) <= Cardinality(After(x))
    <3> HIDE DEF T, After
    <3> QED
      BY <2>4, <2>5, FS_Subset
  <2>7. Cardinality(After(x)) < N
    BY <2>2
  <2> HIDE DEF T, After
  <2> QED
    BY <1>1, <1>2, <2>3, <2>5, <2>6, <2>7
<1>3. Cardinality(T) <= N
  BY <1>1, <1>2
<1> QED
  BY <1>1, <1>3

(* The members of E that g sends into s. *)
Fibres(g, E, s) == {e \in E : g[e] \in s}

\* The equation of a sum over the subsets of S.
Sums(f, c, S) ==
  f = [s \in SUBSET S |->
         IF s = {} THEN 0
         ELSE c[CHOOSE x \in s : TRUE] + f[s \ {CHOOSE x \in s : TRUE}]]

(* The sum that MapThenSumSet takes. *)
Total(c, S) == (CHOOSE f : Sums(f, c, S))[S]

\* One member more.
LEMMA FibresStep ==
  ASSUME NEW g, NEW E, IsFiniteSet(E), NEW s, NEW x \in s
  PROVE  /\ Cardinality(Fibres(g, E, s)) \in Nat
         /\ Cardinality(Fibres(g, E, s)) =
              Cardinality({e \in E : g[e] = x}) + Cardinality(Fibres(g, E, s \ {x}))
<1> DEFINE A == {e \in E : g[e] = x}
           B == Fibres(g, E, s \ {x})
<1>1. A \in SUBSET E /\ B \in SUBSET E /\ A \cap B = {} /\ Fibres(g, E, s) = A \cup B
  BY DEF Fibres
<1>2. IsFiniteSet(A) /\ IsFiniteSet(B)
  BY <1>1, FS_Subset
<1>3. Cardinality(A) \in Nat /\ Cardinality(B) \in Nat /\ Cardinality(A \cap B) = 0
  BY <1>1, <1>2, FS_CardinalityType, FS_EmptySet
<1> HIDE DEF A, B
<1>4. Cardinality(A \cup B) = Cardinality(A) + Cardinality(B) - Cardinality(A \cap B)
  BY <1>2, FS_Union
<1>5. Cardinality(A \cup B) = Cardinality(A) + Cardinality(B)
  BY <1>3, <1>4
<1>6. /\ Cardinality(Fibres(g, E, s)) \in Nat
      /\ Cardinality(Fibres(g, E, s)) = Cardinality(A) + Cardinality(B)
  BY <1>1, <1>3, <1>5
<1> QED
  BY <1>6 DEF A, B

\* A sum of sizes of fibres counts what they have together.
LEMMA SumCounts ==
  ASSUME NEW S, IsFiniteSet(S), NEW c, NEW g, NEW E, IsFiniteSet(E),
         \A k \in S : c[k] = Cardinality({e \in E : g[e] = k})
  PROVE  Total(c, S) = Cardinality(Fibres(g, E, S))
<1> DEFINE f == CHOOSE f : Sums(f, c, S)
           F == [s \in SUBSET S |-> Cardinality(Fibres(g, E, s))]
<1>1. Total(c, S) = f[S]
  BY DEF Total
<1>2. Sums(F, c, S)
  <2>1. ASSUME NEW s \in SUBSET S
        PROVE  F[s] = IF s = {} THEN 0
                      ELSE c[CHOOSE x \in s : TRUE] + F[s \ {CHOOSE x \in s : TRUE}]
    <3>1. CASE s = {}
      <4>1. Fibres(g, E, s) = {}
        BY <3>1 DEF Fibres
      <4> QED
        BY <3>1, <4>1, FS_EmptySet
    <3>2. CASE s # {}
      <4> DEFINE x == CHOOSE x \in s : TRUE
      <4>1. x \in s
        BY <3>2
      <4> HIDE DEF x
      <4>2. F[s] = Cardinality(Fibres(g, E, s))
            /\ F[s \ {x}] = Cardinality(Fibres(g, E, s \ {x}))
        OBVIOUS
      <4>3. c[x] = Cardinality({e \in E : g[e] = x})
        BY <4>1
      <4>4. F[s] = c[x] + F[s \ {x}]
        BY <4>1, <4>2, <4>3, FibresStep
      <4> QED
        BY <3>2, <4>4 DEF x
    <3> QED
      BY <3>1, <3>2
  <2> QED
    BY <2>1 DEF Sums
<1>3. Sums(f, c, S)
  <2> HIDE DEF F
  <2> QED
    BY <1>2
<1> HIDE DEF f
<1> DEFINE Good(s) == f[s] = Cardinality(Fibres(g, E, s))
           P == {n \in Nat : \A s \in SUBSET S : Cardinality(s) = n => Good(s)}
<1>4. 0 \in P
  <2>1. ASSUME NEW s \in SUBSET S, Cardinality(s) = 0
        PROVE  Good(s)
    <3>1. s = {}
      BY <2>1, FS_Subset, FS_EmptySet
    <3>2. Fibres(g, E, s) = {} /\ f[s] = 0
      BY <1>3, <3>1 DEF Sums, Fibres
    <3> QED
      BY <3>2, FS_EmptySet
  <2> QED
    BY <2>1
<1>5. ASSUME NEW n \in P
      PROVE  n + 1 \in P
  <2>1. n \in Nat /\ n + 1 \in Nat
    OBVIOUS
  <2>2. ASSUME NEW s \in SUBSET S, Cardinality(s) = n + 1
        PROVE  Good(s)
    <3>1. IsFiniteSet(s) /\ s # {}
      BY <2>1, <2>2, FS_Subset, FS_EmptySet
    <3> DEFINE x == CHOOSE x \in s : TRUE
    <3>2. x \in s
      BY <3>1
    <3>3. f[s] = c[x] + f[s \ {x}]
      BY <1>3, <3>1 DEF Sums
    <3> HIDE DEF x
    <3>4. Cardinality(s \ {x}) = n /\ s \ {x} \in SUBSET S
      <4>1. Cardinality(s \ {x}) = Cardinality(s) - 1
        BY <3>1, <3>2, FS_RemoveElement
      <4>2. Cardinality(s \ {x}) = n
        BY <2>1, <2>2, <4>1
      <4> QED
        BY <4>2
    <3>5. Good(s \ {x})
      <4> HIDE DEF Good
      <4> QED
        BY <3>4
    <3>6. c[x] = Cardinality({e \in E : g[e] = x})
      BY <3>2
    <3> QED
      BY <3>2, <3>3, <3>5, <3>6, FibresStep
  <2> HIDE DEF Good
  <2> QED
    BY <2>1, <2>2
<1>6. P = Nat
  <2>1. P \in SUBSET Nat
    OBVIOUS
  <2> HIDE DEF P
  <2> QED
    BY <1>4, <1>5, <2>1, SetInduction
<1>7. Good(S)
  <2>1. Cardinality(S) \in P /\ S \in SUBSET S
    BY <1>6, FS_CardinalityType
  <2> HIDE DEF Good
  <2> QED
    BY <2>1
<1> QED
  BY <1>1, <1>7

----------------------------------------------------------------------------
(* The order of facts                                                      *)

\* The fields of a fact.
LEMMA EventFields ==
  ASSUME NEW e \in Event
  PROVE  /\ e.kind \in Kinds /\ e.market \in Markets
         /\ e.time \in Times /\ e.time \in Nat
         /\ e.received \in Receipts /\ e.received \in Nat
         /\ e.id \in EventIds(e.kind)
         /\ Digest(Identity(e)) \in Nat
<1>1. PICK k \in Kinds : e \in [kind : {k}, market : Markets, id : EventIds(k),
                                time : Times, received : Receipts]
  BY DEF Event
<1>2. /\ e.kind = k /\ e.market \in Markets /\ e.time \in Times
      /\ e.received \in Receipts /\ e.id \in EventIds(k)
  BY <1>1
<1>3. Times \subseteq Nat /\ Receipts \subseteq Nat
  BY FeaturesAssumption
<1> QED
  BY <1>2, <1>3, DigestAssumption

(* No two facts have the same identity. *)
Distinct(S) == \A e, f \in S : Identity(e) = Identity(f) => e = f

\* It is a strict order, total among facts of different identities.
LEMMA BeforeIrreflexive ==
  ASSUME NEW e \in Event
  PROVE  ~Before(e, e)
BY EventFields DEF Before

LEMMA BeforeTransitive ==
  ASSUME NEW e \in Event, NEW f \in Event, NEW g \in Event, Before(e, f), Before(f, g)
  PROVE  Before(e, g)
<1> DEFINE D(x) == Digest(Identity(x))
<1>1. /\ D(e) \in Nat /\ D(f) \in Nat /\ D(g) \in Nat
      /\ e.time \in Nat /\ f.time \in Nat /\ g.time \in Nat
      /\ e.received \in Nat /\ f.received \in Nat /\ g.received \in Nat
  BY EventFields
<1>2. \A x, y : Before(x, y) <=> \/ x.time < y.time
                                 \/ x.time = y.time /\ x.received < y.received
                                 \/ /\ x.time = y.time /\ x.received = y.received
                                    /\ D(x) < D(y)
  BY DEF Before
<1> HIDE DEF D
<1> QED
  BY <1>1, <1>2

LEMMA BeforeTotal ==
  ASSUME NEW e \in Event, NEW f \in Event, Identity(e) # Identity(f)
  PROVE  Before(e, f) \/ Before(f, e)
<1> DEFINE D(x) == Digest(Identity(x))
<1>1. /\ D(e) \in Nat /\ D(f) \in Nat /\ D(e) # D(f)
      /\ e.time \in Nat /\ f.time \in Nat
      /\ e.received \in Nat /\ f.received \in Nat
  BY EventFields, DigestAssumption
<1>2. \A x, y : Before(x, y) <=> \/ x.time < y.time
                                 \/ x.time = y.time /\ x.received < y.received
                                 \/ /\ x.time = y.time /\ x.received = y.received
                                    /\ D(x) < D(y)
  BY DEF Before
<1> HIDE DEF D
<1> QED
  BY <1>1, <1>2

EventOrder(S) == {p \in S \X S : Before(p[1], p[2])}

LEMMA EventsOrdered ==
  ASSUME NEW S, S \subseteq Event, Distinct(S)
  PROVE  /\ Orders(EventOrder(S), S)
         /\ \A x, y \in S : <<x, y>> \in EventOrder(S) <=> Before(x, y)
<1>1. \A x, y \in S : <<x, y>> \in EventOrder(S) <=> Before(x, y)
  BY DEF EventOrder
<1>2. \A x \in S : ~Before(x, x)
  BY BeforeIrreflexive
<1>3. \A x, y, z \in S : Before(x, y) /\ Before(y, z) => Before(x, z)
  BY BeforeTransitive
<1>4. \A x, y \in S : x # y => Before(x, y) \/ Before(y, x)
  BY BeforeTotal DEF Distinct
<1> QED
  BY <1>1, <1>2, <1>3, <1>4 DEF Orders

\* The first and the last of some facts.
LEMMA FirstFact ==
  ASSUME NEW S, S \subseteq Event, Distinct(S), IsFiniteSet(S), S # {}
  PROVE  \E x \in S : \A y \in S \ {x} : Before(x, y)
<1>1. /\ Orders(EventOrder(S), S)
      /\ \A x, y \in S : <<x, y>> \in EventOrder(S) <=> Before(x, y)
  BY EventsOrdered
<1>2. PICK x \in S : \A y \in S \ {x} : <<x, y>> \in EventOrder(S)
  BY <1>1, FirstExists
<1> QED
  BY <1>1, <1>2

LEMMA LastFact ==
  ASSUME NEW S, S \subseteq Event, Distinct(S), IsFiniteSet(S), S # {}
  PROVE  \E x \in S : \A y \in S \ {x} : Before(y, x)
<1>1. /\ Orders(EventOrder(S), S)
      /\ \A x, y \in S : <<x, y>> \in EventOrder(S) <=> Before(x, y)
  BY EventsOrdered
<1>2. PICK x \in S : \A y \in S \ {x} : <<y, x>> \in EventOrder(S)
  BY <1>1, LastExists
<1> QED
  BY <1>1, <1>2

\* The newest facts are no more than the horizon keeps.
LEMMA NewestBounded ==
  ASSUME NEW S, S \subseteq Event, Distinct(S), IsFiniteSet(S)
  PROVE  Newest(S) \subseteq S /\ Cardinality(Newest(S)) <= EventHorizon
<1>1. /\ Orders(EventOrder(S), S)
      /\ \A x, y \in S : <<x, y>> \in EventOrder(S) <=> Before(x, y)
  BY EventsOrdered
<1>2. Newest(S) = {x \in S : Cardinality({y \in S : <<x, y>> \in EventOrder(S)})
                               < EventHorizon}
  <2>1. \A x \in S : {y \in S : <<x, y>> \in EventOrder(S)} = {y \in S : Before(x, y)}
    BY <1>1
  <2> QED
    BY <2>1 DEF Newest
<1>3. EventHorizon \in Nat
  BY FeaturesAssumption
<1> QED
  BY <1>1, <1>2, <1>3, AtMost

\* There is at most one latest fact, and it is behind all others.
LEMMA LatestIsOne ==
  ASSUME NEW S, S \subseteq Event, Distinct(S), NEW x \in Latest(S, Before)
  PROVE  Latest(S, Before) = {x} /\ x \in S /\ \A y \in S \ {x} : Before(y, x)
<1>1. x \in S /\ \A y \in S \ {x} : Before(y, x)
  BY DEF Latest
<1>2. ASSUME NEW y \in Latest(S, Before), y # x
      PROVE  FALSE
  <2>1. y \in S /\ Before(x, y) /\ Before(y, x)
    BY <1>1, <1>2 DEF Latest
  <2> QED
    BY <1>1, <2>1, BeforeTransitive, BeforeIrreflexive
<1> QED
  BY <1>1, <1>2

\* Some facts, finitely many, have a latest one.
LEMMA LatestExists ==
  ASSUME NEW S, S \subseteq Event, Distinct(S), IsFiniteSet(S), S # {}
  PROVE  Latest(S, Before) # {}
BY LastFact DEF Latest

----------------------------------------------------------------------------
(* The histories                                                           *)

\* What a fact that was pruned leaves: a full history of later facts.
Lost(e) ==
  /\ Cardinality(History(e.market, e.kind)) = EventLimit[e.kind]
  /\ \A f \in History(e.market, e.kind) : Before(e, f)

HistoryInv ==
  /\ accepted \subseteq Event /\ IsFiniteSet(accepted) /\ Distinct(accepted)
  /\ seen_events \subseteq accepted /\ finalized_events \subseteq accepted
  /\ \A m \in Markets, k \in Kinds : Cardinality(History(m, k)) <= EventLimit[k]
  /\ Cardinality(finalized_events) <= EventHorizon
  /\ \A e \in accepted \ seen_events : Lost(e)

PointInv ==
  /\ available_from \in [Markets \X Points -> Receipts \cup {None}]
  /\ \A e \in accepted \ seen_events :
       e.kind \in Points =>
         /\ available_from[<<e.market, e.kind>>] # None
         /\ available_from[<<e.market, e.kind>>] <= e.received

\* A part of the accepted facts is finite, and its facts are in order.
LEMMA PartOfAccepted ==
  ASSUME HistoryInv, NEW S, S \subseteq accepted
  PROVE  S \subseteq Event /\ Distinct(S) /\ IsFiniteSet(S) /\ Cardinality(S) \in Nat
<1>1. S \subseteq Event /\ Distinct(S)
  BY DEF HistoryInv, Distinct
<1>2. IsFiniteSet(S)
  BY FS_Subset DEF HistoryInv
<1> QED
  BY <1>1, <1>2, FS_CardinalityType

LEMMA HistoryPart ==
  ASSUME HistoryInv, NEW m, NEW k
  PROVE  History(m, k) \subseteq accepted /\ History(m, k) \subseteq seen_events
BY DEF HistoryInv, History

\* The limits are those of the history a fact is kept in.
LEMMA Limits ==
  /\ \A k \in Kinds : EventLimit[k] \in Nat \ {0}
  /\ \A j, k \in Kinds : Source(j) = Source(k) => EventLimit[j] = EventLimit[k]
BY FeaturesAssumption

\* A pruned fact is refused for good.
LEMMA LostIsRefused ==
  ASSUME HistoryInv, NEW e \in accepted, Lost(e)
  PROVE  ~Accepts(e)
<1> DEFINE H == History(e.market, e.kind)
<1>1. e \in Event /\ H \subseteq Event
  BY HistoryPart, PartOfAccepted DEF HistoryInv
<1>2. EventLimit[e.kind] \in Nat /\ Cardinality(H) = EventLimit[e.kind]
  BY <1>1, EventFields, Limits DEF Lost
<1>3. ASSUME NEW first \in Oldest(H)
      PROVE  ~Before(first, e)
  <2>1. first \in H /\ Before(e, first)
    BY DEF Oldest, Lost
  <2> QED
    BY <1>1, <2>1, BeforeTransitive, BeforeIrreflexive
<1> QED
  BY <1>2, <1>3 DEF Accepts

\* What observe takes in is new, and so is its identity.
LEMMA ObservedIsNew ==
  ASSUME HistoryInv, NEW e \in Event, Observe(e)
  PROVE  /\ e \notin accepted /\ Distinct(accepted \cup {e})
         /\ Accepts(e) /\ accepted' = accepted \cup {e}
<1>1. /\ ~Known(e) /\ Accepts(e) /\ accepted' = accepted \cup {e}
      /\ \A f \in accepted : Identity(f) = Identity(e) => f = e
  BY DEF Observe, Admissible, Offered
<1>2. e \notin accepted
  <2>1. e \notin seen_events
    BY <1>1 DEF Known
  <2> QED
    BY <1>1, <2>1, LostIsRefused DEF HistoryInv
<1>3. Distinct(accepted \cup {e})
  BY <1>1 DEF HistoryInv, Distinct
<1> QED
  BY <1>1, <1>2, <1>3

(* The history a fact belongs to. *)
Class(e) == History(e.market, e.kind)

\* What the history of a fact gives up for it.
LEMMA PrunedFacts ==
  ASSUME HistoryInv, NEW e \in Event, e \notin accepted, Accepts(e),
         Distinct(accepted \cup {e})
  PROVE  \/ /\ Pruned(e) = {}
            /\ Cardinality(Class(e)) < EventLimit[e.kind]
            /\ Cardinality(Class(e) \cup {e}) <= EventLimit[e.kind]
         \/ \E p \in Class(e) :
              /\ Pruned(e) = {p}
              /\ Cardinality(Class(e)) = EventLimit[e.kind]
              /\ \A f \in (Class(e) \cup {e}) \ {p} : Before(p, f)
              /\ Cardinality((Class(e) \cup {e}) \ {p}) = EventLimit[e.kind]
<1> DEFINE L == EventLimit[e.kind]
           H == Class(e)
           G == H \cup {e}
<1>1. /\ L \in Nat \ {0} /\ e.market \in Markets /\ e.kind \in Kinds
  BY EventFields, Limits
<1>2. /\ H \subseteq accepted /\ H \subseteq Event /\ IsFiniteSet(H)
      /\ Cardinality(H) \in Nat /\ Cardinality(H) <= L /\ e \notin H
  BY <1>1, HistoryPart, PartOfAccepted DEF HistoryInv, Class
<1>3. /\ IsFiniteSet(G) /\ Cardinality(G) = Cardinality(H) + 1
      /\ G \subseteq Event /\ Distinct(G)
  BY <1>2, FS_AddElement DEF Distinct
<1>4. Pruned(e) = IF Cardinality(G) > L THEN Oldest(G) ELSE {}
  BY DEF Pruned, Class
<1> HIDE DEF G, H, L
<1>5. CASE Cardinality(H) < L
  <2>1. ~(Cardinality(G) > L) /\ Cardinality(G) <= L
    BY <1>1, <1>2, <1>3, <1>5
  <2> QED
    BY <1>4, <1>5, <2>1 DEF G, H, L
<1>6. CASE Cardinality(H) = L
  <2>1. PICK first \in Oldest(H) : Before(first, e)
    BY <1>1, <1>6 DEF Accepts, L, H, Class
  <2>2. PICK p \in G : \A f \in G \ {p} : Before(p, f)
    BY <1>3, FirstFact DEF G
  <2>3. p \in H
    <3> SUFFICES ASSUME p = e
                 PROVE  FALSE
      BY <2>2 DEF G
    <3>1. first \in H /\ first \in G /\ first # p
      BY <1>2, <2>1 DEF Oldest, G
    <3>2. Before(p, first) /\ Before(first, p)
      BY <2>1, <2>2, <3>1
    <3> QED
      BY <1>2, <3>1, <3>2, BeforeTransitive, BeforeIrreflexive
  <2>4. Oldest(G) = {p}
    <3>1. p \in Oldest(G)
      BY <2>2 DEF Oldest
    <3>2. ASSUME NEW q \in Oldest(G), q # p
          PROVE  FALSE
      <4>1. q \in G /\ Before(q, p) /\ Before(p, q)
        BY <2>2, <3>2 DEF Oldest
      <4> QED
        BY <1>3, <2>2, <4>1, BeforeTransitive, BeforeIrreflexive
    <3> QED
      BY <3>1, <3>2
  <2>5. Pruned(e) = {p}
    BY <1>1, <1>2, <1>3, <1>4, <1>6, <2>4
  <2>6. Cardinality(G \ {p}) = Cardinality(G) - 1
    BY <1>3, <2>2, FS_RemoveElement
  <2>7. Cardinality(G \ {p}) = L
    BY <1>2, <1>3, <1>6, <2>6
  <2> QED
    BY <1>6, <2>2, <2>3, <2>5, <2>7 DEF G, H, L
<1> QED
  BY <1>1, <1>2, <1>5, <1>6

\* The histories after a fact.
LEMMA HistoryAfter ==
  ASSUME HistoryInv, NEW e \in Event, Observe(e), NEW m, NEW k
  PROVE  History(m, k)' =
           IF m = e.market /\ Source(k) = Source(e.kind)
           THEN (Class(e) \cup {e}) \ Pruned(e)
           ELSE History(m, k)
<1>1. /\ e \notin accepted /\ Accepts(e) /\ Distinct(accepted \cup {e})
  BY ObservedIsNew
<1>2. Pruned(e) \subseteq Class(e)
  <2>1. Pruned(e) = {} \/ \E p \in Class(e) : Pruned(e) = {p}
    BY <1>1, PrunedFacts, Zenon
  <2> QED
    BY <2>1
<1>3. seen_events' = (seen_events \cup {e}) \ Pruned(e)
  BY DEF Observe
<1>4. \A p \in Pruned(e) : p.market = e.market /\ Source(p.kind) = Source(e.kind)
  BY <1>2 DEF History, Class
<1>5. History(m, k)' = {f \in seen_events' : f.market = m /\ Source(f.kind) = Source(k)}
  BY DEF History
<1> QED
  BY <1>3, <1>4, <1>5 DEF History, Class

\* A fact keeps the histories, whatever it makes room for.
LEMMA ObserveKeepsHistories ==
  ASSUME HistoryInv, NEW e \in Event, Observe(e)
  PROVE  HistoryInv'
<1> DEFINE H == Class(e)
           L == EventLimit[e.kind]
           P == Pruned(e)
<1>1. /\ e \notin accepted /\ Accepts(e) /\ Distinct(accepted \cup {e})
      /\ accepted' = accepted \cup {e}
  BY ObservedIsNew
<1>2. /\ seen_events' = (seen_events \cup {e}) \ P
      /\ finalized_events' = Newest(finalized_events \cup P)
  BY DEF Observe
<1>3. \/ /\ P = {} /\ Cardinality(H) < L /\ Cardinality(H \cup {e}) <= L
      \/ \E p \in H : /\ P = {p} /\ Cardinality(H) = L
                      /\ \A f \in (H \cup {e}) \ {p} : Before(p, f)
                      /\ Cardinality((H \cup {e}) \ {p}) = L
  BY <1>1, PrunedFacts
<1>4. \A m, k : History(m, k)' =
           IF m = e.market /\ Source(k) = Source(e.kind)
           THEN (H \cup {e}) \ P ELSE History(m, k)
  BY HistoryAfter
<1>5. /\ H \subseteq accepted /\ H \subseteq seen_events /\ H \subseteq Event
      /\ P \subseteq H /\ L \in Nat /\ e.kind \in Kinds
  <2>1. H \subseteq accepted /\ H \subseteq seen_events
    BY HistoryPart DEF Class
  <2>2. H \subseteq Event
    BY <2>1, PartOfAccepted
  <2>3. e.kind \in Kinds /\ L \in Nat
    BY EventFields, Limits
  <2> HIDE DEF H, L, P
  <2>4. P \subseteq H
    BY <1>3
  <2> QED
    BY <2>1, <2>2, <2>3, <2>4
<1> HIDE DEF H, L, P
<1>6. /\ accepted' \subseteq Event /\ IsFiniteSet(accepted') /\ Distinct(accepted')
  BY <1>1, FS_AddElement DEF HistoryInv
<1>7. seen_events' \subseteq accepted'
  BY <1>1, <1>2 DEF HistoryInv
<1>8. finalized_events' \subseteq accepted' /\ Cardinality(finalized_events') <= EventHorizon
  <2>1. finalized_events \cup P \subseteq accepted
    BY <1>5 DEF HistoryInv
  <2>2. /\ Newest(finalized_events \cup P) \subseteq finalized_events \cup P
        /\ Cardinality(Newest(finalized_events \cup P)) <= EventHorizon
    BY <2>1, PartOfAccepted, NewestBounded
  <2> QED
    BY <1>1, <1>2, <2>1, <2>2
<1>9. ASSUME NEW m \in Markets, NEW k \in Kinds
      PROVE  Cardinality(History(m, k)') <= EventLimit[k]
  <2>1. CASE m = e.market /\ Source(k) = Source(e.kind)
    <3>1. EventLimit[k] = L /\ History(m, k)' = (H \cup {e}) \ P
      BY <1>4, <1>5, <2>1, Limits DEF L
    <3>2. Cardinality((H \cup {e}) \ P) <= L
      <4>1. CASE P = {}
        <5>1. (H \cup {e}) \ P = H \cup {e}
          BY <4>1
        <5> QED
          BY <1>3, <4>1, <5>1
      <4>2. CASE P # {}
        <5>1. PICK p \in H : P = {p} /\ Cardinality((H \cup {e}) \ {p}) = L
          BY <1>3, <4>2
        <5> QED
          BY <1>5, <5>1
      <4> QED
        BY <4>1, <4>2
    <3> QED
      BY <3>1, <3>2
  <2>2. CASE ~(m = e.market /\ Source(k) = Source(e.kind))
    BY <1>4, <2>2 DEF HistoryInv
  <2> QED
    BY <2>1, <2>2
<1>10. ASSUME NEW x \in accepted' \ seen_events'
       PROVE  Lost(x)'
  <2>1. x \in P \/ x \in accepted \ seen_events
    BY <1>1, <1>2
  <2>2. CASE x.market = e.market /\ Source(x.kind) = Source(e.kind)
    <3>1. x \in Event /\ EventLimit[x.kind] = L
      BY <1>5, <1>6, <2>2, EventFields, Limits DEF L
    <3>2. History(x.market, x.kind)' = (H \cup {e}) \ P
      BY <1>4, <2>2
    <3>3. CASE x \in P
      <4>1. PICK p \in H : /\ P = {p}
                           /\ \A f \in (H \cup {e}) \ {p} : Before(p, f)
                           /\ Cardinality((H \cup {e}) \ {p}) = L
        BY <1>3, <3>3
      <4>2. x = p
        BY <3>3, <4>1
      <4> QED
        BY <3>1, <3>2, <4>1, <4>2 DEF Lost
    <3>4. CASE x \in accepted \ seen_events
      <4>1. Lost(x) /\ History(x.market, x.kind) = H
        BY <2>2, <3>4 DEF HistoryInv, History, H, Class
      <4>2. /\ Cardinality(H) = L /\ \A f \in H : Before(x, f)
        BY <3>1, <4>1 DEF Lost
      <4>3. PICK p \in H : /\ P = {p}
                           /\ \A f \in (H \cup {e}) \ {p} : Before(p, f)
                           /\ Cardinality((H \cup {e}) \ {p}) = L
        BY <1>3, <1>5, <4>2
      <4>4. Before(x, e)
        <5>1. e # p /\ p \in Event /\ Before(x, p) /\ Before(p, e)
          BY <1>1, <1>5, <4>2, <4>3
        <5> QED
          BY <3>1, <5>1, BeforeTransitive
      <4>5. \A f \in (H \cup {e}) \ P : Before(x, f)
        BY <4>2, <4>4
      <4> QED
        BY <3>1, <3>2, <4>3, <4>5 DEF Lost
    <3> QED
      BY <2>1, <3>3, <3>4
  <2>3. CASE ~(x.market = e.market /\ Source(x.kind) = Source(e.kind))
    <3>1. x \notin P
      BY <1>5, <2>3 DEF H, History, Class
    <3>2. Lost(x)
      BY <2>1, <3>1 DEF HistoryInv
    <3>3. History(x.market, x.kind)' = History(x.market, x.kind)
      BY <1>4, <2>3
    <3> QED
      BY <3>2, <3>3 DEF Lost
  <2> QED
    BY <2>2, <2>3
<1> QED
  BY <1>6, <1>7, <1>8, <1>9, <1>10 DEF HistoryInv

\* What is pruned is announced, from its receipt on.
LEMMA ObserveKeepsPoints ==
  ASSUME HistoryInv, PointInv, NEW e \in Event, Observe(e)
  PROVE  PointInv'
<1> DEFINE P == Pruned(e)
<1>1. /\ e \notin accepted /\ Accepts(e) /\ Distinct(accepted \cup {e})
      /\ accepted' = accepted \cup {e}
  BY ObservedIsNew
<1>2. P = {} \/ \E p \in Class(e) : P = {p}
  BY <1>1, PrunedFacts
<1>3. P \subseteq accepted /\ accepted \subseteq Event
  BY <1>2, HistoryPart DEF HistoryInv, Class
<1>4. /\ seen_events' = (seen_events \cup {e}) \ P
      /\ available_from' = AvailableFrom(P)
  BY DEF Observe
<1>5. DOMAIN available_from = Markets \X Points /\ None \notin Nat
      /\ Receipts \subseteq Nat
  BY FeaturesAssumption DEF PointInv, None
<1> HIDE DEF P
<1>6. CASE P = {}
  <2>1. available_from' = available_from
    <3>1. \A key : {x.received : x \in {x \in P : key = <<x.market, x.kind>>}} = {}
      BY <1>6
    <3>2. available_from' = [key \in DOMAIN available_from |-> available_from[key]]
      BY <1>4, <3>1 DEF AvailableFrom
    <3> QED
      BY <3>2 DEF PointInv
  <2>2. accepted' \ seen_events' = accepted \ seen_events
    BY <1>1, <1>4, <1>6 DEF HistoryInv
  <2> QED
    BY <2>1, <2>2 DEF PointInv
<1>7. ASSUME NEW p \in accepted, P = {p}
      PROVE  PointInv'
  <2> DEFINE k0 == <<p.market, p.kind>>
             old(key) == available_from[key]
             new(key) == IF key # k0 THEN old(key)
                         ELSE IF old(key) = None THEN p.received
                         ELSE Min2(old(key), p.received)
  <2>1. available_from' = [key \in Markets \X Points |-> new(key)]
    <3>1. ASSUME NEW key
          PROVE  {x.received : x \in {x \in P : key = <<x.market, x.kind>>}} =
                   IF key = k0 THEN {p.received} ELSE {}
      BY <1>7
    <3>2. (CHOOSE r \in {p.received} : TRUE) = p.received
      OBVIOUS
    <3> QED
      BY <1>4, <1>5, <3>1, <3>2 DEF AvailableFrom
  <2>2. p \in Event /\ p.received \in Receipts /\ p.received \in Nat
    BY <1>3, EventFields
  <2>3. ASSUME NEW key \in Markets \X Points
        PROVE  /\ new(key) \in Receipts \cup {None}
               /\ old(key) # None => new(key) # None /\ new(key) <= old(key)
               /\ key = k0 => new(key) # None /\ new(key) <= p.received
    <3>1. old(key) \in Receipts \cup {None}
      BY DEF PointInv
    <3>2. old(key) # None => old(key) \in Nat
      BY <1>5, <3>1
    <3>3. None \notin Nat /\ p.received # None
      BY <1>5, <2>2
    <3>4. CASE key # k0
      BY <3>1, <3>2, <3>4
    <3>5. CASE key = k0 /\ old(key) = None
      BY <2>2, <3>3, <3>5
    <3>6. CASE key = k0 /\ old(key) # None
      <4>1. new(key) = Min2(old(key), p.received)
        BY <3>6
      <4> HIDE DEF old, new
      <4>2. /\ Min2(old(key), p.received) \in {old(key), p.received}
            /\ Min2(old(key), p.received) <= old(key)
            /\ Min2(old(key), p.received) <= p.received
        BY <2>2, <3>2, <3>6 DEF Min2
      <4> QED
        BY <2>2, <3>1, <3>3, <3>6, <4>1, <4>2
    <3> QED
      BY <3>4, <3>5, <3>6
  <2>4. available_from' \in [Markets \X Points -> Receipts \cup {None}]
    BY <2>1, <2>3
  <2>5. ASSUME NEW x \in accepted' \ seen_events', x.kind \in Points
        PROVE  /\ available_from'[<<x.market, x.kind>>] # None
               /\ available_from'[<<x.market, x.kind>>] <= x.received
    <3>1. x = p \/ x \in accepted \ seen_events
      BY <1>1, <1>4, <1>7
    <3>2. x \in Event /\ x.received \in Nat /\ <<x.market, x.kind>> \in Markets \X Points
      BY <1>3, <2>5, <3>1, EventFields
    <3>3. available_from'[<<x.market, x.kind>>] = new(<<x.market, x.kind>>)
      BY <2>1, <3>2
    <3>4. CASE x = p
      BY <2>3, <3>2, <3>3, <3>4
    <3>5. CASE x \in accepted \ seen_events
      <4>1. /\ old(<<x.market, x.kind>>) # None
            /\ old(<<x.market, x.kind>>) <= x.received
            /\ old(<<x.market, x.kind>>) \in Receipts \cup {None}
        BY <2>5, <3>2, <3>5 DEF PointInv
      <4>2. /\ new(<<x.market, x.kind>>) # None
            /\ new(<<x.market, x.kind>>) <= old(<<x.market, x.kind>>)
            /\ new(<<x.market, x.kind>>) \in Receipts \cup {None}
        BY <2>3, <3>2, <4>1
      <4>3. /\ old(<<x.market, x.kind>>) \in Nat
            /\ new(<<x.market, x.kind>>) \in Nat
        BY <1>5, <4>1, <4>2
      <4> HIDE DEF old, new
      <4> QED
        BY <3>2, <3>3, <4>1, <4>2, <4>3
    <3> QED
      BY <3>1, <3>4, <3>5
  <2> QED
    BY <2>4, <2>5 DEF PointInv
<1> QED
  BY <1>2, <1>3, <1>6, <1>7

----------------------------------------------------------------------------
(* What a decision reads of the histories                                  *)

(* The facts of a kind and a market there were at a time: those retained,
   and all of them. *)
Retained(kind, m, t) == {e \in History(m, kind) : Available(e, t)}
All(kind, m, t) == {e \in accepted : e.kind = kind /\ e.market = m /\ Available(e, t)}

LEMMA RetainedLatest ==
  ASSUME HistoryInv, NEW m, NEW kind \in Sampled \cup Points, NEW t
  PROVE  /\ Retained(kind, m, t) \subseteq All(kind, m, t)
         /\ Retained(kind, m, t) # {} =>
              Latest(Retained(kind, m, t), Before) = Latest(All(kind, m, t), Before)
         /\ All(kind, m, t) \subseteq seen_events =>
              Retained(kind, m, t) = All(kind, m, t)
<1> DEFINE A == Retained(kind, m, t)
           B == All(kind, m, t)
<1>1. \A k : Source(k) = Source(kind) <=> k = kind
  BY DEF Source, Sampled, Points
<1>2. A \subseteq B /\ A = {e \in B : e \in seen_events}
  BY <1>1 DEF Retained, All, History, HistoryInv
<1>3. B \subseteq accepted /\ \A e \in B : e.market = m /\ e.kind = kind
  BY DEF All
<1>4. A \subseteq History(m, kind)
  BY DEF Retained
<1> HIDE DEF A, B
<1>5. /\ A \subseteq Event /\ Distinct(A) /\ IsFiniteSet(A)
      /\ B \subseteq Event /\ Distinct(B) /\ IsFiniteSet(B)
  BY <1>2, <1>3, PartOfAccepted
<1>6. ASSUME A # {}
      PROVE  Latest(A, Before) = Latest(B, Before)
  <2>1. PICK x : x \in Latest(A, Before)
    BY <1>5, <1>6, LatestExists
  <2>2. Latest(A, Before) = {x} /\ x \in A /\ \A y \in A \ {x} : Before(y, x)
    BY <1>5, <2>1, LatestIsOne
  <2>3. ASSUME NEW y \in B, y # x
        PROVE  Before(y, x)
    <3>1. CASE y \in seen_events
      BY <1>2, <2>2, <2>3, <3>1
    <3>2. CASE y \notin seen_events
      <4>1. Lost(y)
        BY <1>3, <3>2 DEF HistoryInv
      <4> QED
        BY <1>3, <1>4, <2>2, <4>1 DEF Lost
    <3> QED
      BY <3>1, <3>2
  <2>4. x \in Latest(B, Before)
    BY <1>2, <2>2, <2>3 DEF Latest
  <2> QED
    BY <1>5, <2>2, <2>4, LatestIsOne
<1> QED
  BY <1>2, <1>6 DEF A, B

\* A quote or a book is the latest, or the history says it was pruned.
LEMMA PointsRead ==
  ASSUME HistoryInv, PointInv
  PROVE  PointsAreLatestOrPruned
<1> SUFFICES ASSUME NEW m \in Markets, NEW kind \in Points \cap Kinds,
                    NEW decision \in Receipts
             PROVE  \/ LatestPoint(m, kind, decision) = Then(kind, m, decision)
                    \/ /\ LatestPoint(m, kind, decision) = {}
                       /\ available_from[<<m, kind>>] # None
                       /\ available_from[<<m, kind>>] <= decision
  BY DEF PointsAreLatestOrPruned
<1> DEFINE A == Retained(kind, m, decision)
           B == All(kind, m, decision)
<1>1. /\ LatestPoint(m, kind, decision) = Latest(A, Before)
      /\ Then(kind, m, decision) = Latest(B, Before)
  BY DEF LatestPoint, Then, Retained, All
<1>2. /\ A # {} => Latest(A, Before) = Latest(B, Before)
      /\ B \subseteq seen_events => A = B
  BY RetainedLatest
<1>3. CASE A # {} \/ B \subseteq seen_events
  BY <1>1, <1>2, <1>3
<1>4. CASE A = {} /\ ~(B \subseteq seen_events)
  <2>1. PICK e \in B : e \notin seen_events
    BY <1>4
  <2>2. /\ e \in accepted \ seen_events /\ e.kind = kind /\ e.market = m
        /\ e.received <= decision
    BY <2>1 DEF All, Available
  <2>3. /\ available_from[<<m, kind>>] # None
        /\ available_from[<<m, kind>>] <= e.received
        /\ available_from[<<m, kind>>] \in Receipts \cup {None}
    BY <2>2 DEF PointInv
  <2>4. /\ available_from[<<m, kind>>] \in Nat /\ e.received \in Nat /\ decision \in Nat
    BY <2>2, <2>3, EventFields, FeaturesAssumption DEF HistoryInv
  <2>5. Latest(A, Before) = {}
    BY <1>4 DEF Latest
  <2> QED
    BY <1>1, <2>2, <2>3, <2>4, <2>5
<1> QED
  BY <1>3, <1>4

\* A forgotten identity stays out.
LEMMA ForgottenOut ==
  ASSUME HistoryInv
  PROVE  ForgottenStaysOut
<1> SUFFICES ASSUME NEW e \in accepted, ~Known(e)
             PROVE  ~Accepts(e)
  BY DEF ForgottenStaysOut
<1>1. e \notin seen_events
  BY DEF Known
<1>2. Lost(e)
  BY <1>1 DEF HistoryInv
<1> QED
  BY <1>2, LostIsRefused

\* A fact received later leaves the quote or book a decision reads, or prunes it.
LEMMA PointSettled ==
  ASSUME HistoryInv, NEW e \in Event, Observe(e), NEW m,
         NEW kind \in Points \cap Kinds, NEW t \in Nat, t < e.received
  PROVE  Kept(LatestPoint(m, kind, t), LatestPoint(m, kind, t)', {})
<1> DEFINE A == Retained(kind, m, t)
           P == Pruned(e)
<1>1. LatestPoint(m, kind, t) = Latest(A, Before)
  BY DEF LatestPoint, Retained
<1>2. LatestPoint(m, kind, t)' = Latest(A', Before)
  BY DEF LatestPoint, Retained, Latest, Before
<1>3. /\ e \notin accepted /\ Accepts(e) /\ Distinct(accepted \cup {e})
  BY ObservedIsNew
<1>4. ~Available(e, t)
  BY EventFields DEF Available
<1>5. \/ P = {}
      \/ \E p \in Class(e) : P = {p} /\ \A f \in (Class(e) \cup {e}) \ {p} : Before(p, f)
  BY <1>3, PrunedFacts, Zenon
<1>6. History(m, kind)' = IF m = e.market /\ Source(kind) = Source(e.kind)
                          THEN (Class(e) \cup {e}) \ P ELSE History(m, kind)
  BY HistoryAfter
<1>7. A' = {f \in History(m, kind)' : Available(f, t)}
  BY DEF Retained, Available
<1>8. CASE ~(m = e.market /\ Source(kind) = Source(e.kind))
  <2>1. A' = A
    BY <1>6, <1>7, <1>8 DEF Retained
  <2> QED
    BY <1>1, <1>2, <2>1 DEF Kept
<1>9. CASE m = e.market /\ Source(kind) = Source(e.kind)
  <2>1. Class(e) = History(m, kind)
    BY <1>9 DEF Class, History
  <2>2. A' = A \ P
    <3>1. A' = {f \in (History(m, kind) \cup {e}) \ P : Available(f, t)}
      BY <1>6, <1>7, <1>9, <2>1
    <3> QED
      BY <1>4, <3>1 DEF Retained
  <2>3. CASE P \cap A = {}
    <3>1. A' = A
      BY <2>2, <2>3
    <3> QED
      BY <1>1, <1>2, <3>1 DEF Kept
  <2>4. CASE P \cap A # {}
    <3>1. PICK p \in A : P = {p} /\ \A f \in Class(e) \ {p} : Before(p, f)
      BY <1>5, <2>4
    <3>2. A \subseteq Class(e) /\ A \subseteq Event /\ Distinct(A)
      <4>1. A \subseteq History(m, kind)
        BY DEF Retained
      <4>2. A \subseteq accepted
        BY <4>1, HistoryPart
      <4> QED
        BY <2>1, <4>1, <4>2, PartOfAccepted
    <3>3. CASE A = {p}
      <4>1. Latest(A', Before) = {}
        BY <2>2, <3>1, <3>3 DEF Latest
      <4> QED
        BY <1>1, <1>2, <4>1 DEF Kept
    <3>4. CASE A # {p}
      <4>1. PICK y \in A : y # p
        BY <3>1, <3>4
      <4>2. p \notin Latest(A, Before)
        <5>1. Before(p, y)
          BY <3>1, <3>2, <4>1
        <5> QED
          BY <3>1, <3>2, <4>1, <5>1, BeforeTransitive, BeforeIrreflexive DEF Latest
      <4>3. \A x : x \in Latest(A, Before) <=> x \in Latest(A \ {p}, Before)
        <5>1. ASSUME NEW x \in Latest(A, Before)
              PROVE  x \in Latest(A \ {p}, Before)
          BY <4>2, <5>1 DEF Latest
        <5>2. ASSUME NEW x \in Latest(A \ {p}, Before)
              PROVE  x \in Latest(A, Before)
          <6>1. x \in A /\ x # p /\ Before(p, x)
            BY <3>1, <3>2, <5>2 DEF Latest
          <6> QED
            BY <5>2, <6>1 DEF Latest
        <5> QED
          BY <5>1, <5>2
      <4>4. Latest(A', Before) = Latest(A, Before)
        <5>1. A' = A \ {p}
          BY <2>2, <3>1
        <5> QED
          BY <4>3, <5>1
      <4> QED
        BY <1>1, <1>2, <4>4 DEF Kept
    <3> QED
      BY <3>3, <3>4
  <2> QED
    BY <2>3, <2>4
<1> QED
  BY <1>8, <1>9

----------------------------------------------------------------------------
(* Lengths of time                                                         *)

\* A product with a positive number is not smaller than the number.
LEMMA Grows ==
  ASSUME NEW n \in Nat, n # 0, NEW H \in Nat
  PROVE  n * H >= H
<1>1. n * H = (n - 1) * H + H
  OBVIOUS
<1>2. (n - 1) \in Nat
  OBVIOUS
<1>3. (n - 1) * H \in Nat
  BY <1>2
<1> QED
  BY <1>1, <1>3

\* Multiples of a length are no closer to each other than it.
LEMMA Apart ==
  ASSUME NEW H \in Nat \ {0}, NEW j \in Int, NEW k \in Int,
         j * H < k * H + H, k * H < j * H + H
  PROVE  j = k
<1>1. CASE j > k
  <2>1. j - k \in Nat /\ j - k # 0
    BY <1>1
  <2>2. (j - k) * H >= H
    BY <2>1, Grows
  <2>3. (j - k) * H = j * H - k * H
    OBVIOUS
  <2> QED
    BY <2>2, <2>3
<1>2. CASE k > j
  <2>1. k - j \in Nat /\ k - j # 0
    BY <1>2
  <2>2. (k - j) * H >= H
    BY <2>1, Grows
  <2>3. (k - j) * H = k * H - j * H
    OBVIOUS
  <2> QED
    BY <2>2, <2>3
<1> QED
  BY <1>1, <1>2

\* What is left of a number without its remainder.
LEMMA Floor ==
  ASSUME NEW H \in Nat \ {0}, NEW a \in Nat
  PROVE  /\ a % H \in Nat /\ a % H < H
         /\ (a \div H) \in Int
         /\ a - (a % H) = (a \div H) * H
  OBVIOUS

\* A multiple leaves no remainder, nor does it when a length is added.
LEMMA NoRemainder ==
  ASSUME NEW H \in Nat \ {0}, NEW k \in Int, k * H \in Nat
  PROVE  (k * H) % H = 0
<1> DEFINE a == k * H
<1>1. a % H \in Nat /\ a % H < H /\ (a \div H) \in Int
      /\ a - (a % H) = (a \div H) * H
  BY Floor
<1>2. (a \div H) * H < k * H + H /\ k * H < (a \div H) * H + H
  BY <1>1
<1>3. (a \div H) = k
  BY <1>1, <1>2, Apart
<1> QED
  BY <1>1, <1>3

\* A multiple of a multiple of a length.
LEMMA Divides ==
  ASSUME NEW a \in Nat, NEW S \in Nat \ {0}, NEW M \in Nat \ {0}, a % S = 0, S % M = 0
  PROVE  a % M = 0
<1> DEFINE k == a \div S
           j == S \div M
<1>1. k \in Int /\ a = k * S /\ j \in Int /\ S = j * M
  BY Floor
<1> HIDE DEF k, j
<1>2. k * (j * M) = (k * j) * M /\ k * j \in Int
  BY <1>1
<1>3. (k * j) * M = a
  BY <1>1, <1>2
<1>4. ((k * j) * M) % M = 0
  BY <1>2, <1>3, NoRemainder
<1> QED
  BY <1>3, <1>4

\* The time between two multiples of a length.
LEMMA Difference ==
  ASSUME NEW a \in Nat, NEW b \in Nat, NEW M \in Nat \ {0}, a % M = 0, b % M = 0, b <= a
  PROVE  (a - b) % M = 0
<1> DEFINE k == a \div M
           j == b \div M
<1>1. k \in Int /\ a = k * M /\ j \in Int /\ b = j * M
  BY Floor
<1> HIDE DEF k, j
<1>2. (k - j) * M = k * M - j * M /\ k - j \in Int
  BY <1>1
<1>3. (k - j) * M = a - b /\ (k - j) * M \in Nat
  BY <1>1, <1>2
<1>4. ((k - j) * M) % M = 0
  BY <1>2, <1>3, NoRemainder
<1> QED
  BY <1>3, <1>4

\* A bucket is over by a multiple of its length exactly if its times are before it.
LEMMA BucketOver ==
  ASSUME NEW t \in Nat, NEW L \in Nat \ {0}
  PROVE  /\ BucketClose(t, L) \in Nat
         /\ \A d \in Nat : d % L = 0 => (BucketClose(t, L) <= d <=> t < d)
<1> DEFINE q == t \div L
           r == t % L
<1>1. /\ r \in Nat /\ r < L /\ q \in Int /\ t - r = q * L
  BY Floor
<1>2. BucketClose(t, L) = t + (L - r)
  BY DEF BucketClose
<1> HIDE DEF q, r
<1>3. BucketClose(t, L) \in Nat /\ t < BucketClose(t, L)
  BY <1>1, <1>2
<1>4. ASSUME NEW d \in Nat, d % L = 0, t < d
      PROVE  BucketClose(t, L) <= d
  <2> DEFINE k == d \div L
  <2>1. k \in Int /\ d = k * L
    BY <1>4, Floor
  <2> HIDE DEF k
  <2>2. q * L < k * L
    BY <1>1, <1>4, <2>1
  <2>3. k > q
    <3> SUFFICES ASSUME q >= k
                 PROVE  FALSE
      BY <1>1, <2>1
    <3>1. q - k \in Nat /\ (q - k) * L = q * L - k * L
      BY <1>1, <2>1
    <3>2. (q - k) * L \in Nat
      BY <3>1
    <3>3. q * L \in Int /\ k * L \in Int
      BY <1>1, <2>1
    <3> QED
      BY <2>2, <3>1, <3>2, <3>3
  <2>4. k - q \in Nat /\ k - q # 0 /\ (k - q) * L = k * L - q * L
    BY <1>1, <2>1, <2>3
  <2>5. (k - q) * L >= L
    BY <2>4, Grows
  <2>6. q * L \in Int /\ k * L \in Int
    BY <1>1, <2>1
  <2>7. d >= q * L + L
    BY <2>1, <2>4, <2>5, <2>6
  <2> QED
    BY <1>1, <1>2, <2>7
<1>5. ASSUME NEW d \in Nat, BucketClose(t, L) <= d
      PROVE  t < d
  BY <1>3, <1>5
<1> QED
  BY <1>3, <1>4, <1>5

(* Keys of trade aggregates are in order. *)
KeyOrder(S) == {p \in S \X S : KeyBefore(p[1], p[2])}

LEMMA KeysOrdered ==
  ASSUME NEW S, S \subseteq Nat \X Nat
  PROVE  /\ Orders(KeyOrder(S), S)
         /\ \A x, y \in S : <<x, y>> \in KeyOrder(S) <=> KeyBefore(x, y)
<1>1. \A x, y \in S : <<x, y>> \in KeyOrder(S) <=> KeyBefore(x, y)
  BY DEF KeyOrder
<1>2. \A x \in Nat \X Nat : ~KeyBefore(x, x)
  BY DEF KeyBefore
<1>3. \A x, y, z \in Nat \X Nat : KeyBefore(x, y) /\ KeyBefore(y, z) => KeyBefore(x, z)
  BY DEF KeyBefore
<1>4. \A x, y \in Nat \X Nat : x # y => KeyBefore(x, y) \/ KeyBefore(y, x)
  BY DEF KeyBefore
<1> QED
  BY <1>1, <1>2, <1>3, <1>4 DEF Orders

LEMMA KeyBeforeIsAnOrder ==
  ASSUME NEW x \in Nat \X Nat, NEW y \in Nat \X Nat, NEW z \in Nat \X Nat
  PROVE  /\ ~KeyBefore(x, x)
         /\ KeyBefore(x, y) /\ KeyBefore(y, z) => KeyBefore(x, z)
BY DEF KeyBefore

\* The key of a trade.
LEMMA AggregateKeyFacts ==
  ASSUME NEW e \in Event, NEW s \in Sleeves
  PROVE  /\ AggregateKey(e, s) \in Nat \X Nat
         /\ \A d \in Nat : d % Micro = 0 =>
              (AggregateKey(e, s)[1] <= d <=> e.time < d)
         /\ \A d \in Nat : d % s = 0 =>
              (AggregateKey(e, s)[2] <= d <=> e.received < d)
<1>1. Micro \in Nat \ {0} /\ s \in Nat \ {0}
  BY FeaturesAssumption, BarsAssumption DEF Sleeves
<1>2. e.time \in Nat /\ e.received \in Nat
  BY EventFields
<1>3. /\ BucketClose(e.time, Micro) \in Nat
      /\ \A d \in Nat : d % Micro = 0 => (BucketClose(e.time, Micro) <= d <=> e.time < d)
  BY <1>1, <1>2, BucketOver
<1>4. /\ BucketClose(e.received, s) \in Nat
      /\ \A d \in Nat : d % s = 0 => (BucketClose(e.received, s) <= d <=> e.received < d)
  BY <1>1, <1>2, BucketOver
<1> QED
  BY <1>3, <1>4 DEF AggregateKey

----------------------------------------------------------------------------
(* The windows of trades                                                   *)

Trades(m) == {e \in accepted : e.kind = "trade" /\ e.market = m}

(* A window counts every trade once, but for those before all it keeps. *)
Counts(F, s, w, through) ==
  /\ DOMAIN w \subseteq Nat \X Nat /\ IsFiniteSet(DOMAIN w)
  /\ Cardinality(DOMAIN w) <= AggregateLimit
  /\ \A k \in DOMAIN w : w[k] = Cardinality({e \in F : AggregateKey(e, s) = k})
  /\ \A e \in F :
       AggregateKey(e, s) \notin DOMAIN w =>
         /\ Cardinality(DOMAIN w) = AggregateLimit
         /\ \A k \in DOMAIN w : KeyBefore(AggregateKey(e, s), k)
         /\ AggregateKey(e, s)[1] <= through

WindowInv ==
  /\ DOMAIN aggregates = Keys
  /\ aggregates_through \in [Keys -> Nat \cup {None}]
  /\ \A m \in Markets, s \in Sleeves :
       Counts(Trades(m), s, aggregates[<<m, s>>], aggregates_through[<<m, s>>])

\* A trade more, counted in the bucket of its own.
LEMMA OneMore ==
  ASSUME NEW F, IsFiniteSet(F), NEW e, e \notin F, NEW s, NEW k
  PROVE  Cardinality({x \in F \cup {e} : AggregateKey(x, s) = k}) =
           Cardinality({x \in F : AggregateKey(x, s) = k})
             + (IF k = AggregateKey(e, s) THEN 1 ELSE 0)
<1> DEFINE A == {x \in F : AggregateKey(x, s) = k}
           B == {x \in F \cup {e} : AggregateKey(x, s) = k}
<1>1. IsFiniteSet(A) /\ Cardinality(A) \in Nat
  <2>1. A \in SUBSET F
    OBVIOUS
  <2> QED
    BY <2>1, FS_Subset, FS_CardinalityType
<1>2. B = IF k = AggregateKey(e, s) THEN A \cup {e} ELSE A
  OBVIOUS
<1>3. e \notin A
  OBVIOUS
<1> HIDE DEF A, B
<1>4. Cardinality(A \cup {e}) = Cardinality(A) + 1
  BY <1>1, <1>3, FS_AddElement
<1>5. Cardinality(B) = Cardinality(A) + (IF k = AggregateKey(e, s) THEN 1 ELSE 0)
  <2>1. CASE k = AggregateKey(e, s)
    BY <1>2, <1>4, <2>1
  <2>2. CASE k # AggregateKey(e, s)
    BY <1>1, <1>2, <2>2
  <2> QED
    BY <2>1, <2>2
<1> QED
  BY <1>5 DEF A, B

\* The first bucket of a set of them.
LEMMA FirstKey ==
  ASSUME NEW S, S \subseteq Nat \X Nat, IsFiniteSet(S), S # {}
  PROVE  \E p \in S : {k \in S : \A j \in S \ {k} : KeyBefore(k, j)} = {p}
<1>1. /\ Orders(KeyOrder(S), S)
      /\ \A x, y \in S : <<x, y>> \in KeyOrder(S) <=> KeyBefore(x, y)
  BY KeysOrdered
<1>2. PICK p \in S : \A y \in S \ {p} : <<p, y>> \in KeyOrder(S)
  BY <1>1, FirstExists
<1>3. \A y \in S \ {p} : KeyBefore(p, y)
  BY <1>1, <1>2
<1>4. ASSUME NEW q \in S, \A j \in S \ {q} : KeyBefore(q, j), q # p
      PROVE  FALSE
  <2>1. KeyBefore(q, p) /\ KeyBefore(p, q)
    BY <1>3, <1>4
  <2> QED
    BY <2>1, KeyBeforeIsAnOrder
<1>5. {k \in S : \A j \in S \ {k} : KeyBefore(k, j)} = {p}
  BY <1>3, <1>4
<1> QED
  BY <1>5

\* A window takes a trade, and is trimmed behind a bucket that it remembers.
FitsIn(w, k0) == \/ k0 \in DOMAIN w
                 \/ Cardinality(DOMAIN w) < AggregateLimit
                 \/ \E j \in DOMAIN w : KeyBefore(j, k0)

Trimmed(longer) == [k \in DOMAIN longer \ Excess(longer) |-> longer[k]]

Passed(through, longer) ==
  IF Excess(longer) # {} THEN Max2(through, (CHOOSE k \in Excess(longer) : TRUE)[1])
  ELSE through

\* What a trade does to one window.
LEMMA WindowCountsOn ==
  ASSUME NEW F, F \subseteq Event, IsFiniteSet(F), NEW e \in Event, e \notin F,
         NEW s \in Sleeves, NEW w, NEW through, through \in Nat \cup {None},
         Counts(F, s, w, through), FitsIn(w, AggregateKey(e, s)),
         NEW longer, longer = Counted(w, AggregateKey(e, s))
  PROVE  /\ Counts(F \cup {e}, s, Trimmed(longer), Passed(through, longer))
         /\ Passed(through, longer) \in Nat \cup {None}
<1> SUFFICES ASSUME \/ AggregateKey(e, s) \in DOMAIN w
                    \/ Cardinality(DOMAIN w) < AggregateLimit
                    \/ \E j \in DOMAIN w : KeyBefore(j, AggregateKey(e, s)),
                    NEW after,
                    after = IF Excess(longer) # {}
                            THEN Max2(through, (CHOOSE k \in Excess(longer) : TRUE)[1])
                            ELSE through
             PROVE  /\ Counts(F \cup {e}, s,
                              [k \in DOMAIN longer \ Excess(longer) |-> longer[k]], after)
                    /\ after \in Nat \cup {None}
  BY DEF FitsIn, Trimmed, Passed
<1> DEFINE k0 == AggregateKey(e, s)
           D == DOMAIN w
           D1 == D \cup {k0}
           X == Excess(longer)
           v == [k \in DOMAIN longer \ X |-> longer[k]]
           A(x) == AggregateKey(x, s)
           C(k) == Cardinality({x \in F : AggregateKey(x, s) = k})
           C1(k) == Cardinality({x \in F \cup {e} : AggregateKey(x, s) = k})
<1>1. /\ k0 \in Nat \X Nat /\ \A x \in F : A(x) \in Nat \X Nat
  BY AggregateKeyFacts
<1>2. /\ D \subseteq Nat \X Nat /\ IsFiniteSet(D) /\ Cardinality(D) <= AggregateLimit
      /\ \A k \in D : w[k] = C(k)
      /\ \A x \in F : A(x) \notin D =>
           /\ Cardinality(D) = AggregateLimit
           /\ \A k \in D : KeyBefore(A(x), k)
           /\ A(x)[1] <= through
  BY DEF Counts
<1>3. Cardinality(D) \in Nat /\ AggregateLimit \in Nat
  BY <1>2, FS_CardinalityType, FeaturesAssumption
<1>4. /\ DOMAIN longer = D1
      /\ \A k \in D1 : longer[k] = (IF k \in D THEN w[k] ELSE 0) + (IF k = k0 THEN 1 ELSE 0)
  BY DEF Counted
<1>5. DOMAIN v = D1 \ X /\ \A k \in D1 \ X : v[k] = longer[k]
  BY <1>4
<1>6. \A k : C1(k) = C(k) + (IF k = k0 THEN 1 ELSE 0)
  BY OneMore
<1>7. ASSUME k0 \notin D
      PROVE  C(k0) = 0
  <2>1. {x \in F : AggregateKey(x, s) = k0} = {}
    <3> SUFFICES ASSUME NEW x \in F, A(x) = k0
                 PROVE  FALSE
      OBVIOUS
    <3>1. Cardinality(D) = AggregateLimit /\ \A k \in D : KeyBefore(k0, k)
      BY <1>2, <1>7
    <3>2. PICK j \in D : KeyBefore(j, k0)
      BY <1>3, <1>7, <3>1
    <3> QED
      BY <1>1, <1>2, <3>1, <3>2, KeyBeforeIsAnOrder
  <2> QED
    BY <2>1, FS_EmptySet
<1>8. \A k \in D1 \ X : v[k] = C1(k)
  <2> SUFFICES ASSUME NEW k \in D1 \ X
               PROVE  v[k] = C1(k)
    OBVIOUS
  <2>1. v[k] = (IF k \in D THEN w[k] ELSE 0) + (IF k = k0 THEN 1 ELSE 0)
    BY <1>4, <1>5
  <2>2. C1(k) = C(k) + (IF k = k0 THEN 1 ELSE 0)
    BY <1>6
  <2>3. (IF k \in D THEN w[k] ELSE 0) = C(k)
    BY <1>2, <1>7
  <2> QED
    BY <2>1, <2>2, <2>3
<1>9. IsFiniteSet(D1) /\ D1 \subseteq Nat \X Nat /\ k0 \in D1 /\ D \subseteq D1
  BY <1>1, <1>2, FS_AddElement
<1>10. X = IF Cardinality(D1) <= AggregateLimit THEN {}
           ELSE {k \in D1 : \A j \in D1 \ {k} : KeyBefore(k, j)}
  BY <1>4 DEF Excess
<1> HIDE DEF k0, D, D1, X, v, C, C1
<1>11. CASE k0 \in D \/ Cardinality(D) < AggregateLimit
  <2>1. /\ X = {} /\ Cardinality(D1) <= AggregateLimit
        /\ k0 \in D => D1 = D
    <3>1. CASE k0 \in D
      <4>1. D1 = D
        BY <3>1 DEF D1
      <4> QED
        BY <1>2, <1>10, <4>1
    <3>2. CASE k0 \notin D /\ Cardinality(D) < AggregateLimit
      <4>1. Cardinality(D1) = Cardinality(D) + 1
        BY <1>2, <3>2, FS_AddElement DEF D1
      <4>2. Cardinality(D1) <= AggregateLimit
        BY <1>3, <3>2, <4>1
      <4> QED
        BY <1>10, <3>2, <4>2
    <3> QED
      BY <1>11, <3>1, <3>2
  <2>2. DOMAIN v = D1
    BY <1>5, <2>1
  <2>3. ASSUME NEW x \in F \cup {e}, A(x) \notin D1
        PROVE  /\ Cardinality(D1) = AggregateLimit
               /\ \A k \in D1 : KeyBefore(A(x), k)
               /\ A(x)[1] <= through
    <3>1. x \in F
      BY <1>9, <2>3 DEF k0
    <3>2. A(x) \notin D
      BY <1>9, <2>3
    <3>3. /\ Cardinality(D) = AggregateLimit
          /\ \A k \in D : KeyBefore(A(x), k)
          /\ A(x)[1] <= through
      BY <1>2, <3>1, <3>2
    <3>4. k0 \in D
      BY <1>3, <1>11, <3>3
    <3>5. D1 = D
      BY <2>1, <3>4
    <3> QED
      BY <3>3, <3>5
  <2>4. after = through
    BY <2>1 DEF X
  <2>5. Counts(F \cup {e}, s, v, through)
    BY <1>8, <1>9, <2>1, <2>2, <2>3 DEF Counts, C1
  <2> QED
    BY <2>4, <2>5 DEF v, X
<1>12. CASE k0 \notin D /\ ~(Cardinality(D) < AggregateLimit)
  <2>1. Cardinality(D) = AggregateLimit /\ Cardinality(D1) = AggregateLimit + 1
    <3>1. Cardinality(D1) = Cardinality(D) + 1
      BY <1>2, <1>12, FS_AddElement DEF D1
    <3> QED
      BY <1>2, <1>3, <1>12, <3>1
  <2>2. PICK j \in D : KeyBefore(j, k0)
    BY <1>12 DEF D, k0
  <2>3. PICK p \in D1 : X = {p} /\ \A y \in D1 \ {p} : KeyBefore(p, y)
    <3>1. X = {k \in D1 : \A y \in D1 \ {k} : KeyBefore(k, y)}
      BY <1>3, <1>10, <2>1
    <3>2. \E p \in D1 : {k \in D1 : \A y \in D1 \ {k} : KeyBefore(k, y)} = {p}
      BY <1>9, FirstKey
    <3> QED
      BY <3>1, <3>2
  <2>4. p # k0 /\ p \in D
    <3>1. p # k0
      <4> SUFFICES ASSUME p = k0
                   PROVE  FALSE
        OBVIOUS
      <4>1. KeyBefore(k0, j)
        BY <1>9, <1>12, <2>3
      <4> QED
        BY <1>1, <1>2, <2>2, <4>1, KeyBeforeIsAnOrder DEF k0
    <3> QED
      BY <2>3, <3>1 DEF D1
  <2>5. /\ DOMAIN v = D1 \ {p} /\ IsFiniteSet(D1 \ {p})
        /\ Cardinality(D1 \ {p}) = AggregateLimit
    <3>1. IsFiniteSet(D1 \ {p}) /\ Cardinality(D1 \ {p}) = Cardinality(D1) - 1
      BY <1>9, <2>3, FS_RemoveElement
    <3> QED
      BY <1>3, <1>5, <2>1, <2>3, <3>1
  <2>6. after = Max2(through, p[1]) /\ p[1] \in Nat
    <3>1. (CHOOSE k \in {p} : TRUE) = p
      OBVIOUS
    <3>2. Excess(longer) = {p}
      BY <2>3 DEF X
    <3> QED
      BY <1>9, <2>3, <3>1, <3>2
  <2>7. after \in Nat \cup {None} /\ through <= after /\ p[1] <= after
    BY <2>6 DEF Max2, None
  <2>8. ASSUME NEW x \in F \cup {e}, A(x) \notin D1 \ {p}
        PROVE  /\ \A k \in D1 \ {p} : KeyBefore(A(x), k)
               /\ A(x)[1] <= after
    <3>1. A(x) # k0 /\ x \in F
      <4>1. k0 \in D1 \ {p}
        BY <1>9, <2>4
      <4>2. A(x) # k0
        BY <2>8, <4>1
      <4> QED
        BY <4>2 DEF k0
    <3>2. CASE A(x) = p
      BY <2>3, <2>7, <3>2
    <3>3. CASE A(x) # p
      <4>1. A(x) \notin D
        BY <1>9, <2>8, <3>3
      <4>2. /\ \A k \in D : KeyBefore(A(x), k)
            /\ A(x)[1] <= through
        BY <1>2, <3>1, <4>1
      <4>3. KeyBefore(A(x), k0)
        <5>1. A(x) \in Nat \X Nat /\ j \in Nat \X Nat /\ k0 \in Nat \X Nat
          BY <1>1, <1>2, <3>1
        <5>2. KeyBefore(A(x), j)
          BY <4>2
        <5> HIDE DEF A
        <5> QED
          BY <2>2, <5>1, <5>2, KeyBeforeIsAnOrder
      <4>4. \A k \in D1 \ {p} : KeyBefore(A(x), k)
        BY <4>2, <4>3 DEF D1
      <4>5. A(x)[1] <= after
        <5>1. A(x)[1] \in Nat
          BY <1>1, <3>1
        <5> HIDE DEF A
        <5> QED
          BY <2>7, <4>2, <5>1 DEF None
      <4> QED
        BY <4>4, <4>5
    <3> QED
      BY <3>2, <3>3
  <2>9. D1 \ {p} \subseteq Nat \X Nat
    BY <1>9
  <2>10. \A k \in D1 \ {p} : v[k] = C1(k)
    BY <1>8, <2>3
  <2>11. AggregateLimit <= AggregateLimit
    BY <1>3
  <2>12. Counts(F \cup {e}, s, v, after)
    BY <2>5, <2>8, <2>9, <2>10, <2>11 DEF Counts, C1
  <2> QED
    BY <2>7, <2>12 DEF v, X
<1> QED
  BY <1>11, <1>12

LEMMA TradesArePart ==
  ASSUME HistoryInv, NEW m
  PROVE  /\ Trades(m) \subseteq accepted /\ Trades(m) \subseteq Event
         /\ IsFiniteSet(Trades(m))
<1>1. Trades(m) \subseteq accepted
  BY DEF Trades
<1> QED
  BY <1>1, PartOfAccepted

\* A fact keeps the windows.
LEMMA ObserveKeepsWindows ==
  ASSUME HistoryInv, WindowInv, NEW e \in Event, Observe(e)
  PROVE  WindowInv'
<1>1. /\ e \notin accepted /\ accepted' = accepted \cup {e}
  BY ObservedIsNew
<1>2. DOMAIN aggregates = Keys /\ aggregates_through \in [Keys -> Nat \cup {None}]
  BY DEF WindowInv
<1>3. \A m : Trades(m)' = IF e.kind = "trade" /\ m = e.market
                          THEN Trades(m) \cup {e} ELSE Trades(m)
  BY <1>1 DEF Trades
<1>4. CASE e.kind # "trade"
  <2>1. UNCHANGED windows
    BY <1>4 DEF Observe
  <2> QED
    BY <1>3, <1>4, <2>1 DEF WindowInv, windows
<1>5. CASE e.kind = "trade"
  <2> DEFINE old(key) == aggregates[key]
             longer(key) == Counted(aggregates[<<e.market, key[2]>>], AggregateKey(e, key[2]))
             X(key) == Excess(longer(key))
             kept(key) == [k \in DOMAIN longer(key) \ X(key) |-> longer(key)[k]]
             moved(key, Y) == IF Y # {}
                              THEN Max2(aggregates_through[key], (CHOOSE k \in Y : TRUE)[1])
                              ELSE aggregates_through[key]
             after(key) == moved(key, X(key))
  <2>1. /\ CommitTrade(e) /\ \A s \in Sleeves : HasRoom(e, s)
    BY <1>5 DEF Observe, Admissible
  <2>2. /\ aggregates' = [key \in Keys |-> IF key[1] = e.market THEN kept(key)
                                           ELSE aggregates[key]]
        /\ aggregates_through' = [key \in Keys |-> IF key[1] = e.market THEN after(key)
                                                   ELSE aggregates_through[key]]
    <3>1. aggregates' = [key \in Keys |-> IF key[1] = e.market THEN kept(key)
                                           ELSE aggregates[key]]
      BY <1>2, <2>1 DEF CommitTrade
    <3>2. aggregates_through' =
            [key \in Keys |->
              IF key[1] = e.market /\ X(<<e.market, key[2]>>) # {}
              THEN Max2(aggregates_through[key],
                        (CHOOSE k \in X(<<e.market, key[2]>>) : TRUE)[1])
              ELSE aggregates_through[key]]
      <4>1. DOMAIN aggregates_through = Keys
        BY <1>2
      <4> QED
        BY <2>1, <4>1 DEF CommitTrade
    <3>3. \A key \in Keys : key[1] = e.market => key = <<e.market, key[2]>>
      BY DEF Keys
    <3>4. ASSUME NEW key \in Keys
          PROVE  (IF key[1] = e.market /\ X(<<e.market, key[2]>>) # {}
                  THEN Max2(aggregates_through[key],
                            (CHOOSE k \in X(<<e.market, key[2]>>) : TRUE)[1])
                  ELSE aggregates_through[key])
                 = IF key[1] = e.market THEN after(key) ELSE aggregates_through[key]
      <4> HIDE DEF X
      <4>1. CASE key[1] = e.market
        <5>1. <<e.market, key[2]>> = key
          BY <3>3, <4>1
        <5>2. moved(key, X(<<e.market, key[2]>>)) = moved(key, X(key))
          <6> HIDE DEF moved
          <6> QED
            BY <5>1
        <5> QED
          BY <4>1, <5>2
      <4>2. CASE key[1] # e.market
        BY <4>2
      <4> QED
        BY <4>1, <4>2
    <3> HIDE DEF after, kept
    <3>5. aggregates_through' = [key \in Keys |-> IF key[1] = e.market THEN after(key)
                                                  ELSE aggregates_through[key]]
      BY <3>2, <3>4
    <3> QED
      BY <3>1, <3>5
  <2>3. ASSUME NEW s \in Sleeves
        PROVE  LET key == <<e.market, s>>
               IN  /\ key \in Keys
                   /\ Counts(Trades(e.market) \cup {e}, s, kept(key), after(key))
                   /\ after(key) \in Nat \cup {None}
    <3> DEFINE key == <<e.market, s>>
               F == Trades(e.market)
               w == aggregates[key]
    <3>1. key \in Keys /\ key[1] = e.market /\ key[2] = s
      BY EventFields DEF Keys
    <3>2. /\ F \subseteq Event /\ IsFiniteSet(F) /\ e \notin F
      BY <1>1, TradesArePart
    <3>3. Counts(F, s, w, aggregates_through[key])
      BY EventFields DEF WindowInv
    <3>4. aggregates_through[key] \in Nat \cup {None}
      BY <1>2, <3>1
    <3>5. \/ AggregateKey(e, s) \in DOMAIN w
          \/ Cardinality(DOMAIN w) < AggregateLimit
          \/ \E j \in DOMAIN w : KeyBefore(j, AggregateKey(e, s))
      BY <2>1 DEF HasRoom
    <3>6. longer(key) = Counted(w, AggregateKey(e, s))
      BY <3>1
    <3>7. /\ Counts(F \cup {e}, s, kept(key), after(key))
          /\ after(key) \in Nat \cup {None}
      <4> DEFINE L == longer(key)
                 a == after(key)
                 t == aggregates_through[key]
      <4>1. a = IF Excess(L) # {} THEN Max2(t, (CHOOSE k \in Excess(L) : TRUE)[1]) ELSE t
        OBVIOUS
      <4>2. L = Counted(w, AggregateKey(e, s))
        BY <3>6
      <4>3. kept(key) = [k \in DOMAIN L \ Excess(L) |-> L[k]]
        OBVIOUS
      <4>4. t \in Nat \cup {None} /\ Counts(F, s, w, t)
        BY <3>3, <3>4
      <4>5. FitsIn(w, AggregateKey(e, s))
        BY <3>5 DEF FitsIn
      <4> HIDE DEF L, a, t, F, w, key
      <4>6. /\ Counts(F \cup {e}, s, Trimmed(L), Passed(t, L))
            /\ Passed(t, L) \in Nat \cup {None}
        BY ONLY <3>2, <4>2, <4>4, <4>5, e \in Event, s \in Sleeves, WindowCountsOn
      <4>7. Trimmed(L) = kept(key) /\ Passed(t, L) = a
        BY <4>1, <4>3 DEF Trimmed, Passed
      <4> QED
        BY <4>6, <4>7 DEF a
    <3> QED
      BY <3>1, <3>7
  <2> HIDE DEF kept, after, moved, longer, X
  <2>4. DOMAIN aggregates' = Keys
    BY <2>2
  <2>5. aggregates_through' \in [Keys -> Nat \cup {None}]
    <3>1. ASSUME NEW key \in Keys
          PROVE  aggregates_through'[key] \in Nat \cup {None}
      <4>1. CASE key[1] = e.market
        <5>1. key = <<e.market, key[2]>> /\ key[2] \in Sleeves
          BY <4>1 DEF Keys
        <5>2. after(key) \in Nat \cup {None}
          BY <2>3, <5>1
        <5> QED
          BY <2>2, <4>1, <5>2
      <4>2. CASE key[1] # e.market
        BY <1>2, <2>2, <4>2
      <4> QED
        BY <4>1, <4>2
    <3>2. aggregates_through' = [key \in Keys |-> aggregates_through'[key]]
      BY <2>2
    <3> QED
      BY <3>1, <3>2
  <2>6. ASSUME NEW m \in Markets, NEW s \in Sleeves
        PROVE  Counts(Trades(m)', s, aggregates'[<<m, s>>], aggregates_through'[<<m, s>>])
    <3>1. <<m, s>> \in Keys /\ <<m, s>>[1] = m
      BY DEF Keys
    <3>2. CASE m = e.market
      <4>1. /\ aggregates'[<<m, s>>] = kept(<<m, s>>)
            /\ aggregates_through'[<<m, s>>] = after(<<m, s>>)
            /\ Trades(m)' = Trades(m) \cup {e}
        BY <1>3, <1>5, <2>2, <3>1, <3>2
      <4> QED
        BY <2>3, <3>2, <4>1
    <3>3. CASE m # e.market
      <4>1. /\ aggregates'[<<m, s>>] = aggregates[<<m, s>>]
            /\ aggregates_through'[<<m, s>>] = aggregates_through[<<m, s>>]
            /\ Trades(m)' = Trades(m)
        BY <1>3, <2>2, <3>1, <3>3
      <4> QED
        BY <4>1 DEF WindowInv
    <3> QED
      BY <3>2, <3>3
  <2>7. WindowInv' = /\ DOMAIN aggregates' = Keys
                     /\ aggregates_through' \in [Keys -> Nat \cup {None}]
                     /\ \A m \in Markets, s \in Sleeves :
                          Counts(Trades(m)', s, aggregates'[<<m, s>>],
                                 aggregates_through'[<<m, s>>])
    BY DEF WindowInv, Keys, Counts, AggregateKey, BucketClose, KeyBefore, None
  <2> QED
    BY <2>4, <2>5, <2>6, <2>7
<1> QED
  BY <1>4, <1>5

\* The lengths of a window.
LEMMA Lengths ==
  /\ Micro \in Nat \ {0} /\ \A s \in Sleeves : s \in Nat \ {0} /\ s % Micro = 0
  /\ \A l \in {Micro, Short} : l \in Nat \ {0} /\ l % Micro = 0
<1>1. Micro \in Nat \ {0} /\ Short \in Nat \ {0} /\ Hour \in Nat \ {0}
      /\ Short % Micro = 0 /\ Hour % Micro = 0
  BY FeaturesAssumption, BarsAssumption
<1>2. Micro % Micro = 0
  BY <1>1
<1> QED
  BY <1>1, <1>2 DEF Sleeves

(* The trades of a window, as they happened. *)
Window(m, decision, length) ==
  {e \in accepted : /\ e.kind = "trade" /\ e.market = m
                    /\ e.time >= decision - length /\ e.time < decision
                    /\ e.received < decision}

(* Why a window is not read. *)
Buckets(m, s, decision, length) ==
  {k \in DOMAIN aggregates[<<m, s>>] :
     k[1] > decision - length /\ k[1] <= decision /\ k[2] <= decision}
Unknown(m, s, decision, length) ==
  \/ decision - length < 0 \/ aggregates_through[<<m, s>>] > decision - length
  \/ Buckets(m, s, decision, length) = {}

\* A window that is read counts all its trades.
LEMMA KnownWindowIsExact ==
  ASSUME HistoryInv, WindowInv, NEW m \in Markets, NEW s \in Sleeves,
         NEW length \in {Micro, Short}, NEW decision \in Decisions(s),
         ~Unknown(m, s, decision, length)
  PROVE  TradeWindow(m, s, decision, length) = Cardinality(Window(m, decision, length))
<1> DEFINE key == <<m, s>>
           w == aggregates[key]
           start == decision - length
           F == Trades(m)
           inside == {k \in DOMAIN w : k[1] > start /\ k[1] <= decision /\ k[2] <= decision}
           g == [e \in F |-> AggregateKey(e, s)]
           A(e) == AggregateKey(e, s)
<1>2. /\ decision \in Nat /\ decision % s = 0 /\ s \in Nat \ {0}
      /\ length \in Nat \ {0} /\ Micro \in Nat \ {0}
      /\ s % Micro = 0 /\ length % Micro = 0
  BY Lengths, FeaturesAssumption DEF Decisions
<1>1. /\ start >= 0 /\ ~(aggregates_through[key] > start)
      /\ TradeWindow(m, s, decision, length) = Total(w, inside)
  <2>1. ~(start < 0 \/ aggregates_through[key] > start \/ inside = {})
    BY DEF Unknown, Buckets
  <2>2. TradeWindow(m, s, decision, length) = Total(w, inside)
    BY <2>1 DEF TradeWindow, MapThenSumSet, MapThenFoldSet, Total, Sums
  <2> QED
    BY <1>2, <2>1, <2>2
<1>3. decision % Micro = 0
  BY <1>2, Divides
<1>4. start \in Nat /\ start % Micro = 0
  <2>1. length \in Nat /\ length <= decision
    BY <1>1, <1>2
  <2>2. decision - length \in Nat
    BY <1>2, <2>1
  <2>3. length % Micro = 0 /\ decision % Micro = 0 /\ decision \in Nat /\ Micro \in Nat \ {0}
    BY <1>2, <1>3
  <2>4. (decision - length) % Micro = 0
    BY ONLY <2>1, <2>3, Difference
  <2> QED
    BY <2>2, <2>4
<1>5. aggregates_through[key] \in Nat \cup {None} /\ aggregates_through[key] <= start
  <2>1. aggregates_through[key] \in Nat \cup {None}
    BY DEF WindowInv, Keys
  <2> QED
    BY <1>1, <1>4, <2>1 DEF None
<1>6. Counts(F, s, w, aggregates_through[key])
  BY DEF WindowInv
<1>7. F \subseteq Event /\ IsFiniteSet(F)
  BY TradesArePart
<1>8. ASSUME NEW e \in F
      PROVE  /\ A(e)[1] \in Nat /\ A(e)[2] \in Nat /\ e.time \in Nat /\ e.received \in Nat
             /\ A(e)[1] <= decision <=> e.time < decision
             /\ A(e)[1] <= start <=> e.time < start
             /\ A(e)[2] <= decision <=> e.received < decision
  <2>1. e \in Event
    BY <1>7
  <2> QED
    BY <1>2, <1>3, <1>4, <2>1, AggregateKeyFacts, EventFields
<1>9. IsFiniteSet(inside) /\ inside \subseteq DOMAIN w
  BY <1>6, FS_Subset DEF Counts
<1>10. \A k \in inside : w[k] = Cardinality({e \in F : g[e] = k})
  <2>1. \A k : {e \in F : g[e] = k} = {e \in F : AggregateKey(e, s) = k}
    OBVIOUS
  <2> QED
    BY <1>6, <2>1 DEF Counts
<1>11. Fibres(g, F, inside) = Window(m, decision, length)
  <2>1. \A e \in F : e \in Fibres(g, F, inside) <=> A(e) \in inside
    BY DEF Fibres
  <2>2. \A e : e \in Window(m, decision, length) <=>
               e \in F /\ e.time >= start /\ e.time < decision /\ e.received < decision
    BY DEF Window, Trades
  <2>3. Fibres(g, F, inside) \subseteq F
    BY DEF Fibres
  <2>4. ASSUME NEW e \in F, A(e) \in inside
        PROVE  e.time >= start /\ e.time < decision /\ e.received < decision
    <3>1. A(e)[1] > start /\ A(e)[1] <= decision /\ A(e)[2] <= decision
      BY <2>4
    <3> HIDE DEF A, start
    <3> QED
      BY <1>2, <1>4, <1>8, <3>1
  <2>5. ASSUME NEW e \in F, e.time >= start, e.time < decision, e.received < decision
        PROVE  A(e) \in inside
    <3>1. A(e)[1] > start /\ A(e)[1] <= decision /\ A(e)[2] <= decision
      <4> HIDE DEF A, start
      <4> QED
        BY <1>2, <1>4, <1>8, <2>5
    <3>2. A(e) \in DOMAIN w
      <4> SUFFICES ASSUME A(e) \notin DOMAIN w
                   PROVE  FALSE
        OBVIOUS
      <4>1. A(e)[1] <= aggregates_through[key]
        BY <1>6 DEF Counts
      <4>2. A(e)[1] \in Nat
        BY <1>8
      <4> HIDE DEF A, start, key
      <4> QED
        BY <1>4, <1>5, <3>1, <4>1, <4>2 DEF None
    <3> QED
      BY <3>1, <3>2
  <2> HIDE DEF A, inside, F, start, g
  <2> QED
    BY <2>1, <2>2, <2>3, <2>4, <2>5
<1>12. Total(w, inside) = Cardinality(Fibres(g, F, inside))
  <2> HIDE DEF inside, w, g, F
  <2> QED
    BY <1>7, <1>9, <1>10, SumCounts
<1> QED
  BY <1>1, <1>11, <1>12

LEMMA WindowIsExact ==
  ASSUME HistoryInv, WindowInv, NEW m \in Markets, NEW s \in Sleeves,
         NEW length \in {Micro, Short}, NEW decision \in Decisions(s),
         TradeWindow(m, s, decision, length) # None
  PROVE  TradeWindow(m, s, decision, length) = Cardinality(Window(m, decision, length))
<1>1. ~Unknown(m, s, decision, length)
  BY DEF TradeWindow, Unknown, Buckets
<1> QED
  BY <1>1, KnownWindowIsExact

\* A window that is not read is one that is not known.
LEMMA NoneIsUnknown ==
  ASSUME HistoryInv, WindowInv, NEW m \in Markets, NEW s \in Sleeves,
         NEW length \in {Micro, Short}, NEW decision \in Decisions(s),
         TradeWindow(m, s, decision, length) = None
  PROVE  Unknown(m, s, decision, length)
<1>1. SUFFICES ASSUME ~Unknown(m, s, decision, length)
               PROVE  FALSE
  OBVIOUS
<1>2. TradeWindow(m, s, decision, length) = Cardinality(Window(m, decision, length))
  BY <1>1, KnownWindowIsExact
<1>3. Window(m, decision, length) \subseteq Trades(m) /\ IsFiniteSet(Trades(m))
  BY TradesArePart DEF Window, Trades
<1>4. Cardinality(Window(m, decision, length)) \in Nat
  BY <1>3, FS_Subset, FS_CardinalityType
<1> QED
  BY <1>2, <1>4 DEF None

LEMMA WindowsRead ==
  ASSUME HistoryInv, WindowInv
  PROVE  TradeWindowsAreExact
BY WindowIsExact DEF TradeWindowsAreExact, Window

\* A fact adds to a window no bucket but the one of its receipt, and what was
\* given up is not taken back.
LEMMA WindowGrows ==
  ASSUME WindowInv, WindowInv', NEW e \in Event, Observe(e) \/ UNCHANGED windows,
         NEW m \in Markets, NEW s \in Sleeves
  PROVE  /\ DOMAIN aggregates'[<<m, s>>] \subseteq
              DOMAIN aggregates[<<m, s>>] \cup {AggregateKey(e, s)}
         /\ aggregates_through'[<<m, s>>] >= aggregates_through[<<m, s>>]
<1> DEFINE key == <<m, s>>
           longer == Counted(aggregates[<<e.market, s>>], AggregateKey(e, s))
<1>1. key \in DOMAIN aggregates /\ key \in DOMAIN aggregates_through
  BY DEF WindowInv, Keys
<1>2. /\ aggregates_through[key] \in Nat \cup {None}
      /\ aggregates_through'[key] \in Nat \cup {None}
  BY DEF WindowInv, Keys
<1>3. CASE UNCHANGED windows
  BY <1>2, <1>3 DEF windows, None
<1>4. CASE Observe(e) /\ e.kind # "trade"
  BY <1>3, <1>4 DEF Observe
<1>5. CASE Observe(e) /\ e.kind = "trade" /\ m # e.market
  <2>1. CommitTrade(e)
    BY <1>5 DEF Observe
  <2>2. aggregates'[key] = aggregates[key] /\ aggregates_through'[key] = aggregates_through[key]
    BY <1>1, <1>5, <2>1 DEF CommitTrade
  <2> QED
    BY <1>2, <2>2 DEF None
<1>6. CASE Observe(e) /\ e.kind = "trade" /\ m = e.market
  <2>1. CommitTrade(e)
    BY <1>6 DEF Observe
  <2>2. /\ aggregates'[key] = [k \in DOMAIN longer \ Excess(longer) |-> longer[k]]
        /\ aggregates_through'[key] =
             IF Excess(longer) # {}
             THEN Max2(aggregates_through[key], (CHOOSE k \in Excess(longer) : TRUE)[1])
             ELSE aggregates_through[key]
    <3> DEFINE grown(z) == Counted(aggregates[<<e.market, z>>], AggregateKey(e, z))
               X(z) == Excess(grown(z))
               kept(z) == [k \in DOMAIN grown(z) \ X(z) |-> grown(z)[k]]
               first(z) == (CHOOSE k \in X(z) : TRUE)[1]
    <3>1. aggregates' = [k \in DOMAIN aggregates |->
                           IF k[1] = e.market THEN kept(k[2]) ELSE aggregates[k]]
      BY <2>1 DEF CommitTrade
    <3>2. aggregates_through' = [k \in DOMAIN aggregates_through |->
             IF k[1] = e.market /\ X(k[2]) # {}
             THEN Max2(aggregates_through[k], first(k[2]))
             ELSE aggregates_through[k]]
      BY <2>1 DEF CommitTrade
    <3>3. key[1] = e.market /\ key[2] = s
      BY <1>6
    <3>4. aggregates'[key] = kept(s)
      <4> HIDE DEF kept, key
      <4> QED
        BY <1>1, <3>1, <3>3
    <3>5. aggregates_through'[key] = IF X(s) # {} THEN Max2(aggregates_through[key], first(s))
                                     ELSE aggregates_through[key]
      <4> HIDE DEF X, first, key
      <4> QED
        BY <1>1, <3>2, <3>3
    <3> QED
      BY <3>4, <3>5
  <2>3. DOMAIN longer = DOMAIN aggregates[key] \cup {AggregateKey(e, s)}
    BY <1>6 DEF Counted
  <2>4. DOMAIN longer \subseteq Nat \X Nat
    BY <2>3, AggregateKeyFacts DEF WindowInv, Counts
  <2>5. CASE Excess(longer) # {}
    <3>1. (CHOOSE k \in Excess(longer) : TRUE) \in DOMAIN longer
      BY <2>5 DEF Excess
    <3>2. (CHOOSE k \in Excess(longer) : TRUE)[1] \in Nat
      BY <2>4, <3>1
    <3> QED
      BY <1>2, <2>2, <2>3, <2>5, <3>2 DEF Max2, None
  <2>6. CASE Excess(longer) = {}
    BY <1>2, <2>2, <2>3, <2>6 DEF None
  <2> QED
    BY <2>5, <2>6
<1> QED
  BY <1>3, <1>4, <1>5, <1>6

\* A window that is not known stays so when a fact comes later.
LEMMA StaysUnknown ==
  ASSUME WindowInv, WindowInv', NEW e \in Event, Observe(e) \/ UNCHANGED windows,
         NEW m \in Markets, NEW s \in Sleeves, NEW length \in {Micro, Short},
         NEW decision \in Decisions(s), decision < e.received,
         Unknown(m, s, decision, length)
  PROVE  TradeWindow(m, s, decision, length)' = None
<1> DEFINE key == <<m, s>>
           start == decision - length
<1>1. /\ decision \in Nat /\ decision % s = 0 /\ length \in Nat
  BY Lengths, FeaturesAssumption DEF Decisions
<1>2. e.received \in Nat
  BY EventFields
<1>3. ~(AggregateKey(e, s)[2] <= decision)
  <2>1. ~(e.received < decision)
    BY <1>1, <1>2
  <2> QED
    BY <1>1, <2>1, AggregateKeyFacts
<1>4. /\ DOMAIN aggregates'[key] \subseteq DOMAIN aggregates[key] \cup {AggregateKey(e, s)}
      /\ aggregates_through'[key] >= aggregates_through[key]
  BY WindowGrows
<1>5. CASE start < 0
  BY <1>5 DEF TradeWindow
<1>6. CASE aggregates_through[key] > start
  <2>1. /\ aggregates_through[key] \in Int /\ aggregates_through'[key] \in Int
    BY DEF WindowInv, Keys, None
  <2>2. aggregates_through'[key] > start
    BY <1>1, <1>4, <1>6, <2>1
  <2> QED
    BY <2>2 DEF TradeWindow
<1>7. CASE Buckets(m, s, decision, length) = {}
  <2>1. {k \in DOMAIN aggregates'[key] : k[1] > start /\ k[1] <= decision /\ k[2] <= decision} = {}
    BY <1>3, <1>4, <1>7 DEF Buckets
  <2> QED
    BY <2>1 DEF TradeWindow
<1> QED
  BY <1>5, <1>6, <1>7 DEF Unknown

\* A trade that is received later changes no window of a decision.
LEMMA WindowSettled ==
  ASSUME HistoryInv, WindowInv, HistoryInv', WindowInv',
         NEW e \in Event, Observe(e) \/ UNCHANGED windows,
         accepted' \subseteq accepted \cup {e}, accepted \subseteq accepted',
         NEW m \in Markets, NEW s \in Sleeves, NEW length \in {Micro, Short},
         NEW decision \in Decisions(s), decision < e.received
  PROVE  Kept(TradeWindow(m, s, decision, length),
              TradeWindow(m, s, decision, length)', None)
<1>1. Window(m, decision, length)' = Window(m, decision, length)
  <2>1. ~(e.received < decision)
    BY EventFields, FeaturesAssumption DEF Decisions
  <2> QED
    BY <2>1 DEF Window
<1>2. TradeWindow(m, s, decision, length) # None =>
        TradeWindow(m, s, decision, length) = Cardinality(Window(m, decision, length))
  BY WindowIsExact
<1>3. TradeWindow(m, s, decision, length)' # None =>
        TradeWindow(m, s, decision, length)' = Cardinality(Window(m, decision, length)')
  <2>1. TradeWindowsAreExact'
    BY WindowsRead, PTL
  <2> QED
    BY <2>1 DEF TradeWindowsAreExact, Window, Decisions
<1>4. TradeWindow(m, s, decision, length) = None =>
        TradeWindow(m, s, decision, length)' = None
  BY NoneIsUnknown, StaysUnknown
<1> QED
  BY <1>1, <1>2, <1>3, <1>4 DEF Kept

----------------------------------------------------------------------------
(* The boundary samples                                                    *)

Facts(kind, m) == {e \in accepted : e.kind = kind /\ e.market = m}

(* Every sample is the latest of the facts that were there at its boundary. *)
SamplesOf(F, s, w) ==
  /\ DOMAIN w \subseteq Nat /\ IsFiniteSet(DOMAIN w)
  /\ Cardinality(DOMAIN w) <= SampleLimit[s]
  /\ \A b \in DOMAIN w :
       /\ w[b] \in F /\ Available(w[b], b)
       /\ \A f \in F : Available(f, b) /\ f # w[b] => Before(f, w[b])

SampleInv ==
  /\ DOMAIN samples = Sampled \X Markets \X Sleeves
  /\ \A kind \in Sampled, m \in Markets, s \in Sleeves :
       SamplesOf(Facts(kind, m), s, samples[<<kind, m, s>>])

\* A later fact takes its place in the samples.
LEMMA RefreshKeeps ==
  ASSUME NEW F, F \subseteq Event, NEW e \in Event, Distinct(F \cup {e}),
         NEW s, NEW w, SamplesOf(F, s, w)
  PROVE  SamplesOf(F \cup {e}, s,
                   [b \in DOMAIN w |-> IF Before(w[b], e) /\ Available(e, b) THEN e ELSE w[b]])
<1> DEFINE v == [b \in DOMAIN w |-> IF Before(w[b], e) /\ Available(e, b) THEN e ELSE w[b]]
           G == F \cup {e}
<1>1. ASSUME NEW b \in DOMAIN w
      PROVE  /\ v[b] \in G /\ Available(v[b], b)
             /\ \A f \in G : Available(f, b) /\ f # v[b] => Before(f, v[b])
  <2>1. /\ w[b] \in F /\ Available(w[b], b)
        /\ \A f \in F : Available(f, b) /\ f # w[b] => Before(f, w[b])
    BY DEF SamplesOf
  <2>2. CASE Before(w[b], e) /\ Available(e, b)
    <3>1. v[b] = e
      BY <2>2
    <3>2. ASSUME NEW f \in F, Available(f, b)
          PROVE  Before(f, e)
      <4>1. f = w[b] \/ Before(f, w[b])
        BY <2>1, <3>2
      <4>2. f \in Event /\ w[b] \in Event
        BY <2>1
      <4> QED
        BY <2>2, <4>1, <4>2, BeforeTransitive
    <3> QED
      BY <2>2, <3>1, <3>2
  <2>3. CASE ~(Before(w[b], e) /\ Available(e, b))
    <3>1. v[b] = w[b]
      BY <2>3
    <3>2. ASSUME Available(e, b), e # w[b]
          PROVE  Before(e, w[b])
      <4>1. Identity(e) # Identity(w[b]) /\ w[b] \in Event
        BY <2>1, <3>2 DEF Distinct
      <4> QED
        BY <2>3, <3>2, <4>1, BeforeTotal
    <3> QED
      BY <2>1, <3>1, <3>2
  <2> QED
    BY <2>2, <2>3
<1>2. DOMAIN v = DOMAIN w
  OBVIOUS
<1> HIDE DEF v
<1> QED
  BY <1>1, <1>2 DEF SamplesOf, v

(* Boundaries are in order. *)
TimeOrder(S) == {p \in S \X S : p[1] < p[2]}

LEMMA FirstTime ==
  ASSUME NEW S, S \subseteq Nat, IsFiniteSet(S), S # {}
  PROVE  \E x \in S : {b \in S : \A c \in S : b <= c} = {x}
<1>1. \A x, y \in S : <<x, y>> \in TimeOrder(S) <=> x < y
  BY DEF TimeOrder
<1>2. Orders(TimeOrder(S), S)
  BY <1>1 DEF Orders
<1>3. PICK x \in S : \A y \in S \ {x} : <<x, y>> \in TimeOrder(S)
  BY <1>2, FirstExists
<1>4. \A y \in S : x <= y
  <2>1. \A y \in S : y # x => x < y
    BY <1>1, <1>3
  <2>2. x \in Nat
    OBVIOUS
  <2> QED
    BY <2>1, <2>2
<1>5. \A b \in S : (\A c \in S : b <= c) => b = x
  BY <1>4
<1>6. {b \in S : \A c \in S : b <= c} = {x}
  BY <1>4, <1>5
<1> QED
  BY <1>6

\* A boundary more samples the latest fact.
LEMMA SamplingKeeps ==
  ASSUME NEW F, NEW s \in Sleeves, NEW w, SamplesOf(F, s, w),
         NEW b0 \in Nat, NEW e \in F, Available(e, b0),
         \A f \in F : Available(f, b0) /\ f # e => Before(f, e)
  PROVE  SamplesOf(F, s, Sampling(w, s, b0, e))
<1> DEFINE D == DOMAIN w \cup {b0}
           longer == [b \in DOMAIN w \cup {b0} |-> IF b = b0 THEN e ELSE w[b]]
           first == IF Cardinality(DOMAIN longer) > SampleLimit[s]
                    THEN {b \in DOMAIN longer : \A c \in DOMAIN longer : b <= c}
                    ELSE {}
           v == [b \in DOMAIN longer \ first |-> longer[b]]
<1>1. /\ DOMAIN w \subseteq Nat /\ IsFiniteSet(DOMAIN w)
      /\ Cardinality(DOMAIN w) <= SampleLimit[s]
      /\ \A b \in DOMAIN w :
           /\ w[b] \in F /\ Available(w[b], b)
           /\ \A f \in F : Available(f, b) /\ f # w[b] => Before(f, w[b])
  BY DEF SamplesOf
<1>2. Sampling(w, s, b0, e) = w \/ Sampling(w, s, b0, e) = v
  BY DEF Sampling
<1>3. SampleLimit[s] \in Nat
  BY FeaturesAssumption
<1>4. /\ DOMAIN longer = D /\ D \subseteq Nat /\ IsFiniteSet(D) /\ D # {}
      /\ Cardinality(D) \in Nat /\ Cardinality(D) <= SampleLimit[s] + 1
  <2>1. IsFiniteSet(D) /\ Cardinality(DOMAIN w) \in Nat
    BY <1>1, FS_AddElement, FS_CardinalityType
  <2>2. Cardinality(D) = Cardinality(DOMAIN w) \/ Cardinality(D) = Cardinality(DOMAIN w) + 1
    BY <1>1, FS_AddElement
  <2>3. DOMAIN longer = D /\ D \subseteq Nat /\ D # {}
    BY <1>1
  <2> HIDE DEF D, longer
  <2> QED
    BY <1>1, <1>3, <2>1, <2>2, <2>3
<1>5. DOMAIN v = D \ first /\ \A b \in DOMAIN v : v[b] = IF b = b0 THEN e ELSE w[b]
  OBVIOUS
<1>6. IsFiniteSet(D \ first) /\ Cardinality(D \ first) <= SampleLimit[s]
  <2>1. CASE ~(Cardinality(D) > SampleLimit[s])
    <3>1. D \ first = D
      BY <1>4, <2>1
    <3> HIDE DEF D, first
    <3> QED
      BY <1>3, <1>4, <2>1, <3>1
  <2>2. CASE Cardinality(D) > SampleLimit[s]
    <3>1. first = {b \in D : \A c \in D : b <= c}
      BY <1>4, <2>2
    <3> HIDE DEF D, first
    <3>2. PICK x \in D : first = {x}
      <4>1. \E x \in D : {b \in D : \A c \in D : b <= c} = {x}
        <5>1. D \subseteq Nat /\ IsFiniteSet(D) /\ D # {}
          BY <1>4
        <5> QED
          BY ONLY <5>1, FirstTime
      <4> QED
        BY <3>1, <4>1
    <3>3. IsFiniteSet(D \ {x}) /\ Cardinality(D \ {x}) = Cardinality(D) - 1
      BY <1>4, <3>2, FS_RemoveElement
    <3> QED
      BY <1>3, <1>4, <3>2, <3>3
  <2> QED
    BY <2>1, <2>2
<1>7. ASSUME NEW b \in DOMAIN v
      PROVE  /\ v[b] \in F /\ Available(v[b], b)
             /\ \A f \in F : Available(f, b) /\ f # v[b] => Before(f, v[b])
  <2>1. CASE b = b0
    BY <1>5, <2>1
  <2>2. CASE b # b0
    <3>1. b \in DOMAIN w /\ v[b] = w[b]
      BY <1>5, <2>2
    <3> QED
      BY <1>1, <3>1
  <2> QED
    BY <2>1, <2>2
<1>8. SamplesOf(F, s, v)
  <2>1. DOMAIN v \subseteq Nat
    BY <1>4, <1>5
  <2> HIDE DEF v, first, D, longer
  <2> QED
    BY <1>5, <1>6, <1>7, <2>1 DEF SamplesOf
<1> QED
  BY <1>2, <1>8

LEMMA SampleKeys ==
  ASSUME NEW key \in Sampled \X Markets \X Sleeves
  PROVE  /\ key = <<key[1], key[2], key[3]>>
         /\ key[1] \in Sampled /\ key[2] \in Markets /\ key[3] \in Sleeves
OBVIOUS

LEMMA FactsArePart ==
  ASSUME HistoryInv, NEW kind, NEW m
  PROVE  /\ Facts(kind, m) \subseteq accepted /\ Facts(kind, m) \subseteq Event
         /\ Distinct(Facts(kind, m))
<1>1. Facts(kind, m) \subseteq accepted
  BY DEF Facts
<1> QED
  BY <1>1, PartOfAccepted

\* A fact keeps the samples.
LEMMA ObserveKeepsSamples ==
  ASSUME HistoryInv, SampleInv, NEW e \in Event, Observe(e)
  PROVE  SampleInv'
<1>1. /\ e \notin accepted /\ accepted' = accepted \cup {e} /\ Distinct(accepted \cup {e})
  BY ObservedIsNew
<1>2. samples' = IF e.kind \in Sampled THEN Refreshed(e) ELSE samples
  BY DEF Observe
<1>3. \A kind, m : Facts(kind, m)' = IF kind = e.kind /\ m = e.market
                                     THEN Facts(kind, m) \cup {e} ELSE Facts(kind, m)
  BY <1>1 DEF Facts
<1>4. DOMAIN samples = Sampled \X Markets \X Sleeves
  BY DEF SampleInv
<1>5. DOMAIN samples' = Sampled \X Markets \X Sleeves
  BY <1>2, <1>4 DEF Refreshed
<1>6. ASSUME NEW kind \in Sampled, NEW m \in Markets, NEW s \in Sleeves
      PROVE  SamplesOf(Facts(kind, m)', s, samples'[<<kind, m, s>>])
  <2> DEFINE key == <<kind, m, s>>
             w == samples[key]
             F == Facts(kind, m)
  <2>1. key \in DOMAIN samples /\ key[1] = kind /\ key[2] = m
    BY <1>4
  <2>2. SamplesOf(F, s, w)
    BY DEF SampleInv
  <2>3. CASE kind = e.kind /\ m = e.market
    <3>1. samples'[key] = [b \in DOMAIN w |-> IF Before(w[b], e) /\ Available(e, b)
                                              THEN e ELSE w[b]]
      BY <1>2, <2>1, <2>3 DEF Refreshed
    <3>2. F \subseteq Event /\ Distinct(F \cup {e})
      BY <1>1, FactsArePart DEF Distinct
    <3>3. Facts(kind, m)' = F \cup {e}
      BY <1>3, <2>3
    <3> HIDE DEF F, w, key
    <3>4. SamplesOf(F \cup {e}, s, [b \in DOMAIN w |-> IF Before(w[b], e) /\ Available(e, b)
                                                       THEN e ELSE w[b]])
      BY <2>2, <3>2, RefreshKeeps
    <3> QED
      BY <3>1, <3>3, <3>4 DEF key
  <2>4. CASE ~(kind = e.kind /\ m = e.market)
    <3>1. samples'[key] = w
      BY <1>2, <2>1, <2>4 DEF Refreshed
    <3>2. Facts(kind, m)' = F
      BY <1>3, <2>4
    <3> QED
      BY <2>2, <3>1, <3>2
  <2> QED
    BY <2>3, <2>4
<1>7. SampleInv' = /\ DOMAIN samples' = Sampled \X Markets \X Sleeves
                   /\ \A kind \in Sampled, m \in Markets, s \in Sleeves :
                        SamplesOf(Facts(kind, m)', s, samples'[<<kind, m, s>>])
  BY DEF SampleInv, SamplesOf, Available, Before, Identity, Sampled
<1> QED
  BY <1>5, <1>6, <1>7

\* A candle keeps the samples.
LEMMA ResampleKeeps ==
  ASSUME HistoryInv, SampleInv, NEW c, c.close \in Nat, samples' = Resampled(c),
         UNCHANGED accepted
  PROVE  SampleInv'
<1>1. DOMAIN samples = Sampled \X Markets \X Sleeves
  BY DEF SampleInv
<1>2. DOMAIN samples' = Sampled \X Markets \X Sleeves
  BY <1>1 DEF Resampled
<1>3. ASSUME NEW kind \in Sampled, NEW m \in Markets, NEW s \in Sleeves
      PROVE  SamplesOf(Facts(kind, m)', s, samples'[<<kind, m, s>>])
  <2> DEFINE key == <<kind, m, s>>
             w == samples[key]
             F == Facts(kind, m)
             A == Retained(kind, c.market, c.close)
             L == Latest(A, Before)
  <2>1. key \in DOMAIN samples /\ key[1] = kind /\ key[2] = m /\ key[3] = s
    BY <1>1
  <2>2. SamplesOf(F, s, w) /\ Facts(kind, m)' = F
    BY DEF SampleInv, Facts
  <2>3. samples'[key] = IF m = c.market /\ s = c.sleeve /\ L # {}
                        THEN Sampling(w, s, c.close, CHOOSE e \in L : TRUE)
                        ELSE w
    <3>1. samples'[key] = IF key[2] = c.market /\ key[3] = c.sleeve /\ L # {}
                          THEN Sampling(w, c.sleeve, c.close, CHOOSE e \in L : TRUE)
                          ELSE w
      BY <2>1 DEF Resampled, Retained
    <3> HIDE DEF L, w, key
    <3> QED
      BY <2>1, <3>1
  <2>4. CASE m = c.market /\ s = c.sleeve /\ L # {}
    <3> DEFINE e == CHOOSE e \in L : TRUE
    <3>1. e \in L
      BY <2>4
    <3>2. /\ A \subseteq All(kind, m, c.close) /\ A # {}
          /\ L = Latest(All(kind, m, c.close), Before)
      <4>1. A # {}
        BY <2>4 DEF Latest
      <4> QED
        BY <2>4, <4>1, RetainedLatest
    <3>3. e \in All(kind, m, c.close)
          /\ \A f \in All(kind, m, c.close) : f # e => Before(f, e)
      BY <3>1, <3>2 DEF Latest
    <3>4. All(kind, m, c.close) = {f \in F : Available(f, c.close)}
      BY DEF All, Facts
    <3>5. /\ e \in F /\ Available(e, c.close)
          /\ \A f \in F : Available(f, c.close) /\ f # e => Before(f, e)
      BY <3>3, <3>4
    <3>6. samples'[key] = Sampling(w, s, c.close, e)
      BY <2>3, <2>4
    <3> HIDE DEF e, F, w, key
    <3>7. SamplesOf(F, s, Sampling(w, s, c.close, e))
      BY <2>2, <3>5, SamplingKeeps
    <3> QED
      BY <2>2, <3>6, <3>7 DEF key
  <2>5. CASE ~(m = c.market /\ s = c.sleeve /\ L # {})
    BY <2>2, <2>3, <2>5
  <2> QED
    BY <2>4, <2>5
<1>4. SampleInv' = /\ DOMAIN samples' = Sampled \X Markets \X Sleeves
                   /\ \A kind \in Sampled, m \in Markets, s \in Sleeves :
                        SamplesOf(Facts(kind, m)', s, samples'[<<kind, m, s>>])
  BY DEF SampleInv, SamplesOf, Available, Before, Identity, Sampled
<1> QED
  BY <1>2, <1>3, <1>4

LEMMA SamplesRead ==
  ASSUME HistoryInv, SampleInv
  PROVE  SamplesAreLatest
<1> SUFFICES ASSUME NEW m \in Markets, NEW s \in Sleeves, NEW kind \in Sampled,
                    NEW b \in Receipts, SampleAt(kind, m, s, b) # {}
             PROVE  SampleAt(kind, m, s, b) = Then(kind, m, b)
  BY DEF SamplesAreLatest
<1> DEFINE w == samples[<<kind, m, s>>]
           B == All(kind, m, b)
<1>1. /\ b \in DOMAIN w /\ SampleAt(kind, m, s, b) = {w[b]}
  BY DEF SampleAt
<1>2. /\ w[b] \in Facts(kind, m) /\ Available(w[b], b)
      /\ \A f \in Facts(kind, m) : Available(f, b) /\ f # w[b] => Before(f, w[b])
  BY <1>1 DEF SampleInv, SamplesOf
<1>3. w[b] \in B /\ \A f \in B \ {w[b]} : Before(f, w[b])
  BY <1>2 DEF All, Facts
<1>4. B \subseteq Event /\ Distinct(B)
  <2>1. B \subseteq accepted
    BY DEF All
  <2> QED
    BY <2>1, PartOfAccepted
<1>5. Then(kind, m, b) = Latest(B, Before)
  BY DEF Then, All
<1>6. Latest(B, Before) = {w[b]}
  <2>1. w[b] \in Latest(B, Before)
    BY <1>3 DEF Latest
  <2> HIDE DEF B, w
  <2> QED
    BY <1>4, <2>1, LatestIsOne
<1> QED
  BY <1>1, <1>5, <1>6

\* A fact received later changes no sample of a decision.
LEMMA SampleSettled ==
  ASSUME HistoryInv, SampleInv, HistoryInv', SampleInv',
         NEW e \in Event, accepted' \subseteq accepted \cup {e}, accepted \subseteq accepted',
         NEW m \in Markets, NEW s \in Sleeves, NEW kind \in Sampled \cap Kinds,
         NEW b \in Receipts, b < e.received
  PROVE  Settled(SampleAt(kind, m, s, b), SampleAt(kind, m, s, b)', {})
<1>1. Then(kind, m, b)' = Then(kind, m, b)
  <2>1. ~Available(e, b)
    BY EventFields, FeaturesAssumption DEF Available
  <2>2. {f \in accepted' : f.kind = kind /\ f.market = m /\ Available(f, b)}
          = {f \in accepted : f.kind = kind /\ f.market = m /\ Available(f, b)}
    BY <2>1
  <2>3. Then(kind, m, b)' =
          Latest({f \in accepted' : f.kind = kind /\ f.market = m /\ Available(f, b)}, Before)
    BY DEF Then, Latest, Before, Available
  <2> QED
    BY <2>2, <2>3 DEF Then
<1>2. SampleAt(kind, m, s, b) = {} \/ SampleAt(kind, m, s, b) = Then(kind, m, b)
  BY SamplesRead DEF SamplesAreLatest
<1>3. SampleAt(kind, m, s, b)' = {} \/ SampleAt(kind, m, s, b)' = Then(kind, m, b)'
  <2>1. SamplesAreLatest'
    BY SamplesRead, PTL
  <2> QED
    BY <2>1 DEF SamplesAreLatest, Sampled
<1> QED
  BY <1>1, <1>2, <1>3 DEF Settled, Kept

----------------------------------------------------------------------------
(* The candles                                                             *)

DistinctBars(S) == \A c, d \in S : SameBar(c, d) => c = d

AllCandles == finalized_candles \cup UNION {candles[key] : key \in Keys}

ShelfInv ==
  /\ DOMAIN candles = Keys
  /\ candles_through \in [Keys -> Nat \cup {None}]
  /\ \A key \in Keys :
       /\ candles[key] \subseteq Candle /\ IsFiniteSet(candles[key])
       /\ Cardinality(candles[key]) <= CandleLimit[key[2]]
       /\ \A c \in candles[key] : c.market = key[1] /\ c.sleeve = key[2]
  /\ finalized_candles \subseteq Candle /\ IsFiniteSet(finalized_candles)
  /\ Cardinality(finalized_candles) <= CandleHorizon
  /\ DistinctBars(AllCandles)

LEMMA CandleFields ==
  ASSUME NEW c \in Candle
  PROVE  /\ c.market \in Markets /\ c.market \in Nat
         /\ c.sleeve \in Sleeves /\ c.sleeve \in Nat \ {0}
         /\ c.close \in Nat
<1>1. c.market \in Markets /\ c.sleeve \in Sleeves /\ c.close \in Nat
  BY DEF Candle
<1> QED
  BY <1>1, Lengths, FeaturesAssumption

(* The opening of one candle is behind that of another, or its market or
   its sleeve is. *)
OpensAfter(d, c) ==
  \/ d.close - d.sleeve > c.close - c.sleeve
  \/ d.close - d.sleeve = c.close - c.sleeve /\ d.market > c.market
  \/ d.close - d.sleeve = c.close - c.sleeve /\ d.market = c.market
       /\ d.sleeve > c.sleeve

CandlePairs(S) == {p \in S \X S : OpensAfter(p[2], p[1])}

LEMMA CandlesOrdered ==
  ASSUME NEW S, S \subseteq Candle, DistinctBars(S)
  PROVE  /\ Orders(CandlePairs(S), S)
         /\ \A x, y \in S : <<x, y>> \in CandlePairs(S) <=> OpensAfter(y, x)
<1>1. \A x, y \in S : <<x, y>> \in CandlePairs(S) <=> OpensAfter(y, x)
  BY DEF CandlePairs
<1>2. \A x \in S : x.market \in Nat /\ x.sleeve \in Nat /\ x.close \in Nat
  BY CandleFields
<1>3. \A x \in S : ~OpensAfter(x, x)
  BY <1>2 DEF OpensAfter
<1>4. \A x, y, z \in S : OpensAfter(y, x) /\ OpensAfter(z, y) => OpensAfter(z, x)
  BY <1>2 DEF OpensAfter
<1>5. \A x, y \in S : x # y => OpensAfter(y, x) \/ OpensAfter(x, y)
  <2> SUFFICES ASSUME NEW x \in S, NEW y \in S, ~OpensAfter(y, x), ~OpensAfter(x, y)
               PROVE  x = y
    OBVIOUS
  <2>1. x.close - x.sleeve = y.close - y.sleeve
    BY <1>2 DEF OpensAfter
  <2>2. x.market = y.market
    BY <1>2, <2>1 DEF OpensAfter
  <2>3. x.sleeve = y.sleeve
    BY <1>2, <2>1, <2>2 DEF OpensAfter
  <2>4. x.close = y.close
    BY <1>2, <2>1, <2>3
  <2> QED
    BY <2>2, <2>3, <2>4 DEF DistinctBars, SameBar
<1> QED
  BY <1>1, <1>3, <1>4, <1>5 DEF Orders

\* The newest candles are no more than the horizon keeps.
LEMMA NewestCandlesBounded ==
  ASSUME NEW S, S \subseteq Candle, DistinctBars(S), IsFiniteSet(S)
  PROVE  /\ NewestCandles(S) \subseteq S /\ IsFiniteSet(NewestCandles(S))
         /\ Cardinality(NewestCandles(S)) <= CandleHorizon
<1>1. /\ Orders(CandlePairs(S), S)
      /\ \A x, y \in S : <<x, y>> \in CandlePairs(S) <=> OpensAfter(y, x)
  BY CandlesOrdered
<1>2. NewestCandles(S) = {x \in S : Cardinality({y \in S : <<x, y>> \in CandlePairs(S)})
                                      < CandleHorizon}
  <2>1. \A x \in S : {y \in S : <<x, y>> \in CandlePairs(S)} = {y \in S : OpensAfter(y, x)}
    BY <1>1
  <2>2. NewestCandles(S) = {x \in S : Cardinality({y \in S : OpensAfter(y, x)})
                                        < CandleHorizon}
    BY DEF NewestCandles, OpensAfter
  <2> QED
    BY <2>1, <2>2
<1>3. CandleHorizon \in Nat
  BY FeaturesAssumption
<1> QED
  BY <1>1, <1>2, <1>3, AtMost

(* The candles of a shelf by their closes. *)
ClosePairs(S) == {p \in S \X S : Closed(p[1], p[2])}

DistinctCloses(S) == \A c, d \in S : c.close = d.close => c = d

LEMMA ClosesOrdered ==
  ASSUME NEW S, S \subseteq Candle, DistinctCloses(S)
  PROVE  /\ Orders(ClosePairs(S), S)
         /\ \A x, y \in S : <<x, y>> \in ClosePairs(S) <=> Closed(x, y)
<1>1. \A x, y \in S : <<x, y>> \in ClosePairs(S) <=> Closed(x, y)
  BY DEF ClosePairs
<1>2. \A x \in S : x.close \in Nat
  BY CandleFields
<1>3. \A x, y \in S : x # y => Closed(x, y) \/ Closed(y, x)
  BY <1>2 DEF Closed, DistinctCloses
<1>4. /\ \A x \in S : ~Closed(x, x)
      /\ \A x, y, z \in S : Closed(x, y) /\ Closed(y, z) => Closed(x, z)
  BY <1>2 DEF Closed
<1> QED
  BY <1>1, <1>3, <1>4 DEF Orders

\* A shelf that is too long gives up one candle.
LEMMA SurplusFacts ==
  ASSUME NEW S, S \subseteq Candle, IsFiniteSet(S), DistinctCloses(S), NEW s \in Sleeves,
         Cardinality(S) <= CandleLimit[s] + 1
  PROVE  /\ IsFiniteSet(S \ Surplus(S, s))
         /\ Cardinality(S \ Surplus(S, s)) <= CandleLimit[s]
         /\ \/ Surplus(S, s) = {}
            \/ \E d \in S : Surplus(S, s) = {d}
<1>1. CandleLimit[s] \in Nat /\ Cardinality(S) \in Nat
  BY FeaturesAssumption, FS_CardinalityType
<1>2. CASE ~(Cardinality(S) > CandleLimit[s])
  <2>1. Surplus(S, s) = {}
    BY <1>2 DEF Surplus
  <2>2. S \ Surplus(S, s) = S
    BY <2>1
  <2> QED
    BY <1>1, <1>2, <2>1, <2>2
<1>3. CASE Cardinality(S) > CandleLimit[s]
  <2>1. /\ Orders(ClosePairs(S), S)
        /\ \A x, y \in S : <<x, y>> \in ClosePairs(S) <=> Closed(x, y)
    BY ClosesOrdered
  <2>2. S # {}
    BY <1>1, <1>3, FS_EmptySet
  <2>3. PICK x \in S : \A y \in S \ {x} : <<x, y>> \in ClosePairs(S)
    BY <2>1, <2>2, FirstExists
  <2>4. \A y \in S \ {x} : Closed(x, y)
    BY <2>1, <2>3
  <2>5. Surplus(S, s) = {d \in S : \A y \in S \ {d} : Closed(d, y)}
    BY <1>3 DEF Surplus
  <2>6. \A d \in S : (\A y \in S \ {d} : Closed(d, y)) => d = x
    <3> SUFFICES ASSUME NEW d \in S, Closed(d, x), Closed(x, d)
                 PROVE  FALSE
      BY <2>4
    <3> QED
      BY CandleFields DEF Closed
  <2>7. Surplus(S, s) = {x}
    BY <2>4, <2>5, <2>6
  <2>8. IsFiniteSet(S \ {x}) /\ Cardinality(S \ {x}) = Cardinality(S) - 1
    BY <2>3, FS_RemoveElement
  <2>9. Cardinality(S \ {x}) <= CandleLimit[s]
    BY <1>1, <2>8
  <2> QED
    BY <2>3, <2>7, <2>8, <2>9
<1> QED
  BY <1>2, <1>3

\* A candle keeps the shelves.
LEMMA CandleKeepsShelves ==
  ASSUME ShelfInv, NEW c \in Candle, NEW shelf, NEW first, NEW key,
         key = <<c.market, c.sleeve>>, shelf = candles[key] \cup {c},
         first = Surplus(shelf, c.sleeve), Stored(c) = {},
         candles' = [candles EXCEPT ![key] = shelf \ first],
         candles_through' = [candles_through EXCEPT ![key] =
                   IF first = {} THEN @ ELSE Max2(@, (CHOOSE d \in first : TRUE).close)],
         finalized_candles' = NewestCandles(finalized_candles \cup first)
  PROVE  ShelfInv'
<1>1. /\ key \in Keys /\ key[1] = c.market /\ key[2] = c.sleeve /\ c.sleeve \in Sleeves
  BY CandleFields DEF Keys
<1>2. /\ candles[key] \subseteq Candle /\ IsFiniteSet(candles[key])
      /\ Cardinality(candles[key]) <= CandleLimit[c.sleeve]
      /\ \A d \in candles[key] : d.market = key[1] /\ d.sleeve = key[2]
  BY <1>1 DEF ShelfInv
<1>3. \A d \in finalized_candles \cup candles[key] : ~SameBar(c, d)
  BY DEF Stored
<1>4. shelf \subseteq Candle /\ IsFiniteSet(shelf)
  BY <1>2, FS_AddElement
<1>5. Cardinality(shelf) <= CandleLimit[c.sleeve] + 1
  <2>1. Cardinality(candles[key]) \in Nat /\ CandleLimit[c.sleeve] \in Nat
    BY <1>1, <1>2, FS_CardinalityType, FeaturesAssumption
  <2>2. Cardinality(shelf) = Cardinality(candles[key])
        \/ Cardinality(shelf) = Cardinality(candles[key]) + 1
    BY <1>2, FS_AddElement
  <2>3. Cardinality(candles[key]) <= CandleLimit[c.sleeve]
    BY <1>2
  <2>4. \A n, l \in Nat : n <= l => n <= l + 1 /\ n + 1 <= l + 1
    OBVIOUS
  <2> QED
    BY ONLY <2>1, <2>2, <2>3, <2>4
<1>6. \A x \in AllCandles : ~SameBar(c, x) /\ ~SameBar(x, c)
  <2>1. ASSUME NEW x \in AllCandles, SameBar(c, x) \/ SameBar(x, c)
        PROVE  FALSE
    <3>1. SameBar(c, x)
      BY <2>1 DEF SameBar
    <3>2. CASE x \in finalized_candles
      BY <1>3, <3>1, <3>2
    <3>3. CASE x \notin finalized_candles
      <4>1. PICK k \in Keys : x \in candles[k]
        BY <3>3 DEF AllCandles
      <4>2. x.market = k[1] /\ x.sleeve = k[2] /\ k = <<k[1], k[2]>>
        BY <4>1 DEF ShelfInv, Keys
      <4>3. k = key
        BY <3>1, <4>2 DEF SameBar
      <4> QED
        BY <1>3, <3>1, <4>1, <4>3
    <3> QED
      BY <3>2, <3>3
  <2> QED
    BY <2>1
<1>7. candles[key] \subseteq AllCandles /\ finalized_candles \subseteq AllCandles
  BY <1>1 DEF AllCandles
<1>8. DistinctBars(AllCandles \cup {c})
  BY <1>6 DEF DistinctBars, ShelfInv
<1>9. shelf \subseteq AllCandles \cup {c} /\ finalized_candles \cup shelf \subseteq AllCandles \cup {c}
  BY <1>7
<1>10. DistinctCloses(shelf)
  <2>1. \A x \in shelf : x.market = c.market /\ x.sleeve = c.sleeve
    BY <1>1, <1>2
  <2> QED
    BY <1>8, <1>9, <2>1 DEF DistinctBars, DistinctCloses, SameBar
<1>11. /\ IsFiniteSet(shelf \ first) /\ Cardinality(shelf \ first) <= CandleLimit[c.sleeve]
       /\ first = {} \/ \E d \in shelf : first = {d}
  BY <1>1, <1>4, <1>5, <1>10, SurplusFacts
<1>12. IsFiniteSet(finalized_candles \cup first)
  <2>1. CASE first = {}
    BY <2>1 DEF ShelfInv
  <2>2. CASE first # {}
    <3>1. PICK d \in shelf : first = {d}
      BY <1>11, <2>2
    <3> QED
      BY <3>1, FS_AddElement DEF ShelfInv
  <2> QED
    BY <2>1, <2>2
<1>13. first \subseteq shelf
  BY <1>11
<1>14. /\ finalized_candles' \subseteq finalized_candles \cup first
       /\ IsFiniteSet(finalized_candles') /\ Cardinality(finalized_candles') <= CandleHorizon
       /\ finalized_candles' \subseteq Candle
  <2>1. finalized_candles \cup first \subseteq Candle
    BY <1>4, <1>13 DEF ShelfInv
  <2>2. DistinctBars(finalized_candles \cup first)
    BY <1>8, <1>9, <1>13 DEF DistinctBars
  <2> QED
    BY <1>12, <2>1, <2>2, NewestCandlesBounded
<1>15. /\ DOMAIN candles' = Keys /\ candles'[key] = shelf \ first
       /\ \A k \in Keys : k # key => candles'[k] = candles[k]
  BY <1>1 DEF ShelfInv
<1>16. ASSUME NEW k \in Keys
       PROVE  /\ candles'[k] \subseteq Candle /\ IsFiniteSet(candles'[k])
              /\ Cardinality(candles'[k]) <= CandleLimit[k[2]]
              /\ \A d \in candles'[k] : d.market = k[1] /\ d.sleeve = k[2]
              /\ candles'[k] \subseteq AllCandles \cup {c}
  <2>1. CASE k = key
    <3>1. candles'[k] = shelf \ first
      BY <1>15, <2>1
    <3>2. \A d \in shelf : d.market = key[1] /\ d.sleeve = key[2]
      BY <1>1, <1>2
    <3> QED
      BY <1>1, <1>4, <1>9, <1>11, <2>1, <3>1, <3>2
  <2>2. CASE k # key
    <3>1. candles'[k] = candles[k] /\ candles[k] \subseteq AllCandles
      BY <1>15, <2>2 DEF AllCandles
    <3> QED
      BY <3>1 DEF ShelfInv
  <2> QED
    BY <2>1, <2>2
<1>17. AllCandles' \subseteq AllCandles \cup {c}
  <2>1. finalized_candles' \subseteq AllCandles \cup {c}
    BY <1>9, <1>13, <1>14
  <2>2. AllCandles' = finalized_candles' \cup UNION {candles'[k] : k \in Keys}
    BY DEF AllCandles, Keys
  <2>3. ASSUME NEW x \in AllCandles'
        PROVE  x \in AllCandles \cup {c}
    <3>1. CASE x \in finalized_candles'
      BY <2>1, <3>1
    <3>2. CASE x \notin finalized_candles'
      <4>1. PICK k \in Keys : x \in candles'[k]
        BY <2>2, <3>2
      <4> QED
        BY <1>16, <4>1
    <3> QED
      BY <3>1, <3>2
  <2> QED
    BY <2>3
<1>18. DistinctBars(AllCandles')
  BY <1>8, <1>17 DEF DistinctBars
<1>19. candles_through' \in [Keys -> Nat \cup {None}]
  <2> DEFINE old == candles_through[key]
             new == IF first = {} THEN old ELSE Max2(old, (CHOOSE d \in first : TRUE).close)
  <2>1. candles_through' = [candles_through EXCEPT ![key] = new]
    OBVIOUS
  <2>2. candles_through \in [Keys -> Nat \cup {None}] /\ old \in Nat \cup {None}
    BY <1>1 DEF ShelfInv
  <2>3. new \in Nat \cup {None}
    <3>1. CASE first = {}
      BY <2>2, <3>1
    <3>2. CASE first # {}
      <4>1. (CHOOSE d \in first : TRUE) \in first
        BY <3>2
      <4>2. (CHOOSE d \in first : TRUE).close \in Nat
        BY <1>4, <1>13, <4>1, CandleFields
      <4>3. Max2(old, (CHOOSE d \in first : TRUE).close) \in Nat \cup {None}
        BY <2>2, <4>2 DEF Max2
      <4> QED
        BY <3>2, <4>3
    <3> QED
      BY <3>1, <3>2
  <2> HIDE DEF old, new
  <2> QED
    BY <2>1, <2>2, <2>3
<1>20. ShelfInv' = /\ DOMAIN candles' = Keys
                   /\ candles_through' \in [Keys -> Nat \cup {None}]
                   /\ \A k \in Keys :
                        /\ candles'[k] \subseteq Candle /\ IsFiniteSet(candles'[k])
                        /\ Cardinality(candles'[k]) <= CandleLimit[k[2]]
                        /\ \A d \in candles'[k] : d.market = k[1] /\ d.sleeve = k[2]
                   /\ finalized_candles' \subseteq Candle /\ IsFiniteSet(finalized_candles')
                   /\ Cardinality(finalized_candles') <= CandleHorizon
                   /\ DistinctBars(AllCandles')
  BY DEF ShelfInv, Keys, Candle, DistinctBars, SameBar
<1> QED
  BY <1>14, <1>15, <1>16, <1>18, <1>19, <1>20

(* The last candles of a history of them. *)
LastOf(S) == {c \in S : Cardinality({d \in S : Closed(c, d)}) < Lookback}

\* A last candle of each bar looked back on, and there is no other last one.
LEMMA TailIsContiguous ==
  ASSUME NEW S, S \subseteq Candle, IsFiniteSet(S), DistinctCloses(S),
         NEW at, \A n, k \in 0 .. Lookback - 1 : at[n] = at[k] => n = k,
         \A n \in 0 .. Lookback - 1 : \E c \in LastOf(S) : c.close = at[n]
  PROVE  \A c \in S : c \in LastOf(S) <=> \E n \in 0 .. Lookback - 1 : c.close = at[n]
<1> DEFINE T == LastOf(S)
           N == 0 .. Lookback - 1
<1>1. Lookback \in Nat \ {0}
  BY FeaturesAssumption
<1>2. /\ Orders(ClosePairs(S), S)
      /\ \A x, y \in S : <<x, y>> \in ClosePairs(S) <=> Closed(x, y)
  BY ClosesOrdered
<1>3. T = {x \in S : Cardinality({y \in S : <<x, y>> \in ClosePairs(S)}) < Lookback}
  <2>1. \A x \in S : {y \in S : <<x, y>> \in ClosePairs(S)} = {y \in S : Closed(x, y)}
    BY <1>2
  <2> QED
    BY <2>1 DEF LastOf
<1>4. IsFiniteSet(T) /\ Cardinality(T) <= Lookback /\ Cardinality(T) \in Nat
  <2>1. IsFiniteSet(S) /\ Orders(ClosePairs(S), S) /\ Lookback \in Nat
    BY <1>1, <1>2
  <2>2. LET U == {x \in S : Cardinality({y \in S : <<x, y>> \in ClosePairs(S)}) < Lookback}
        IN  IsFiniteSet(U) /\ Cardinality(U) <= Lookback
    BY ONLY <2>1, AtMost
  <2>3. IsFiniteSet(T) /\ Cardinality(T) <= Lookback
    BY ONLY <1>3, <2>2
  <2> QED
    BY ONLY <2>3, FS_CardinalityType
<1>5. IsFiniteSet(N) /\ Cardinality(N) = Lookback
  BY ONLY <1>1, FS_Interval
<1>6. T \subseteq S
  BY DEF LastOf
<1>7. ASSUME NEW c \in T, \A n \in N : c.close # at[n]
      PROVE  FALSE
  <2> DEFINE f == [n \in N |-> CHOOSE x \in T : x.close = at[n]]
  <2>1. \A n \in N : f[n] \in T /\ f[n].close = at[n]
    OBVIOUS
  <2>2. f \in [N -> T \ {c}]
    BY <1>7, <2>1
  <2>3. IsFiniteSet(T \ {c}) /\ Cardinality(T \ {c}) = Cardinality(T) - 1
    BY <1>4, FS_RemoveElement
  <2>4. Cardinality(T \ {c}) < Cardinality(N)
    BY <1>1, <1>4, <1>5, <2>3
  <2>5. PICK x, y \in N : x # y /\ f[x] = f[y]
    <3> HIDE DEF f, T, N
    <3> QED
      BY <1>5, <2>2, <2>3, <2>4, FS_PigeonHole
  <2>6. at[x] = at[y]
    <3> HIDE DEF f
    <3> QED
      BY <2>1, <2>5
  <2> QED
    BY <2>5, <2>6
<1>8. ASSUME NEW c \in S, NEW n \in N, c.close = at[n]
      PROVE  c \in T
  <2>1. PICK x \in T : x.close = at[n]
    OBVIOUS
  <2>2. x = c
    BY <1>6, <1>8, <2>1 DEF DistinctCloses
  <2> QED
    BY <2>1, <2>2
<1> HIDE DEF T, N
<1>9. \A c \in S : c \in T <=> \E n \in N : c.close = at[n]
  BY <1>7, <1>8
<1> QED
  BY <1>9 DEF T, N

(* The candles there were at a decision. *)
There(S, decision) == {c \in S : c.close <= decision /\ c.available <= decision}

ShelvesInOrder ==
  \A key \in Keys : /\ candles[key] \subseteq Candle /\ IsFiniteSet(candles[key])
                    /\ DistinctCloses(candles[key])

LEMMA ShelfFacts == ASSUME ShelfInv PROVE ShelvesInOrder
<1> SUFFICES ASSUME NEW key \in Keys
             PROVE  /\ candles[key] \subseteq Candle /\ IsFiniteSet(candles[key])
                    /\ DistinctCloses(candles[key])
  BY DEF ShelvesInOrder
<1>1. /\ candles[key] \subseteq Candle /\ IsFiniteSet(candles[key])
      /\ \A c \in candles[key] : c.market = key[1] /\ c.sleeve = key[2]
      /\ DistinctBars(AllCandles)
  BY DEF ShelfInv
<1>2. candles[key] \subseteq AllCandles
  BY DEF AllCandles
<1> QED
  BY <1>1, <1>2 DEF DistinctBars, DistinctCloses, SameBar

(* What a decision reads of a shelf. *)
TailOf(shelf, s, decision) ==
  LET S == There(shelf, decision)
  IN  IF \A n \in 0 .. Lookback - 1 : \E c \in LastOf(S) : c.close = decision - n * s
      THEN LastOf(S) ELSE {}

\* A tail that is read has one candle of each bar.
LEMMA TailRead ==
  ASSUME NEW shelf, shelf \subseteq Candle, IsFiniteSet(shelf), DistinctCloses(shelf),
         NEW s \in Nat \ {0}, NEW decision \in Nat, TailOf(shelf, s, decision) # {}
  PROVE  LET S == There(shelf, decision)
         IN  /\ TailOf(shelf, s, decision) =
                  {c \in S : \E n \in 0 .. Lookback - 1 : c.close = decision - n * s}
             /\ \A n \in 0 .. Lookback - 1 : \E c \in S : c.close = decision - n * s
<1> DEFINE S == There(shelf, decision)
           N == 0 .. Lookback - 1
           at == [n \in N |-> decision - n * s]
<1>1. /\ \A n \in 0 .. Lookback - 1 : \E c \in LastOf(S) : c.close = decision - n * s
      /\ TailOf(shelf, s, decision) = LastOf(S)
  BY DEF TailOf
<1>2. S \subseteq Candle /\ IsFiniteSet(S) /\ DistinctCloses(S)
  <2>1. S \in SUBSET shelf
    BY DEF There
  <2> QED
    BY <2>1, FS_Subset DEF DistinctCloses
<1>3. LastOf(S) \subseteq S
  BY DEF LastOf
<1>4. \A n \in N : at[n] = decision - n * s
  OBVIOUS
<1>5. \A n, k \in N : at[n] = at[k] => n = k
  <2> SUFFICES ASSUME NEW n \in N, NEW k \in N, at[n] = at[k]
               PROVE  n = k
    OBVIOUS
  <2>1. n \in Int /\ k \in Int
    BY FeaturesAssumption
  <2>2. n * s \in Int /\ k * s \in Int
    BY <2>1
  <2>3. n * s = k * s
    BY <2>2
  <2>4. n * s < k * s + s /\ k * s < n * s + s
    BY <2>2, <2>3
  <2> HIDE DEF N, at
  <2> QED
    BY <2>1, <2>4, Apart
<1>6. \A n \in N : \E c \in LastOf(S) : c.close = at[n]
  BY <1>1, <1>4
<1> HIDE DEF S, at
<1>7. \A c \in S : c \in LastOf(S) <=> \E n \in N : c.close = at[n]
  BY <1>2, <1>5, <1>6, TailIsContiguous
<1> HIDE DEF N
<1>8. LastOf(S) = {c \in S : \E n \in N : c.close = decision - n * s}
  BY <1>3, <1>4, <1>7
<1>9. \A n \in N : \E c \in S : c.close = decision - n * s
  BY <1>3, <1>4, <1>6
<1> QED
  BY <1>1, <1>8, <1>9 DEF S, N

\* A candle more leaves the tail a decision reads, or makes it unavailable.
LEMMA TailSettled ==
  ASSUME ShelfInv, ShelfInv', NEW m \in Markets, NEW s \in Sleeves, NEW decision \in Nat,
         NEW c, Stored(c) = {},
         \A k \in Keys : candles'[k] \subseteq candles[k]
                           \cup (IF k = <<c.market, c.sleeve>> THEN {c} ELSE {})
  PROVE  Settled(CandleTail(m, s, decision), CandleTail(m, s, decision)', {})
<1> SUFFICES ASSUME CandleTail(m, s, decision) # {}, CandleTail(m, s, decision)' # {}
             PROVE  CandleTail(m, s, decision)' = CandleTail(m, s, decision)
  BY DEF Settled, Kept
<1> DEFINE N == 0 .. Lookback - 1
           S == There(candles[<<m, s>>], decision)
           S1 == There(candles'[<<m, s>>], decision)
           Good(x) == \E n \in N : x.close = decision - n * s
<1>1. <<m, s>> \in Keys
  BY DEF Keys
<1>2. /\ CandleTail(m, s, decision) = {x \in S : Good(x)}
      /\ \A n \in N : \E x \in S : x.close = decision - n * s
      /\ DistinctCloses(candles[<<m, s>>])
  <2>1. CandleTail(m, s, decision) = TailOf(candles[<<m, s>>], s, decision)
    BY DEF CandleTail, TailOf, LastOf, There
  <2>2. /\ candles[<<m, s>>] \subseteq Candle /\ IsFiniteSet(candles[<<m, s>>])
        /\ DistinctCloses(candles[<<m, s>>])
    BY <1>1, ShelfFacts DEF ShelvesInOrder
  <2>3. s \in Nat \ {0}
    BY Lengths
  <2> QED
    BY <2>1, <2>2, <2>3, TailRead
<1>3. /\ CandleTail(m, s, decision)' = {x \in S1 : Good(x)}
      /\ \A n \in N : \E x \in S1 : x.close = decision - n * s
  <2>1. CandleTail(m, s, decision)' = TailOf(candles'[<<m, s>>], s, decision)
    BY DEF CandleTail, TailOf, LastOf, There, Closed
  <2>2. ShelvesInOrder'
    BY ShelfFacts, PTL
  <2>3. /\ candles'[<<m, s>>] \subseteq Candle /\ IsFiniteSet(candles'[<<m, s>>])
        /\ DistinctCloses(candles'[<<m, s>>])
    BY <1>1, <2>2 DEF ShelvesInOrder, Keys, Candle, DistinctCloses
  <2>4. s \in Nat \ {0}
    BY Lengths
  <2> QED
    BY <2>1, <2>3, <2>4, TailRead
<1>5. S \subseteq candles[<<m, s>>] /\ S1 \subseteq candles'[<<m, s>>]
  BY DEF There
<1>6. ASSUME NEW x \in S, NEW y \in S1, x.close = y.close
      PROVE  x = y
  <2>1. CASE y \in candles[<<m, s>>]
    BY <1>2, <1>5, <1>6, <2>1 DEF DistinctCloses
  <2>2. CASE y \notin candles[<<m, s>>]
    <3>1. y = c /\ c.market = m /\ c.sleeve = s
      BY <1>1, <1>5, <2>2
    <3>2. x \in candles[<<m, s>>] /\ x.market = m /\ x.sleeve = s
      BY <1>1, <1>5 DEF ShelfInv
    <3>3. x \in Stored(c)
      BY <1>6, <3>1, <3>2 DEF Stored, SameBar
    <3> QED
      BY <3>3
  <2> QED
    BY <2>1, <2>2
<1> HIDE DEF S, S1, N
<1>7. ASSUME NEW x \in S, Good(x)
      PROVE  x \in S1
  BY <1>3, <1>6, <1>7
<1>8. ASSUME NEW y \in S1, Good(y)
      PROVE  y \in S
  BY <1>2, <1>6, <1>8
<1> QED
  BY <1>2, <1>3, <1>7, <1>8

----------------------------------------------------------------------------
(* The invariant and its steps                                             *)

HandlingInv ==
  /\ handling.step \in {"idle", "ingest", "complete", "candles"}
  /\ fault \in {Fine, "event", "aggregator", "candle"}
  /\ handling.step # "idle" => handling.event \in Event
  /\ handling.step = "candles" => handling.completed \subseteq Candle

AggregatorInv ==
  \A key \in DOMAIN pending :
    /\ key.market \in Markets /\ key.bar.sleeve \in Sleeves /\ key.bar.open \in Nat
    /\ pending[key].available \in Receipts

IInv == /\ HistoryInv
        /\ PointInv
        /\ WindowInv
        /\ SampleInv
        /\ ShelfInv
        /\ AggregatorInv
        /\ HandlingInv

\* What a fact never touches, and what only a fact touches.
LEMMA FrameOfFacts ==
  ASSUME HistoryInv, PointInv, WindowInv, UNCHANGED <<histories, windows, accepted>>
  PROVE  HistoryInv' /\ PointInv' /\ WindowInv'
<1>1. UNCHANGED <<seen_events, finalized_events, available_from, aggregates,
                  aggregates_through, accepted>>
  BY DEF histories, windows
<1>2. HistoryInv'
  BY <1>1 DEF HistoryInv, History, Lost
<1>3. PointInv'
  BY <1>1 DEF PointInv
<1>4. WindowInv'
  BY <1>1 DEF WindowInv, Trades
<1> QED
  BY <1>2, <1>3, <1>4

LEMMA FrameOfSamples ==
  ASSUME SampleInv, UNCHANGED <<samples, accepted>>
  PROVE  SampleInv'
BY DEF SampleInv, Facts

LEMMA FrameOfShelves ==
  ASSUME ShelfInv, UNCHANGED shelves
  PROVE  ShelfInv'
BY DEF ShelfInv, shelves, AllCandles

LEMMA FrameOfAggregator ==
  ASSUME AggregatorInv, UNCHANGED pending
  PROVE  AggregatorInv'
BY DEF AggregatorInv

\* Nothing is kept at first.
LEMMA InitEstablishes == Init => IInv
<1> SUFFICES ASSUME Init
             PROVE  IInv
  OBVIOUS
<1> USE DEF Init
<1>1. IsFiniteSet({}) /\ Cardinality({}) = 0
  BY FS_EmptySet
<1>2. /\ EventHorizon \in Nat /\ AggregateLimit \in Nat /\ CandleHorizon \in Nat
      /\ \A k \in Kinds : EventLimit[k] \in Nat
      /\ \A s \in Sleeves : CandleLimit[s] \in Nat /\ SampleLimit[s] \in Nat
  BY FeaturesAssumption
<1>3. HistoryInv
  <2>1. \A m, k : History(m, k) = {}
    BY DEF History
  <2>2. \A m \in Markets, k \in Kinds : Cardinality(History(m, k)) <= EventLimit[k]
    <3>1. \A k \in Kinds : Cardinality({}) <= EventLimit[k]
      BY ONLY <1>1, <1>2
    <3> QED
      BY ONLY <2>1, <3>1
  <2>3. /\ accepted = {} /\ seen_events = {} /\ finalized_events = {}
        /\ Cardinality(finalized_events) <= EventHorizon
    BY <1>1, <1>2
  <2> QED
    BY <1>1, <2>2, <2>3 DEF HistoryInv, Distinct
<1>4. PointInv
  BY DEF PointInv
<1>5. WindowInv
  <2>1. \A m : Trades(m) = {}
    BY DEF Trades
  <2>2. \A m \in Markets, s \in Sleeves : DOMAIN aggregates[<<m, s>>] = {}
    OBVIOUS
  <2> QED
    BY <1>1, <1>2, <2>1, <2>2 DEF WindowInv, Counts, Keys
<1>6. SampleInv
  <2>1. \A kind \in Sampled, m \in Markets, s \in Sleeves :
          DOMAIN samples[<<kind, m, s>>] = {}
    OBVIOUS
  <2> QED
    BY <1>1, <1>2, <2>1 DEF SampleInv, SamplesOf
<1>7. ShelfInv
  <2>1. AllCandles = {}
    BY DEF AllCandles, Keys
  <2>2. \A key \in Keys : candles[key] = {} /\ key[2] \in Sleeves
    BY DEF Keys
  <2> QED
    BY <1>1, <1>2, <2>1, <2>2 DEF ShelfInv, DistinctBars, Keys
<1>8. AggregatorInv
  <2>1. DOMAIN pending = {}
    BY DEF Aggregator!Init
  <2> QED
    BY <2>1 DEF AggregatorInv
<1>9. HandlingInv
  BY DEF HandlingInv, NothingHandled, Fine
<1> QED
  BY <1>3, <1>4, <1>5, <1>6, <1>7, <1>8, <1>9 DEF IInv

\* The handler goes on with what observe took.
LEMMA ContinueHandles ==
  ASSUME HandlingInv, NEW e \in Event, Continue(e), UNCHANGED fault
  PROVE  HandlingInv'
<1>1. fault' \in {Fine, "event", "aggregator", "candle"}
  BY DEF HandlingInv
<1>2. CASE e.kind = "trade"
  <2>1. handling' = [step |-> "ingest", event |-> e, completed |-> {}]
    BY <1>2 DEF Continue, Handle
  <2> QED
    BY <1>1, <2>1 DEF HandlingInv, Fine
<1>3. CASE e.kind = "candle"
  <2>1. handling' = [step |-> "candles", event |-> e, completed |-> {Official(e)}]
    BY <1>3 DEF Continue, Handle
  <2>2. Official(e) \in Candle
    BY <1>3, EventFields DEF Official, Candle, EventIds
  <2> QED
    BY <1>1, <2>1, <2>2 DEF HandlingInv, Fine
<1>4. CASE e.kind # "trade" /\ e.kind # "candle"
  <2>1. handling' = NothingHandled
    BY <1>4 DEF Continue
  <2> QED
    BY <1>1, <2>1 DEF HandlingInv, NothingHandled, Fine
<1> QED
  BY <1>2, <1>3, <1>4

LEMMA ObserveKeeps ==
  ASSUME IInv, NEW e \in Event, Observe(e)
  PROVE  IInv'
<1>1. HistoryInv' /\ PointInv' /\ WindowInv' /\ SampleInv'
  BY ObserveKeepsHistories, ObserveKeepsPoints, ObserveKeepsWindows,
     ObserveKeepsSamples DEF IInv
<1>2. UNCHANGED shelves /\ UNCHANGED pending /\ UNCHANGED fault /\ Continue(e)
  BY DEF Observe, aggregator
<1>3. ShelfInv' /\ AggregatorInv' /\ HandlingInv'
  BY <1>2, FrameOfShelves, FrameOfAggregator, ContinueHandles DEF IInv
<1> QED
  BY <1>1, <1>3 DEF IInv

\* Steps that leave all but the handler as it is.
LEMMA RestKeeps ==
  ASSUME IInv, UNCHANGED <<histories, windows, shelves, samples, pending, accepted>>,
         HandlingInv'
  PROVE  IInv'
BY FrameOfFacts, FrameOfSamples, FrameOfShelves, FrameOfAggregator DEF IInv

\* A trade that is ingested.
LEMMA IngestKeeps ==
  ASSUME IInv, Ingest
  PROVE  IInv'
<1> DEFINE e == handling.event
           p == Trade(e)
<1>1. /\ handling.step = "ingest" /\ e \in Event /\ Aggregator!Ingest(p)
      /\ handling' = [step |-> "complete", event |-> e, completed |-> {}]
      /\ UNCHANGED <<histories, windows, shelves, samples, fault, accepted>>
  BY DEF Ingest, Handling, Handle, IInv, HandlingInv
<1>2. /\ p.market \in Markets /\ p.received \in Receipts /\ p.time \in Nat
  BY <1>1, EventFields DEF Trade
<1> HIDE DEF p, e
<1>3. HandlingInv'
  BY <1>1 DEF IInv, HandlingInv, Fine
<1>4. AggregatorInv'
  <2>1. pending' = [key \in DOMAIN pending \cup Aggregator!Keys(p) |->
                      IF key \notin Aggregator!Keys(p) THEN pending[key]
                      ELSE IF key \in DOMAIN pending THEN Aggregator!WithTrade(pending[key], p)
                      ELSE Aggregator!FromTrade(p)]
    BY <1>1 DEF Aggregator!Ingest
  <2>2. ASSUME NEW key \in Aggregator!Keys(p)
        PROVE  key.market \in Markets /\ key.bar.sleeve \in Sleeves /\ key.bar.open \in Nat
    <3>1. PICK s \in Sleeves : key = Aggregator!KeyOf(p, s)
      BY <2>2 DEF Aggregator!Keys, Aggregator!Sleeves, Sleeves
    <3>2. key = [market |-> p.market,
                 bar |-> [sleeve |-> s, open |-> (p.time \div s) * s]]
      BY <3>1 DEF Aggregator!KeyOf, Aggregator!BarAt
    <3>3. (p.time \div s) * s \in Nat
      <4>1. s \in Nat \ {0}
        BY Lengths
      <4>2. (p.time \div s) \in Nat
        BY <1>2, <4>1
      <4> QED
        BY <4>1, <4>2
    <3> QED
      BY <1>2, <3>2, <3>3
  <2>3. ASSUME NEW a, a.available \in Receipts
        PROVE  Aggregator!WithTrade(a, p).available \in Receipts
    BY <1>2, <2>3 DEF Aggregator!WithTrade
  <2>4. Aggregator!FromTrade(p).available \in Receipts
    BY <1>2 DEF Aggregator!FromTrade
  <2>5. ASSUME NEW key \in DOMAIN pending'
        PROVE  /\ key.market \in Markets /\ key.bar.sleeve \in Sleeves /\ key.bar.open \in Nat
               /\ pending'[key].available \in Receipts
    <3>1. key \in DOMAIN pending \/ key \in Aggregator!Keys(p)
      BY <2>1
    <3>2. key.market \in Markets /\ key.bar.sleeve \in Sleeves /\ key.bar.open \in Nat
      BY <2>2, <3>1 DEF IInv, AggregatorInv
    <3>3. key \in DOMAIN pending => pending[key].available \in Receipts
      BY DEF IInv, AggregatorInv
    <3>4. pending'[key] = IF key \notin Aggregator!Keys(p) THEN pending[key]
                          ELSE IF key \in DOMAIN pending THEN Aggregator!WithTrade(pending[key], p)
                          ELSE Aggregator!FromTrade(p)
      BY <2>1, <3>1
    <3>5. pending'[key].available \in Receipts
      BY <2>3, <2>4, <3>1, <3>3, <3>4
    <3> QED
      BY <3>2, <3>5
  <2> QED
    BY <2>5 DEF AggregatorInv
<1>5. HistoryInv' /\ PointInv' /\ WindowInv' /\ SampleInv' /\ ShelfInv'
  BY <1>1, FrameOfFacts, FrameOfSamples, FrameOfShelves DEF IInv
<1> QED
  BY <1>3, <1>4, <1>5 DEF IInv

\* Going on with candles.
LEMMA WithCandlesHandles ==
  ASSUME HandlingInv, handling.step # "idle", NEW S, S \subseteq Candle, WithCandles(S),
         UNCHANGED fault
  PROVE  HandlingInv'
<1>1. \/ handling' = NothingHandled
      \/ handling' = [step |-> "candles", event |-> handling.event, completed |-> S]
  BY DEF WithCandles, Handle
<1>2. fault' \in {Fine, "event", "aggregator", "candle"} /\ handling.event \in Event
  BY DEF HandlingInv
<1>3. CASE handling' = NothingHandled
  BY <1>2, <1>3 DEF HandlingInv, NothingHandled, Fine
<1>4. CASE handling' = [step |-> "candles", event |-> handling.event, completed |-> S]
  BY <1>2, <1>4 DEF HandlingInv, Fine
<1> QED
  BY <1>1, <1>3, <1>4

\* Closing bars hands over candles.
LEMMA CompleteKeeps ==
  ASSUME IInv, Complete
  PROVE  IInv'
<1> DEFINE time == handling.event.time
           S == {Derived(d) : d \in emitted' \ emitted}
<1>1. /\ handling.step = "complete" /\ Aggregator!CompleteThrough(time) /\ WithCandles(S)
      /\ UNCHANGED <<histories, windows, shelves, samples, fault, accepted>>
  BY DEF Complete, Handling
<1>2. PICK closing \in SUBSET DOMAIN pending :
        /\ pending' = [key \in DOMAIN pending \ closing |-> pending[key]]
        /\ \A d \in emitted' \ emitted :
             \E key \in closing : d = [key |-> key, total |-> pending[key]]
  <2>1. PICK markets : Aggregator!CompleteMarketsThrough(markets, time)
    BY <1>1 DEF Aggregator!CompleteThrough
  <2> DEFINE closing == {key \in DOMAIN pending :
                           key.market \in markets /\ Aggregator!Close(key.bar) <= time}
  <2>2. /\ pending' = [key \in DOMAIN pending \ closing |-> pending[key]]
        /\ emitted' = emitted \cup {[key |-> key, total |-> pending[key]] :
                                      key \in {k \in closing : ~Aggregator!Suppressed(k)}}
    BY <2>1 DEF Aggregator!CompleteMarketsThrough
  <2>3. closing \in SUBSET DOMAIN pending
    OBVIOUS
  <2> HIDE DEF closing
  <2>4. \A d \in emitted' \ emitted :
          \E key \in closing : d = [key |-> key, total |-> pending[key]]
    BY <2>2
  <2> QED
    BY <2>2, <2>3, <2>4
<1>3. S \subseteq Candle
  <2> SUFFICES ASSUME NEW d \in emitted' \ emitted
               PROVE  Derived(d) \in Candle
    OBVIOUS
  <2>1. PICK key \in DOMAIN pending : d = [key |-> key, total |-> pending[key]]
    BY <1>2
  <2>2. /\ key.market \in Markets /\ key.bar.sleeve \in Sleeves /\ key.bar.open \in Nat
        /\ pending[key].available \in Receipts
    BY DEF IInv, AggregatorInv
  <2>3. Close(key.bar) \in Nat
    BY <2>2, Lengths DEF Close
  <2>4. /\ d.key = key /\ d.total = pending[key]
    BY <2>1
  <2> QED
    BY <2>2, <2>3, <2>4 DEF Derived, Candle
<1> HIDE DEF S
<1>4. HandlingInv'
  BY <1>1, <1>3, WithCandlesHandles DEF IInv
<1>5. AggregatorInv'
  BY <1>2 DEF IInv, AggregatorInv
<1>6. HistoryInv' /\ PointInv' /\ WindowInv' /\ SampleInv' /\ ShelfInv'
  BY <1>1, FrameOfFacts, FrameOfSamples, FrameOfShelves DEF IInv
<1> QED
  BY <1>4, <1>5, <1>6 DEF IInv

\* A candle that is ingested.
LEMMA IngestCandleKeeps ==
  ASSUME IInv, IngestCandle
  PROVE  IInv'
<1>1. PICK c \in NextCandle :
       LET key   == <<c.market, c.sleeve>>
           shelf == candles[key] \cup {c}
           first == Surplus(shelf, c.sleeve)
       IN  /\ Stored(c) = {} /\ ~Outside(c)
           /\ candles' = [candles EXCEPT ![key] = shelf \ first]
           /\ candles_through' =
                [candles_through EXCEPT ![key] =
                   IF first = {} THEN @ ELSE Max2(@, (CHOOSE d \in first : TRUE).close)]
           /\ finalized_candles' = NewestCandles(finalized_candles \cup first)
           /\ samples' = Resampled(c)
           /\ WithCandles(handling.completed \ {c})
  BY DEF IngestCandle
<1>2. /\ handling.step = "candles" /\ UNCHANGED <<histories, windows, aggregator, fault, accepted>>
  BY DEF IngestCandle, Handling
<1>3. handling.completed \subseteq Candle /\ c \in Candle
  BY <1>2 DEF IInv, HandlingInv, NextCandle
<1>4. ShelfInv'
  BY <1>1, <1>3, CandleKeepsShelves DEF IInv
<1>5. SampleInv'
  <2>1. c.close \in Nat
    BY <1>3, CandleFields
  <2> QED
    BY <1>1, <1>2, <2>1, ResampleKeeps DEF IInv
<1>6. HandlingInv'
  <2>1. WithCandles(handling.completed \ {c}) /\ handling.completed \ {c} \subseteq Candle
    BY <1>1, <1>3
  <2> QED
    BY <1>2, <2>1, WithCandlesHandles DEF IInv
<1>7. HistoryInv' /\ PointInv' /\ WindowInv' /\ AggregatorInv'
  BY <1>2, FrameOfFacts, FrameOfAggregator DEF IInv, aggregator
<1> QED
  BY <1>4, <1>5, <1>6, <1>7 DEF IInv

\* The steps that only move the handler, or fault.
LEMMA OthersKeep ==
  ASSUME IInv,
         \/ \E e \in Event : ObserveAgain(e) \/ Refuse(e)
         \/ IngestAgain \/ IngestLate \/ IngestRefused
         \/ CompleteBackward \/ IngestCandleAgain \/ RefuseCandle
  PROVE  /\ IInv'
         /\ UNCHANGED <<histories, windows, shelves, samples, aggregator, accepted>>
<1>1. UNCHANGED <<histories, windows, shelves, samples, aggregator, accepted>>
  BY DEF ObserveAgain, Refuse, IngestAgain, IngestLate, IngestRefused,
         CompleteBackward, IngestCandleAgain, RefuseCandle
<1>2. UNCHANGED pending
  BY <1>1 DEF aggregator
<1>3. HandlingInv
  BY DEF IInv
<1>4. HandlingInv'
  <2>1. ASSUME NEW e \in Event, ObserveAgain(e)
        PROVE  HandlingInv'
    BY <1>3, <2>1, ContinueHandles DEF ObserveAgain
  <2>2. ASSUME (\E e \in Event : Refuse(e)) \/ IngestRefused \/ RefuseCandle
        PROVE  HandlingInv'
    <3>1. UNCHANGED handling /\ fault' \in {"event", "aggregator", "candle"}
      BY <2>2 DEF Refuse, IngestRefused, RefuseCandle
    <3> QED
      BY <1>3, <3>1 DEF HandlingInv, Fine
  <2>3. CASE IngestAgain
    <3>1. /\ handling' = [step |-> "complete", event |-> handling.event, completed |-> {}]
          /\ UNCHANGED fault /\ handling.step = "ingest"
      BY <2>3 DEF IngestAgain, Handle, Handling
    <3> QED
      BY <1>3, <3>1 DEF HandlingInv, Fine
  <2>4. CASE IngestLate
    <3>1. handling' = NothingHandled /\ UNCHANGED fault
      BY <2>4 DEF IngestLate
    <3> QED
      BY <1>3, <3>1 DEF HandlingInv, Fine, NothingHandled
  <2>5. CASE CompleteBackward
    <3>1. WithCandles({}) /\ UNCHANGED fault /\ handling.step # "idle"
      BY <2>5 DEF CompleteBackward, Handling
    <3> QED
      BY <1>3, <3>1, WithCandlesHandles
  <2>6. CASE IngestCandleAgain
    <3>1. PICK c : WithCandles(handling.completed \ {c})
      BY <2>6 DEF IngestCandleAgain
    <3>2. UNCHANGED fault /\ handling.step = "candles"
      BY <2>6 DEF IngestCandleAgain, Handling
    <3>3. handling.completed \ {c} \subseteq Candle
      BY <1>3, <3>2 DEF HandlingInv
    <3> QED
      BY <1>3, <3>1, <3>2, <3>3, WithCandlesHandles
  <2> QED
    BY <2>1, <2>2, <2>3, <2>4, <2>5, <2>6
<1> QED
  BY <1>1, <1>2, <1>4, RestKeeps

LEMMA StepKeeps == ASSUME IInv, Next PROVE IInv'
<1>1. CASE \E e \in Event : Observe(e)
  BY <1>1, ObserveKeeps
<1>2. CASE Ingest
  BY <1>2, IngestKeeps
<1>3. CASE Complete
  BY <1>3, CompleteKeeps
<1>4. CASE IngestCandle
  BY <1>4, IngestCandleKeeps
<1>5. CASE \/ \E e \in Event : ObserveAgain(e) \/ Refuse(e)
           \/ IngestAgain \/ IngestLate \/ IngestRefused
           \/ CompleteBackward \/ IngestCandleAgain \/ RefuseCandle
  BY <1>5, OthersKeep
<1> QED
  BY <1>1, <1>2, <1>3, <1>4, <1>5 DEF Next

LEMMA StutterKeeps == ASSUME IInv, UNCHANGED vars PROVE IInv'
<1>1. UNCHANGED <<histories, windows, shelves, samples, aggregator, handling, fault, accepted>>
  BY DEF vars
<1>2. UNCHANGED pending
  BY <1>1 DEF aggregator
<1>3. HandlingInv'
  BY <1>1 DEF IInv, HandlingInv
<1> QED
  BY <1>1, <1>2, <1>3, RestKeeps

\* What is held, and what an absence from it means, is so in every state that
\* the engine and the handler of a source fact reach (observe,
\* observe_feature_source, ingest_candle).
THEOREM FeaturesInvariant == Spec => []IInv
<1>1. IInv /\ [Next]_vars => IInv'
  BY StepKeeps, StutterKeeps
<1> QED
  BY <1>1, InitEstablishes, PTL DEF Spec

LEMMA TypesRead == ASSUME IInv PROVE FeaturesTypeOK
<1>1. /\ seen_events \subseteq accepted /\ finalized_events \subseteq accepted
      /\ accepted \subseteq Event
      /\ \A m \in Markets, k \in Kinds : Cardinality(History(m, k)) <= EventLimit[k]
      /\ Cardinality(finalized_events) <= EventHorizon
  BY DEF IInv, HistoryInv
<1>2. available_from \in [Markets \X Points -> Receipts \cup {None}]
  BY DEF IInv, PointInv
<1>3. ASSUME NEW key \in Keys
      PROVE  /\ Cardinality(DOMAIN aggregates[key]) <= AggregateLimit
             /\ \A k \in DOMAIN aggregates[key] : aggregates[key][k] \in Nat
             /\ candles[key] \subseteq Candle
             /\ Cardinality(candles[key]) <= CandleLimit[key[2]]
  <2>1. candles[key] \subseteq Candle /\ Cardinality(candles[key]) <= CandleLimit[key[2]]
    BY DEF IInv, ShelfInv
  <2>2. PICK m \in Markets, s \in Sleeves : key = <<m, s>>
    BY DEF Keys
  <2>3. Counts(Trades(m), s, aggregates[key], aggregates_through[key])
    BY <2>2 DEF IInv, WindowInv
  <2>4. ASSUME NEW k \in DOMAIN aggregates[key]
        PROVE  aggregates[key][k] \in Nat
    <3> DEFINE A == {e \in Trades(m) : AggregateKey(e, s) = k}
    <3>1. aggregates[key][k] = Cardinality(A)
      BY <2>3 DEF Counts
    <3>2. A \subseteq accepted
      BY DEF Trades
    <3> HIDE DEF A
    <3>3. Cardinality(A) \in Nat
      BY <3>2, PartOfAccepted DEF IInv
    <3> QED
      BY <3>1, <3>3
  <2>5. Cardinality(DOMAIN aggregates[key]) <= AggregateLimit
    BY <2>3 DEF Counts
  <2> QED
    BY <2>1, <2>4, <2>5
<1>4. aggregates_through \in [Keys -> Nat \cup {None}]
  BY DEF IInv, WindowInv
<1>5. /\ candles_through \in [Keys -> Nat \cup {None}]
      /\ finalized_candles \subseteq Candle /\ Cardinality(finalized_candles) <= CandleHorizon
  BY DEF IInv, ShelfInv
<1>6. ASSUME NEW key \in DOMAIN samples
      PROVE  /\ Cardinality(DOMAIN samples[key]) <= SampleLimit[key[3]]
             /\ \A b \in DOMAIN samples[key] : samples[key][b] \in accepted
  <2>1. DOMAIN samples = Sampled \X Markets \X Sleeves
    BY DEF IInv, SampleInv
  <2>2. /\ key = <<key[1], key[2], key[3]>>
        /\ key[1] \in Sampled /\ key[2] \in Markets /\ key[3] \in Sleeves
    BY <2>1, SampleKeys
  <2>3. SamplesOf(Facts(key[1], key[2]), key[3], samples[key])
    BY <2>2 DEF IInv, SampleInv
  <2> QED
    BY <2>3 DEF SamplesOf, Facts
<1>7. /\ handling.step \in {"idle", "ingest", "complete", "candles"}
      /\ fault \in {Fine, "event", "aggregator", "candle"}
  BY DEF IInv, HandlingInv
<1> QED
  BY <1>1, <1>2, <1>3, <1>4, <1>5, <1>6, <1>7 DEF FeaturesTypeOK

\* Every bounded collection of the feature engine keeps to its capacity, and
\* what it holds is what was accepted (CommonFeatureEngine).
THEOREM FeaturesTyped == Spec => []FeaturesTypeOK
<1>1. IInv => FeaturesTypeOK
  BY TypesRead
<1> QED
  BY <1>1, FeaturesInvariant, PTL

\* A window of trades that a decision reads counts every trade of it once
\* (commit_trade_aggregates, trade_window).
THEOREM WindowsAreExact == Spec => []TradeWindowsAreExact
<1>1. IInv => TradeWindowsAreExact
  BY WindowsRead DEF IInv
<1> QED
  BY <1>1, FeaturesInvariant, PTL

\* The quote or book that a decision reads is the latest there was, or the
\* decision learns that it was pruned (latest_bbo, record_pruned_point_source).
THEOREM PointsAreTheLatest == Spec => []PointsAreLatestOrPruned
<1>1. IInv => PointsAreLatestOrPruned
  BY PointsRead DEF IInv
<1> QED
  BY <1>1, FeaturesInvariant, PTL

\* The sample of a boundary is the latest fact there was at it
\* (record_boundary_samples, refresh_boundary_samples).
THEOREM SamplesAreTheLatest == Spec => []SamplesAreLatest
<1>1. IInv => SamplesAreLatest
  BY SamplesRead DEF IInv
<1> QED
  BY <1>1, FeaturesInvariant, PTL

\* A fact whose identity was forgotten is refused for good (accepts,
\* record_finalized_event).
THEOREM ForgottenIsRefused == Spec => []ForgottenStaysOut
<1>1. IInv => ForgottenStaysOut
  BY ForgottenOut DEF IInv
<1> QED
  BY <1>1, FeaturesInvariant, PTL

\* A step takes in a fact, or leaves the facts as they are.
LEMMA StepsByFacts ==
  ASSUME IInv, Next
  PROVE  \/ \E e \in Event : Observe(e)
         \/ UNCHANGED <<histories, windows, accepted>>
<1>1. CASE Ingest \/ Complete \/ IngestCandle
  BY <1>1 DEF Ingest, Complete, IngestCandle
<1>2. CASE \/ \E e \in Event : ObserveAgain(e) \/ Refuse(e)
           \/ IngestAgain \/ IngestLate \/ IngestRefused
           \/ CompleteBackward \/ IngestCandleAgain \/ RefuseCandle
  BY <1>2, OthersKeep
<1> QED
  BY <1>1, <1>2 DEF Next

\* A step takes in a candle, or leaves the candles as they are.
LEMMA StepsByCandles ==
  ASSUME IInv, Next
  PROVE  \/ UNCHANGED candles
         \/ \E c : /\ Stored(c) = {}
                   /\ \A k \in Keys : candles'[k] \subseteq candles[k]
                           \cup (IF k = <<c.market, c.sleeve>> THEN {c} ELSE {})
<1>1. CASE (\E e \in Event : Observe(e)) \/ Ingest \/ Complete
  BY <1>1 DEF Observe, Ingest, Complete, shelves
<1>2. CASE \/ \E e \in Event : ObserveAgain(e) \/ Refuse(e)
           \/ IngestAgain \/ IngestLate \/ IngestRefused
           \/ CompleteBackward \/ IngestCandleAgain \/ RefuseCandle
  BY <1>2, OthersKeep DEF shelves
<1>3. CASE IngestCandle
  <2>1. PICK c \in NextCandle :
          /\ Stored(c) = {}
          /\ candles' = [candles EXCEPT ![<<c.market, c.sleeve>>] =
                           (candles[<<c.market, c.sleeve>>] \cup {c})
                             \ Surplus(candles[<<c.market, c.sleeve>>] \cup {c}, c.sleeve)]
    BY <1>3 DEF IngestCandle
  <2>2. DOMAIN candles = Keys
    BY DEF IInv, ShelfInv
  <2>3. \A k \in Keys : candles'[k] \subseteq candles[k]
                          \cup (IF k = <<c.market, c.sleeve>> THEN {c} ELSE {})
    BY <2>1, <2>2
  <2> QED
    BY <2>1, <2>3
<1> QED
  BY <1>1, <1>2, <1>3 DEF Next

\* A fact that is received after a decision changes no input of it.
LEMMA LaterSettles ==
  ASSUME IInv, IInv', Next, NEW e \in Handled, NEW m \in Markets, NEW s \in Sleeves,
         NEW decision \in Decisions(s), decision < e.received
  PROVE  /\ \A length \in {Micro, Short} :
              Kept(TradeWindow(m, s, decision, length),
                   TradeWindow(m, s, decision, length)', None)
         /\ \A kind \in Points \cap Kinds :
              Kept(LatestPoint(m, kind, decision), LatestPoint(m, kind, decision)', {})
         /\ \A kind \in Sampled \cap Kinds :
              Settled(SampleAt(kind, m, s, decision), SampleAt(kind, m, s, decision)', {})
         /\ Settled(CandleTail(m, s, decision), CandleTail(m, s, decision)', {})
<1>1. \/ Observe(e)
      \/ UNCHANGED <<histories, windows, accepted>>
  <2>1. ASSUME NEW f \in Event, Observe(f)
        PROVE  e = f
    <3>1. f \notin accepted /\ accepted' = accepted \cup {f}
      BY <2>1, ObservedIsNew DEF IInv
    <3>2. handling.step = "idle"
      BY <2>1 DEF Observe, Idle
    <3> QED
      BY <3>1, <3>2 DEF Handled
  <2> QED
    BY <2>1, StepsByFacts
<1>2. e \in Event
  <2>1. CASE handling.step # "idle"
    BY <2>1 DEF Handled, IInv, HandlingInv
  <2>2. CASE handling.step = "idle"
    BY <2>2 DEF Handled, IInv, HistoryInv
  <2> QED
    BY <2>1, <2>2
<1>3. accepted' \subseteq accepted \cup {e} /\ accepted \subseteq accepted'
  BY <1>1, ObservedIsNew, <1>2 DEF IInv
<1>4. decision \in Receipts /\ decision \in Nat
  BY FeaturesAssumption DEF Decisions
<1>5. ASSUME NEW length \in {Micro, Short}
      PROVE  Kept(TradeWindow(m, s, decision, length),
                  TradeWindow(m, s, decision, length)', None)
  BY <1>1, <1>2, <1>3, WindowSettled DEF IInv
<1>6. ASSUME NEW kind \in Points \cap Kinds
      PROVE  Kept(LatestPoint(m, kind, decision), LatestPoint(m, kind, decision)', {})
  <2>1. CASE Observe(e)
    BY <1>2, <1>4, <2>1, PointSettled DEF IInv
  <2>2. CASE UNCHANGED <<histories, windows, accepted>>
    <3>1. LatestPoint(m, kind, decision)' = LatestPoint(m, kind, decision)
      BY <2>2 DEF LatestPoint, History, histories
    <3> QED
      BY <3>1 DEF Kept
  <2> QED
    BY <1>1, <2>1, <2>2
<1>7. ASSUME NEW kind \in Sampled \cap Kinds
      PROVE  Settled(SampleAt(kind, m, s, decision), SampleAt(kind, m, s, decision)', {})
  BY <1>2, <1>3, <1>4, SampleSettled DEF IInv
<1>8. Settled(CandleTail(m, s, decision), CandleTail(m, s, decision)', {})
  <2>1. CASE UNCHANGED candles
    <3>1. CandleTail(m, s, decision)' = CandleTail(m, s, decision)
      BY <2>1 DEF CandleTail
    <3> QED
      BY <3>1 DEF Settled, Kept
  <2>2. CASE ~ UNCHANGED candles
    <3>1. PICK c : /\ Stored(c) = {}
                   /\ \A k \in Keys : candles'[k] \subseteq candles[k]
                           \cup (IF k = <<c.market, c.sleeve>> THEN {c} ELSE {})
      BY <2>2, StepsByCandles
    <3> QED
      BY <1>4, <3>1, TailSettled DEF IInv
  <2> QED
    BY <2>1, <2>2
<1> QED
  BY <1>5, <1>6, <1>7, <1>8

\* What a decision reads is settled when its time has come: no fact received
\* later changes it (event_is_available, source_available_at).
THEOREM DecisionsAreSettled == Spec => LaterNeverChangesADecision
<1> DEFINE Settles == 
       \A e \in Handled, m \in Markets, sleeve \in Sleeves :
       \A decision \in {d \in Decisions(sleeve) : d < e.received} :
         /\ \A length \in {Micro, Short} :
              Kept(TradeWindow(m, sleeve, decision, length),
                   TradeWindow(m, sleeve, decision, length)', None)
         /\ \A kind \in Points \cap Kinds :
              Kept(LatestPoint(m, kind, decision), LatestPoint(m, kind, decision)', {})
         /\ \A kind \in Sampled \cap Kinds :
              Settled(SampleAt(kind, m, sleeve, decision),
                      SampleAt(kind, m, sleeve, decision)', {})
         /\ Settled(CandleTail(m, sleeve, decision),
                    CandleTail(m, sleeve, decision)', {})
<1>1. IInv /\ IInv' /\ [Next]_vars => [Settles]_vars
  <2> SUFFICES ASSUME IInv, IInv', Next
               PROVE  Settles
    OBVIOUS
  <2> QED
    BY LaterSettles
<1>2. [][Settles]_vars <=> LaterNeverChangesADecision
  BY DEF LaterNeverChangesADecision
<1> HIDE DEF Settles
<1> QED
  BY <1>1, <1>2, FeaturesInvariant, PTL DEF Spec
=============================================================================
