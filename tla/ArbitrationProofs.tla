-------------------------- MODULE ArbitrationProofs --------------------------
(***************************************************************************)
(* Proofs that an entry's market is fit and ranked, that no candidate that *)
(* clears every gate would earn more, and that every approval ends with    *)
(* the arbitration that made it, for all markets, limits, lengths of a     *)
(* bar, edges, costs, sizes of the cache and numbers of candidates.        *)
(***************************************************************************)
EXTENDS ArbitrationProperties, WellFoundedInduction, TLAPS

----------------------------------------------------------------------------
(* Hours and bars                                                          *)

\* A product with a positive number is not smaller than the number.
LEMMA Grows ==
  ASSUME NEW n \in Nat, n # 0, NEW H \in Nat
  PROVE  n * H >= H
<1>1. n * H = (n - 1) * H + H
  OBVIOUS
<1>2. (n - 1) \in Nat
  OBVIOUS
<1>3. (n - 1) * H \in Nat
  BY <1>2
<1> QED
  BY <1>1, <1>3

\* Multiples of a length are no closer to each other than it.
LEMMA Apart ==
  ASSUME NEW H \in Nat \ {0}, NEW j \in Int, NEW k \in Int,
         j * H < k * H + H, k * H < j * H + H
  PROVE  j = k
<1>1. CASE j > k
  <2>1. j - k \in Nat /\ j - k # 0
    BY <1>1
  <2>2. (j - k) * H >= H
    BY <2>1, Grows
  <2>3. (j - k) * H = j * H - k * H
    OBVIOUS
  <2> QED
    BY <2>2, <2>3
<1>2. CASE k > j
  <2>1. k - j \in Nat /\ k - j # 0
    BY <1>2
  <2>2. (k - j) * H >= H
    BY <2>1, Grows
  <2>3. (k - j) * H = k * H - j * H
    OBVIOUS
  <2> QED
    BY <2>2, <2>3
<1> QED
  BY <1>1, <1>2

\* What is left of a number without its remainder.
LEMMA Floor ==
  ASSUME NEW H \in Nat \ {0}, NEW a \in Nat
  PROVE  /\ a % H \in Nat /\ a % H < H
         /\ (a \div H) \in Int
         /\ a - (a % H) = (a \div H) * H
  OBVIOUS

\* A multiple leaves no remainder, nor does it when a length is added.
LEMMA NoRemainder ==
  ASSUME NEW H \in Nat \ {0}, NEW k \in Int, k * H \in Nat
  PROVE  (k * H) % H = 0
<1> DEFINE a == k * H
<1>1. a % H \in Nat /\ a % H < H /\ (a \div H) \in Int
      /\ a - (a % H) = (a \div H) * H
  BY Floor
<1>2. (a \div H) * H < k * H + H /\ k * H < (a \div H) * H + H
  BY <1>1
<1>3. (a \div H) = k
  BY <1>1, <1>2, Apart
<1> QED
  BY <1>1, <1>3

\* Two numbers without remainder, less than a length apart, are the same.
LEMMA SameMultiple ==
  ASSUME NEW H \in Nat \ {0}, NEW a \in Nat, NEW b \in Nat,
         a % H = 0, b % H = 0, a < b + H, b < a + H
  PROVE  a = b
<1>1. a = (a \div H) * H /\ b = (b \div H) * H
      /\ (a \div H) \in Int /\ (b \div H) \in Int
  BY Floor
<1>2. (a \div H) = (b \div H)
  <2> DEFINE j == a \div H
             k == b \div H
  <2>1. j \in Int /\ k \in Int /\ j * H < k * H + H /\ k * H < j * H + H
    BY <1>1
  <2> QED
    BY <2>1, Apart
<1> QED
  BY <1>1, <1>2

\* An hour is four bars.
LEMMA Lengths == Bar \in Nat \ {0} /\ Hour \in Nat \ {0} /\ Hour = 4 * Bar
BY UniverseAssumption DEF Hour

\* The hour of a moment is the last full one.
LEMMA LastHour ==
  ASSUME NEW x \in Nat
  PROVE  /\ HourOf(x) \in Nat /\ HourOf(x) % Hour = 0
         /\ HourOf(x) <= x /\ x < HourOf(x) + Hour
<1> DEFINE H == Hour
<1>1. H \in Nat \ {0}
  BY Lengths
<1>2. x % H \in Nat /\ x % H < H /\ (x \div H) \in Int
      /\ x - (x % H) = (x \div H) * H
  BY <1>1, Floor
<1>3. x - (x % H) \in Nat
  <2>1. (x \div H) >= 0
    BY <1>1
  <2> QED
    BY <1>2, <2>1, <1>1
<1>4. (x - (x % H)) % H = 0
  <2> DEFINE k == x \div H
  <2>1. k \in Int /\ k * H \in Nat /\ x - (x % H) = k * H
    BY <1>2, <1>3
  <2>2. (k * H) % H = 0
    BY <1>1, <2>1, NoRemainder
  <2> QED
    BY <2>1, <2>2
<1> QED
  BY <1>1, <1>2, <1>3, <1>4 DEF HourOf

\* A full hour within which a moment falls is the moment's hour.
LEMMA WithinHour ==
  ASSUME NEW x \in Nat, NEW h \in Nat, h % Hour = 0, h <= x, x < h + Hour
  PROVE  HourOf(x) = h
<1> DEFINE H == Hour
           a == HourOf(x)
<1>1. H \in Nat \ {0}
  BY Lengths
<1>2. a \in Nat /\ a % H = 0 /\ a <= x /\ x < a + H
  BY LastHour
<1>3. h % H = 0 /\ x < h + H
  OBVIOUS
<1>4. a < h + H /\ h < a + H
  BY <1>1, <1>2, <1>3
<1> HIDE DEF H, a
<1> QED
  BY <1>1, <1>2, <1>3, <1>4, SameMultiple DEF a

\* One hour after a full hour is a full hour.
LEMMA NextHour ==
  ASSUME NEW h \in Nat, h % Hour = 0
  PROVE  h + Hour \in Nat /\ (h + Hour) % Hour = 0
<1> DEFINE H == Hour
           k == h \div H
<1>1. H \in Nat \ {0}
  BY Lengths
<1>2. k \in Int /\ h = k * H
  BY <1>1, Floor
<1>3. k + 1 \in Int /\ (k + 1) * H = h + H /\ (k + 1) * H \in Nat
  BY <1>1, <1>2
<1>4. ((k + 1) * H) % H = 0
  BY <1>1, <1>3, NoRemainder
<1> QED
  BY <1>1, <1>3, <1>4

\* A full hour ends a bar.
LEMMA HourEndsBar ==
  ASSUME NEW h \in Nat, h % Hour = 0
  PROVE  h % Bar = 0
<1> DEFINE H == Hour
           k == h \div H
<1>1. H \in Nat \ {0}
  BY Lengths
<1>2. k \in Int /\ h = k * H
  BY <1>1, Floor
<1>3. Bar \in Nat \ {0} /\ H = 4 * Bar
  BY Lengths
<1> HIDE DEF H, k
<1>4. 4 * k \in Int /\ (4 * k) * Bar = h
  BY <1>2, <1>3
<1>5. ((4 * k) * Bar) % Bar = 0
  BY <1>3, <1>4, NoRemainder
<1> QED
  BY <1>4, <1>5

----------------------------------------------------------------------------
(* The invariant                                                           *)

\* Only a fit market is ranked.
LEMMA RankedAreFit ==
  ASSUME NEW hour, NEW candidates
  PROVE  /\ Select(hour, candidates).hour = hour
         /\ Ranked(Select(hour, candidates)) \subseteq Select(hour, candidates).fit
BY DEF Select, Ranked

\* Nothing is held before the first activation.
LEMMA Initially == Init => IInv
BY DEF Init, IInv, ApprovalsEndWithTheArbitration

\* Selecting an hour forgets no snapshot the held activation rests on.
LEMMA SelectionKeeps ==
  ASSUME IInv, NEW candidates, SelectUniverse(candidates)
  PROVE  IInv'
<1> DEFINE H == HourOf(now)
           new == Select(H, candidates)
           a == activation
<1> USE DEF SelectUniverse
<1>1. now \in Nat /\ H \in Nat /\ H % Hour = 0 /\ H <= now /\ now < H + Hour
  BY LastHour DEF IInv
<1>2. snapshots' = {s \in snapshots : s.hour = H - Hour} \cup {new}
      /\ \A s \in snapshots : s.hour # H
  OBVIOUS
<1>3. \A s \in snapshots' : Snapshot(s)'
  <2>1. new.hour = H /\ Ranked(new) \subseteq new.fit
    BY RankedAreFit
  <2>2. Snapshot(new)'
    BY <1>1, <2>1 DEF Snapshot
  <2>3. \A s \in snapshots : Snapshot(s)'
    BY DEF IInv, Snapshot
  <2> QED
    BY <1>2, <2>2, <2>3
<1>4. ASSUME a # NoActivation
      PROVE  Timed(a)' /\ Provenance(a)'
  <2>1. Timed(a) /\ Provenance(a)
    BY <1>4 DEF IInv
  <2>2. Timed(a)'
    BY <2>1 DEF Timed
  <2>3. ASSUME now < a.hour + Hour
        PROVE  H = a.hour
    BY <1>1, <2>1, <2>3, Lengths, WithinHour DEF Timed
  <2>4. CASE a.from < a.hour + Bar
    <3>1. ~(now < a.hour + Hour)
      <4> SUFFICES ASSUME now < a.hour + Hour
                   PROVE  FALSE
        OBVIOUS
      <4>1. PICK s \in snapshots : s.hour = a.hour
        BY <2>1, <2>4 DEF Provenance, KeptFit
      <4> QED
        BY <1>2, <2>3, <4>1
    <3>2. now' = now /\ a' = a
      OBVIOUS
    <3> QED
      BY <2>2, <2>4, <3>1, <3>2 DEF Provenance
  <2>5. CASE ~(a.from < a.hour + Bar)
    <3> SUFFICES ASSUME now < a.hour + 2 * Hour
                 PROVE  KeptRanks(a, a.hour)'
      <4>1. now' = now /\ a' = a
        OBVIOUS
      <4> QED
        BY <2>2, <2>5, <4>1 DEF Provenance
    <3>1. PICK s \in snapshots : s.hour = a.hour /\ a.markets \subseteq Ranked(s)
      BY <2>1, <2>5 DEF Provenance, KeptRanks
    <3>2. ~(now < a.hour + Hour)
      BY <1>2, <2>3, <3>1
    <3>3. a.hour \in Nat /\ a.hour % Hour = 0
      BY <2>1 DEF Timed
    <3>4. a.hour + Hour \in Nat /\ (a.hour + Hour) % Hour = 0
      BY <3>3, NextHour
    <3>5. a.hour + Hour <= now /\ now < (a.hour + Hour) + Hour
      BY <1>1, <3>2, <3>3, Lengths
    <3>6. H = a.hour + Hour
      BY <1>1, <3>4, <3>5, WithinHour
    <3>7. s.hour = H - Hour
      BY <3>1, <3>3, <3>6, Lengths
    <3>8. s \in snapshots'
      BY <1>2, <3>7
    <3> QED
      BY <3>1, <3>8 DEF KeptRanks
  <2> QED
    BY <2>4, <2>5
<1> QED
  BY <1>1, <1>3, <1>4 DEF IInv, ApprovalsEndWithTheArbitration, engine

\* An activation takes fit markets and ranks of the right hours.
LEMMA ActivationKeeps ==
  ASSUME IInv, NEW snapshot \in snapshots,
         NEW current \in {NoActivation, activation},
         ActivateUniverse(snapshot, current)
  PROVE  IInv'
<1> DEFINE a == activation'
<1> USE DEF ActivateUniverse
<1>1. /\ a = Activated(snapshot, current, now)
      /\ now' = now /\ snapshots' = snapshots
  OBVIOUS
<1>2. /\ now \in Nat /\ now % Bar = 0
      /\ now >= snapshot.hour /\ now < snapshot.hour + Hour
      /\ current # NoActivation => /\ current.hour = snapshot.hour - Hour
                                  /\ current.until = snapshot.hour
  BY DEF IInv, MayActivate
<1>3. snapshot.hour \in Nat /\ snapshot.hour % Hour = 0
      /\ Ranked(snapshot) \subseteq snapshot.fit
  BY DEF IInv, Snapshot
<1>4. /\ a.hour = snapshot.hour /\ a.from = now /\ a.until = now + Bar
      /\ a.markets = IF now < snapshot.hour + Bar
                       THEN current.markets \cap snapshot.fit
                       ELSE Ranked(snapshot)
  BY <1>1 DEF Activated
<1>5. Timed(activation)'
  BY <1>1, <1>2, <1>3, <1>4, Lengths DEF Timed
<1>6. ASSUME now < snapshot.hour + Bar
      PROVE  Provenance(activation)'
  <2>1. KeptFit(activation)'
    BY <1>1, <1>4, <1>6 DEF KeptFit
  <2>2. CASE current = NoActivation
    <3>1. a.markets = {}
      BY <1>4, <1>6, <2>2 DEF NoActivation
    <3> QED
      BY <1>1, <1>4, <1>6, <2>1, <3>1 DEF Provenance
  <2>3. CASE current # NoActivation
    <3>1. current = activation /\ Timed(activation) /\ Provenance(activation)
      BY <2>3 DEF IInv
    <3>2. /\ ~(activation.from < activation.hour + Bar)
          /\ now < activation.hour + 2 * Hour
          /\ activation.hour = snapshot.hour - Hour
      BY <1>2, <1>3, <2>3, <3>1, Lengths DEF Timed
    <3>3. PICK s \in snapshots : /\ s.hour = snapshot.hour - Hour
                                 /\ activation.markets \subseteq Ranked(s)
      BY <3>1, <3>2 DEF Provenance, KeptRanks
    <3>4. s \in snapshots' /\ s.hour = a.hour - Hour /\ a.markets \subseteq Ranked(s)
      BY <1>1, <1>4, <1>6, <3>1, <3>3
    <3>5. (a.markets = {} \/ KeptRanks(activation, activation.hour - Hour)')
      BY <3>4 DEF KeptRanks
    <3> QED
      BY <1>1, <1>4, <1>6, <2>1, <3>5 DEF Provenance
  <2> QED
    BY <2>2, <2>3
<1>7. ASSUME ~(now < snapshot.hour + Bar)
      PROVE  Provenance(activation)'
  <2>1. KeptRanks(activation, activation.hour)'
    BY <1>1, <1>4, <1>7 DEF KeptRanks
  <2> QED
    BY <1>1, <1>4, <1>7, <2>1 DEF Provenance
<1>8. Provenance(activation)'
  BY <1>6, <1>7
<1>9. \A s \in snapshots' : Snapshot(s)'
  BY <1>1 DEF IInv, Snapshot
<1> QED
  BY <1>1, <1>2, <1>5, <1>8, <1>9
  DEF IInv, ApprovalsEndWithTheArbitration, engine

\* An arbitration leaves no approval behind.
LEMMA ArbitrationKeeps ==
  ASSUME IInv, NEW candidates, NEW verdicts, Arbitrate(candidates, verdicts)
  PROVE  IInv'
<1> DEFINE cache == Quotes(candidates, verdicts).approvals
<1>1. UNCHANGED <<now, snapshots, activation, signals>>
  BY DEF Arbitrate, caller
<1>2. approvals = {} /\ failure = "none"
  BY DEF IInv, ApprovalsEndWithTheArbitration, Arbitrate, Running
<1>3. approvals' = {} /\ failure' \in {"none", "candidate time"}
  <2>1. CASE \E i \in DOMAIN candidates : candidates[i].at # now
    BY <1>2, <2>1 DEF Arbitrate
  <2>2. CASE ~(\E i \in DOMAIN candidates : candidates[i].at # now)
             /\ cache \ approvals = {}
    BY <1>2, <2>2 DEF Arbitrate
  <2>3. CASE ~(\E i \in DOMAIN candidates : candidates[i].at # now)
             /\ cache \ approvals # {}
    BY <1>2, <2>3 DEF Arbitrate, Left
  <2> QED
    BY <2>1, <2>2, <2>3
<1>4. (\A s \in snapshots : Snapshot(s)) => (\A s \in snapshots : Snapshot(s))'
  BY <1>1 DEF Snapshot
<1>5. Timed(activation) /\ Provenance(activation)
        => Timed(activation)' /\ Provenance(activation)'
  BY <1>1 DEF Timed, Provenance, KeptFit, KeptRanks
<1> QED
  BY <1>1, <1>3, <1>4, <1>5 DEF IInv, ApprovalsEndWithTheArbitration

\* Time takes away what may be used, and nothing an activation rests on.
LEMMA TimeKeeps ==
  ASSUME IInv, TimePasses
  PROVE  IInv'
<1>1. /\ now' = now + 1 /\ signals' \subseteq signals
      /\ UNCHANGED <<snapshots, activation, approvals, failure>>
  BY DEF TimePasses, engine
<1>2. \A s \in snapshots' : Snapshot(s)'
  BY <1>1 DEF IInv, Snapshot
<1>3. ASSUME activation # NoActivation
      PROVE  Timed(activation)' /\ Provenance(activation)'
  <2>1. now \in Nat /\ Timed(activation) /\ Provenance(activation)
    BY <1>3 DEF IInv
  <2>2. /\ now' < activation.hour + Hour => now < activation.hour + Hour
        /\ now' < activation.hour + 2 * Hour => now < activation.hour + 2 * Hour
    BY <1>1, <2>1, Lengths DEF Timed
  <2>3. Timed(activation)'
    BY <1>1, <2>1 DEF Timed
  <2>4. Provenance(activation)'
    BY <1>1, <2>1, <2>2 DEF Provenance, KeptFit, KeptRanks
  <2> QED
    BY <2>3, <2>4
<1>4. activation' = NoActivation \/ (Timed(activation)' /\ Provenance(activation)')
  BY <1>1, <1>3
<1>5. now' \in Nat
  BY <1>1 DEF IInv
<1>6. \A c \in signals' : c.at \in Nat /\ c.at % Bar = 0
  BY <1>1 DEF IInv
<1>7. ApprovalsEndWithTheArbitration'
  BY <1>1 DEF IInv, ApprovalsEndWithTheArbitration
<1> QED
  BY <1>2, <1>4, <1>5, <1>6, <1>7 DEF IInv

\* What the invariant is about is untouched by a step of another kind.
LEMMA RestKeeps ==
  ASSUME IInv, UNCHANGED <<now, snapshots, activation, approvals, failure>>,
         signals' = signals \/ \E m \in Markets, edge \in Edges : Signal(m, edge)
  PROVE  IInv'
<1>1. \A c \in signals' : c.at \in Nat /\ c.at % Bar = 0
  <2>1. CASE signals' = signals
    BY <2>1 DEF IInv
  <2>2. ASSUME NEW m \in Markets, NEW edge \in Edges, Signal(m, edge)
        PROVE  \A c \in signals' : c.at \in Nat /\ c.at % Bar = 0
    <3> DEFINE new == [market |-> m, at |-> now, edge |-> edge,
                       universe |-> <<activation.hour, activation.markets>>]
    <3>1. signals' = signals \cup {new} /\ now % Bar = 0
      BY <2>2 DEF Signal
    <3>2. new.at = now
      OBVIOUS
    <3> QED
      BY <3>1, <3>2 DEF IInv
  <2> QED
    BY <2>1, <2>2
<1>2. \A s \in snapshots' : Snapshot(s)'
  BY DEF IInv, Snapshot
<1>3. Timed(activation) /\ Provenance(activation)
        => Timed(activation)' /\ Provenance(activation)'
  BY DEF Timed, Provenance, KeptFit, KeptRanks
<1> QED
  BY <1>1, <1>2, <1>3 DEF IInv, ApprovalsEndWithTheArbitration

\* Every step preserves the invariant.
THEOREM ArbitrationInductive == IInv /\ [Next]_vars => IInv'
<1> SUFFICES ASSUME IInv, [Next]_vars
             PROVE  IInv'
  OBVIOUS
<1>1. CASE TimePasses
  BY <1>1, TimeKeeps
<1>2. CASE \E candidates \in [Markets -> Candidates] : SelectUniverse(candidates)
  BY <1>2, SelectionKeeps
<1>3. CASE \E snapshot \in snapshots, current \in {NoActivation, activation} :
             ActivateUniverse(snapshot, current)
  BY <1>3, ActivationKeeps
<1>4. CASE \E m \in Markets, edge \in Edges : Signal(m, edge)
  <2>1. UNCHANGED <<now, snapshots, activation, approvals, failure>>
    BY <1>4 DEF Signal, engine
  <2> QED
    BY <1>4, <2>1, RestKeeps
<1>5. CASE BecomeFlat
  BY <1>5, RestKeeps DEF BecomeFlat, caller
<1>6. CASE \E candidates \in Orders : \E verdicts \in [DOMAIN candidates -> Verdicts] :
             Arbitrate(candidates, verdicts)
  BY <1>6, ArbitrationKeeps
<1>7. CASE UNCHANGED vars
  BY <1>7, RestKeeps DEF vars
<1> QED
  BY <1>1, <1>2, <1>3, <1>4, <1>5, <1>6, <1>7 DEF Next

(* What is held at every moment rests on the right snapshots, and no approval
   is outstanding between two decisions. *)
THEOREM ArbitrationInvariant == Spec => []IInv
BY Initially, ArbitrationInductive, PTL DEF Spec

(* No approval outlives its arbitration, so binding the policies of the next
   decision never fails (discard_quote, consume_quote, with_risk_policies). *)
THEOREM ApprovalsEnd == Spec => []ApprovalsEndWithTheArbitration
<1>1. IInv => ApprovalsEndWithTheArbitration
  BY DEF IInv
<1> QED
  BY <1>1, ArbitrationInvariant, PTL

----------------------------------------------------------------------------
(* Entries                                                                 *)

\* An entry's market is one of an activation made at this very moment.
LEMMA EnteredOfActivation ==
  ASSUME IInv, NEW candidates \in Orders, NEW verdicts,
         Arbitrate(candidates, verdicts), entry' # entry, entry' # NoEntry
  PROVE  /\ activation # NoActivation /\ activation.from = now
         /\ entry'.market \in activation.markets
<1>1. /\ ~(\E i \in DOMAIN candidates : candidates[i].at # now)
      /\ Supports(candidates)
      /\ \E i \in DOMAIN candidates : entry'.market = candidates[i].market
  <2> DEFINE accepted == Quotes(candidates, verdicts).approvals \ approvals
  <2>1. /\ Supports(candidates)
        /\ ~(\E i \in DOMAIN candidates : candidates[i].at # now)
        /\ \E winner \in Best(accepted), i \in DOMAIN candidates :
             entry' = [market |-> candidates[i].market, edge |-> winner.edge,
                       better |-> {e \in Rivals(candidates, verdicts) :
                                     e > winner.edge},
                       crowded |-> Quotes(candidates, verdicts).crowded]
    BY ZenonT(30) DEF Arbitrate
  <2>2. PICK winner \in Best(accepted), i \in DOMAIN candidates :
             entry' = [market |-> candidates[i].market, edge |-> winner.edge,
                       better |-> {e \in Rivals(candidates, verdicts) :
                                     e > winner.edge},
                       crowded |-> Quotes(candidates, verdicts).crowded]
    BY <2>1
  <2>3. entry'.market = candidates[i].market
    BY <2>2
  <2> QED
    BY <2>1, <2>3
<1>2. PICK i \in DOMAIN candidates : entry'.market = candidates[i].market
  BY <1>1
<1>3. candidates[i] \in signals /\ candidates[i].at = now
  BY <1>1, <1>2 DEF Orders
<1>4. now \in Nat /\ now % Bar = 0
  BY <1>3 DEF IInv
<1>5. activation.markets # {} /\ IsEffectiveFor(activation, now)
      /\ entry'.market \in activation.markets
  BY <1>1, <1>2 DEF Supports
<1>6. activation # NoActivation
  BY <1>5 DEF NoActivation
<1>7. Timed(activation)
  BY <1>6 DEF IInv
<1>8. activation.from <= now /\ now < activation.from + Bar
  BY <1>5, <1>7 DEF IsEffectiveFor, Timed
<1>9. activation.from \in Nat /\ activation.from % Bar = 0
  BY <1>7 DEF Timed
<1>10. activation.from = now
  <2>1. activation.from < now + Bar
    BY <1>4, <1>8, <1>9, Lengths
  <2> QED
    BY <1>4, <1>8, <1>9, <2>1, Lengths, SameMultiple
<1> QED
  BY <1>5, <1>6, <1>10

\* Such an activation holds only what is fit now and was ranked in time.
LEMMA ActivationIsRankedAndFit ==
  ASSUME IInv, activation # NoActivation, activation.from = now,
         NEW m \in activation.markets
  PROVE  /\ \E s \in snapshots : s.hour = HourOf(now) /\ m \in s.fit
         /\ \E s \in snapshots :
              m \in Ranked(s) /\ now - s.hour >= Bar /\ now - s.hour <= Hour
<1> DEFINE a == activation
<1>1. now \in Nat /\ Timed(a) /\ Provenance(a)
  BY DEF IInv
<1>2. /\ a.hour \in Nat /\ a.hour % Hour = 0
      /\ a.hour <= now /\ now < a.hour + Hour
  BY <1>1 DEF Timed
<1>3. HourOf(now) = a.hour
  BY <1>1, <1>2, WithinHour
<1>4. CASE now < a.hour + Bar
  <2>1. KeptFit(a) /\ KeptRanks(a, a.hour - Hour)
    BY <1>1, <1>2, <1>4 DEF Provenance
  <2>2. now = a.hour
    <3>1. now % Bar = 0 /\ a.hour % Bar = 0
      BY <1>1, <1>2, HourEndsBar DEF Timed
    <3>2. a.hour < now + Bar
      BY <1>1, <1>2, Lengths
    <3> QED
      BY <1>1, <1>2, <1>4, <3>1, <3>2, Lengths, SameMultiple
  <2>3. PICK s \in snapshots : s.hour = a.hour - Hour /\ a.markets \subseteq Ranked(s)
    BY <2>1 DEF KeptRanks
  <2>4. now - s.hour >= Bar /\ now - s.hour <= Hour
    BY <1>2, <2>2, <2>3, Lengths
  <2> QED
    BY <1>3, <2>1, <2>3, <2>4 DEF KeptFit
<1>5. CASE ~(now < a.hour + Bar)
  <2>1. now < a.hour + 2 * Hour
    BY <1>1, <1>2, Lengths
  <2>2. PICK s \in snapshots : s.hour = a.hour /\ a.markets \subseteq Ranked(s)
    BY <1>1, <1>5, <2>1 DEF Provenance, KeptRanks
  <2>3. Ranked(s) \subseteq s.fit
    BY <2>2 DEF IInv, Snapshot
  <2>4. now - s.hour >= Bar /\ now - s.hour <= Hour
    BY <1>1, <1>2, <1>5, <2>2, Lengths
  <2> QED
    BY <1>3, <2>2, <2>3, <2>4
<1> QED
  BY <1>4, <1>5

(* Every entry is of a market that is fit in the snapshot of its hour and was
   ranked tradeable between a bar and an hour before, whatever the caller
   held, missed or made late (UniverseSelector::activate, supports). *)
THEOREM EntriesRanked == Spec => EntriesAreRankedAndFit
<1> DEFINE Entered ==
      entry' # entry /\ entry' # NoEntry =>
        /\ \E s \in snapshots :
             s.hour = HourOf(now) /\ entry'.market \in s.fit
        /\ \E s \in snapshots :
             /\ entry'.market \in Ranked(s)
             /\ now - s.hour >= Bar /\ now - s.hour <= Hour
<1>1. ASSUME IInv, Next
      PROVE  Entered
  <2> SUFFICES ASSUME entry' # entry, entry' # NoEntry
               PROVE  Entered
    OBVIOUS
  <2>1. PICK candidates \in Orders :
          \E verdicts \in [DOMAIN candidates -> Verdicts] :
            Arbitrate(candidates, verdicts)
    BY <1>1 DEF Next, TimePasses, SelectUniverse, ActivateUniverse, Signal,
                BecomeFlat, engine
  <2>2. /\ activation # NoActivation /\ activation.from = now
        /\ entry'.market \in activation.markets
    BY <1>1, <2>1, EnteredOfActivation
  <2> QED
    BY <1>1, <2>2, ActivationIsRankedAndFit
<1>2. IInv /\ [Next]_vars => [Entered]_vars
  BY <1>1
<1> QED
  BY <1>2, ArbitrationInvariant, PTL DEF Spec, EntriesAreRankedAndFit

----------------------------------------------------------------------------
(* The best of the quotes                                                  *)

\* The natural numbers are well ordered by the relation of <.
LEMMA NatsWellFounded ==
  \E R : /\ IsWellFoundedOn(R, Nat)
         /\ \A x, y \in Nat : <<y, x>> \in R <=> y < x
<1>1. \A x, y \in Nat : <<y, x>> \in OpToRel(<, Nat) <=> y < x
  BY DEF OpToRel
<1> QED
  BY <1>1, NatLessThanWellFounded

\* Induction over the natural numbers, for a set of them.
LEMMA SetInduction ==
  ASSUME NEW P \in SUBSET Nat, 0 \in P, \A n \in P : n + 1 \in P
  PROVE  P = Nat
<1> SUFFICES ASSUME Nat \ P # {}
             PROVE  FALSE
  OBVIOUS
<1> DEFINE T == Nat \ P
<1>1. PICK R : /\ IsWellFoundedOn(R, Nat)
               /\ \A x, y \in Nat : <<y, x>> \in R <=> y < x
  BY NatsWellFounded
<1>2. T \subseteq Nat /\ T # {}
  OBVIOUS
<1>3. IsWellFoundedOn(R, Nat)
  BY <1>1
<1> HIDE DEF T
<1>4. \E x \in T : \A y \in T : ~ (<<y, x>> \in R)
  BY <1>2, <1>3, WFMin
<1>5. PICK x \in T : \A y \in T : ~ (<<y, x>> \in R)
  BY <1>4
<1>6. x \in Nat \ {0} /\ x \notin P
  BY DEF T
<1>7. x - 1 \in Nat /\ x - 1 < x /\ x = (x - 1) + 1
  BY <1>6
<1>8. x - 1 \notin P
  BY <1>6, <1>7
<1>9. x - 1 \in T
  BY <1>7, <1>8 DEF T
<1> QED
  BY <1>1, <1>5, <1>6, <1>7, <1>9

(* The risk engine before and after each of the first n quotes. *)
Quoted(s, candidates, verdicts, n) ==
  s = [i \in 0 .. n |->
         IF i = 0 THEN [approvals |-> approvals, crowded |-> FALSE]
         ELSE Quote(s[i - 1], i, candidates[i], verdicts[i])]

\* There are such steps, however many candidates are quoted.
LEMMA QuoteSteps ==
  ASSUME NEW candidates, NEW verdicts, NEW n \in Nat
  PROVE  \E s : Quoted(s, candidates, verdicts, n)
<1> DEFINE Start == [approvals |-> approvals, crowded |-> FALSE]
           Step(s, i) == Quote(s, i, candidates[i], verdicts[i])
           Def(s, k) == [i \in 0 .. k |->
                           IF i = 0 THEN Start ELSE Step(s[i - 1], i)]
           P == {k \in Nat : \E s : s = Def(s, k)}
<1>0. \A s, k : Quoted(s, candidates, verdicts, k) <=> s = Def(s, k)
  BY DEF Quoted
<1> HIDE DEF Start, Step
<1>1. 0 \in P
  <2> DEFINE s == [i \in 0 .. 0 |-> Start]
  <2>1. s = Def(s, 0)
    OBVIOUS
  <2> QED
    BY <2>1
<1>2. ASSUME NEW k \in P
      PROVE  k + 1 \in P
  <2>1. PICK s : s = Def(s, k)
    OBVIOUS
  <2> DEFINE t == [i \in 0 .. k + 1 |->
                     IF i = k + 1 THEN Step(s[k], k + 1) ELSE s[i]]
  <2>2. ASSUME NEW i \in 0 .. k + 1
        PROVE  t[i] = IF i = 0 THEN Start ELSE Step(t[i - 1], i)
    <3>1. k \in Nat
      OBVIOUS
    <3>2. CASE i = k + 1
      <4>1. i - 1 = k /\ k \in 0 .. k + 1 /\ k # k + 1
        BY <3>1, <3>2
      <4>2. t[i - 1] = s[k]
        BY <4>1
      <4>3. t[i] = Step(s[k], k + 1) /\ i # 0
        BY <3>1, <3>2
      <4> QED
        BY <3>2, <4>2, <4>3
    <3>3. CASE i # k + 1 /\ i # 0
      <4>1. i \in 0 .. k /\ i - 1 \in 0 .. k + 1 /\ i - 1 # k + 1
        BY <3>1, <3>3
      <4>2. t[i] = s[i] /\ t[i - 1] = s[i - 1]
        BY <3>3, <4>1
      <4>3. s[i] = Step(s[i - 1], i)
        BY <2>1, <3>3, <4>1
      <4> QED
        BY <3>3, <4>2, <4>3
    <3>4. CASE i = 0
      <4>1. i \in 0 .. k /\ i # k + 1
        BY <3>1, <3>4
      <4>2. t[i] = s[i] /\ s[i] = Start
        BY <2>1, <3>4, <4>1
      <4> QED
        BY <3>4, <4>2
    <3> QED
      BY <3>2, <3>3, <3>4
  <2>3. t = Def(t, k + 1)
    BY <2>2
  <2>4. k + 1 \in Nat
    OBVIOUS
  <2> HIDE DEF t
  <2> QED
    BY <2>3, <2>4
<1>3. P = Nat
  <2>1. P \in SUBSET Nat
    OBVIOUS
  <2> QED
    BY <1>1, <1>2, <2>1, SetInduction
<1> QED
  BY <1>0, <1>3

\* Quotes is the last of them.
LEMMA QuotesIsLast ==
  ASSUME NEW candidates, NEW verdicts, Len(candidates) \in Nat
  PROVE  \E s : /\ Quoted(s, candidates, verdicts, Len(candidates))
                /\ Quotes(candidates, verdicts) = s[Len(candidates)]
<1> DEFINE s == CHOOSE s : Quoted(s, candidates, verdicts, Len(candidates))
<1>1. \E t : Quoted(t, candidates, verdicts, Len(candidates))
  BY QuoteSteps
<1>2. Quoted(s, candidates, verdicts, Len(candidates))
  BY <1>1
<1>3. Quotes(candidates, verdicts) = s[Len(candidates)]
  BY DEF Quotes, Quoted
<1> HIDE DEF s
<1> QED
  BY <1>2, <1>3

(* After n quotes every approval is of this moment, and every candidate that
   cleared has its own, unless the cache was full. *)
Compared(s, candidates, verdicts, n) ==
  /\ \A a \in s.approvals : a.through = now /\ a.edge \in Int
  /\ ~s.crowded =>
       \A j \in 1 .. n :
         Clears(candidates[j], verdicts[j]) =>
           \E a \in s.approvals : a.edge = candidates[j].edge - verdicts[j].cost

\* One more quote.
LEMMA ComparedStep ==
  ASSUME NEW candidates, NEW verdicts, NEW n \in Nat, NEW s, now \in Nat,
         Compared(s, candidates, verdicts, n), s.crowded \in BOOLEAN,
         candidates[n + 1].edge \in Nat, verdicts[n + 1] \in Verdicts,
         NEW t, t = Quote(s, n + 1, candidates[n + 1], verdicts[n + 1]),
         s = [approvals |-> s.approvals, crowded |-> s.crowded]
  PROVE  /\ Compared(t, candidates, verdicts, n + 1) /\ t.crowded \in BOOLEAN
         /\ t = [approvals |-> t.approvals, crowded |-> t.crowded]
<1> DEFINE c == candidates[n + 1]
           v == verdicts[n + 1]
           new == [of |-> n + 1, through |-> now, edge |-> c.edge - v.cost]
           full == Cardinality(s.approvals) >= MaxApprovals
<1>1. {a \in s.approvals : a.through >= now} = s.approvals
  BY DEF Compared
<1>2. /\ v.gate = "none" => v.cost \in Nat
      /\ v.gate \in {"context", "size", "strategy", "none"}
  BY ArbitrationAssumption DEF Verdicts
<1>3. t = IF v.gate = "context" THEN s
          ELSE IF full
            THEN [approvals |-> s.approvals,
                  crowded |-> s.crowded \/ Clears(c, v)]
          ELSE IF Clears(c, v) THEN [s EXCEPT !.approvals = s.approvals \cup {new}]
          ELSE [s EXCEPT !.approvals = s.approvals]
  BY <1>1 DEF Quote
<1>4. \A j \in 1 .. n + 1 : j \in 1 .. n \/ j = n + 1
  OBVIOUS
<1>5. CASE v.gate = "context"
  <2>1. t = s /\ ~Clears(c, v)
    BY <1>3, <1>5 DEF Clears
  <2> QED
    BY <1>4, <2>1 DEF Compared
<1>6. CASE v.gate # "context" /\ full
  <2>1. t = [approvals |-> s.approvals, crowded |-> s.crowded \/ Clears(c, v)]
    BY <1>3, <1>6
  <2>2. t.approvals = s.approvals /\ t.crowded = (s.crowded \/ Clears(c, v))
    BY <2>1
  <2>3. t.crowded \in BOOLEAN /\ t = [approvals |-> t.approvals, crowded |-> t.crowded]
    BY <2>1, <2>2
  <2>4. ~t.crowded => ~s.crowded /\ ~Clears(c, v)
    BY <2>2
  <2> QED
    BY <1>4, <2>2, <2>3, <2>4 DEF Compared
<1>7. CASE v.gate # "context" /\ ~full /\ Clears(c, v)
  <2>1. t = [s EXCEPT !.approvals = s.approvals \cup {new}]
    BY <1>3, <1>7
  <2>2. t.approvals = s.approvals \cup {new} /\ t.crowded = s.crowded
        /\ t = [approvals |-> t.approvals, crowded |-> t.crowded]
    BY <2>1
  <2>3. new.through = now /\ new.edge = c.edge - v.cost /\ new.edge \in Int
    BY <1>2, <1>7 DEF Clears
  <2> QED
    BY <1>4, <2>2, <2>3 DEF Compared
<1>8. CASE v.gate # "context" /\ ~full /\ ~Clears(c, v)
  <2>1. t = [s EXCEPT !.approvals = s.approvals]
    BY <1>3, <1>8
  <2>2. t.approvals = s.approvals /\ t.crowded = s.crowded
        /\ t = [approvals |-> t.approvals, crowded |-> t.crowded]
    BY <2>1
  <2> QED
    BY <1>4, <1>8, <2>2 DEF Compared
<1> QED
  BY <1>5, <1>6, <1>7, <1>8

\* The moments and edges of candidates, and how many there are.
LEMMA OrderFields ==
  ASSUME NEW candidates \in Orders
  PROVE  /\ Len(candidates) \in Nat /\ DOMAIN candidates = 1 .. Len(candidates)
         /\ \A i \in 1 .. Len(candidates) : candidates[i] \in signals
<1>1. PICK n \in 1 .. MaxSignals : candidates \in [1 .. n -> signals]
  BY DEF Orders
<1>2. n \in Nat
  BY <1>1, ArbitrationAssumption
<1>3. candidates \in Seq(signals) /\ Len(candidates) = n
  BY <1>1, <1>2
<1> QED
  BY <1>1, <1>2, <1>3

(* A candidate has one of the edges. *)
EdgesTyped == \A c \in signals : c.edge \in Edges

\* When every candidate was quoted, all that cleared were compared.
LEMMA AllCompared ==
  ASSUME EdgesTyped, now \in Nat, approvals = {}, NEW candidates \in Orders,
         NEW verdicts \in [DOMAIN candidates -> Verdicts]
  PROVE  Compared(Quotes(candidates, verdicts), candidates, verdicts, Len(candidates))
<1> DEFINE n == Len(candidates)
<1>1. /\ n \in Nat /\ DOMAIN candidates = 1 .. n
      /\ \A i \in 1 .. n : candidates[i].edge \in Nat /\ verdicts[i] \in Verdicts
  BY OrderFields, ArbitrationAssumption DEF EdgesTyped
<1> HIDE DEF n
<1>2. PICK s : Quoted(s, candidates, verdicts, n) /\ Quotes(candidates, verdicts) = s[n]
  BY <1>1, QuotesIsLast DEF n
<1>3. /\ s[0] = [approvals |-> approvals, crowded |-> FALSE]
      /\ \A i \in 1 .. n : s[i] = Quote(s[i - 1], i, candidates[i], verdicts[i])
  <2>1. 0 \in 0 .. n /\ \A i \in 1 .. n : i \in 0 .. n /\ i # 0
    BY <1>1
  <2> QED
    BY <1>2, <2>1 DEF Quoted
<1> DEFINE Good(i) == /\ Compared(s[i], candidates, verdicts, i)
                      /\ s[i].crowded \in BOOLEAN
                      /\ s[i] = [approvals |-> s[i].approvals,
                                 crowded |-> s[i].crowded]
           P == {i \in Nat : i <= n => Good(i)}
<1>4. 0 \in P
  <2>1. s[0].approvals = {} /\ s[0].crowded = FALSE
    BY <1>3
  <2>2. Good(0)
    BY <1>3, <2>1 DEF Compared
  <2> QED
    BY <2>2
<1>5. ASSUME NEW i \in P
      PROVE  i + 1 \in P
  <2>1. i \in Nat /\ i + 1 \in Nat
    OBVIOUS
  <2>2. ASSUME i + 1 <= n
        PROVE  Good(i + 1)
    <3>1. i <= n /\ i + 1 \in 1 .. n /\ (i + 1) - 1 = i
      BY <1>1, <2>1, <2>2
    <3>2. Good(i)
      BY <3>1
    <3>3. s[i + 1] = Quote(s[i], i + 1, candidates[i + 1], verdicts[i + 1])
      BY <1>3, <3>1
    <3>4. candidates[i + 1].edge \in Nat /\ verdicts[i + 1] \in Verdicts
      BY <1>1, <3>1
    <3> HIDE DEF P
    <3>5. /\ Compared(s[i], candidates, verdicts, i) /\ s[i].crowded \in BOOLEAN
          /\ s[i] = [approvals |-> s[i].approvals, crowded |-> s[i].crowded]
      BY <3>2
    <3> QED
      BY <2>1, <3>3, <3>4, <3>5, ComparedStep
  <2> QED
    BY <2>1, <2>2
<1>6. P = Nat
  <2>1. P \in SUBSET Nat
    OBVIOUS
  <2> HIDE DEF P
  <2> QED
    BY <1>4, <1>5, <2>1, SetInduction
<1>7. Good(n)
  BY <1>1, <1>6
<1> QED
  BY <1>2, <1>7 DEF n

\* The arbitration enters what no candidate that cleared would outdo.
LEMMA ArbitrationChooses ==
  ASSUME IInv, EdgesTyped, BestEdgeWins, NEW candidates \in Orders,
         NEW verdicts \in [DOMAIN candidates -> Verdicts],
         Arbitrate(candidates, verdicts)
  PROVE  BestEdgeWins'
<1> DEFINE quotes == Quotes(candidates, verdicts)
           accepted == quotes.approvals \ approvals
<1>1. now \in Nat /\ approvals = {}
  BY DEF IInv, ApprovalsEndWithTheArbitration
<1>2. Compared(quotes, candidates, verdicts, Len(candidates))
  BY <1>1, AllCompared
<1>3. CASE UNCHANGED entry
  BY <1>3 DEF BestEdgeWins
<1>4. CASE entry' # entry
  <2>1. \E winner \in Best(accepted), i \in DOMAIN candidates :
             entry' = [market |-> candidates[i].market, edge |-> winner.edge,
                       better |-> {e \in Rivals(candidates, verdicts) :
                                     e > winner.edge},
                       crowded |-> quotes.crowded]
    BY <1>4, ZenonT(30) DEF Arbitrate
  <2>2. PICK winner \in Best(accepted), i \in DOMAIN candidates :
             entry' = [market |-> candidates[i].market, edge |-> winner.edge,
                       better |-> {e \in Rivals(candidates, verdicts) :
                                     e > winner.edge},
                       crowded |-> quotes.crowded]
    BY <2>1
  <2>3. /\ entry'.crowded = quotes.crowded
        /\ entry'.better = {e \in Rivals(candidates, verdicts) : e > winner.edge}
    BY <2>2
  <2>4. ASSUME ~quotes.crowded, NEW e \in Rivals(candidates, verdicts)
        PROVE  ~(e > winner.edge)
    <3>1. PICK j \in DOMAIN candidates :
            /\ e = candidates[j].edge - verdicts[j].cost
            /\ Clears(candidates[j], verdicts[j])
      BY DEF Rivals
    <3>2. j \in 1 .. Len(candidates)
      BY <3>1, OrderFields
    <3>3. PICK a \in quotes.approvals : a.edge = e
      BY <1>2, <2>4, <3>1, <3>2 DEF Compared
    <3>4. a \in accepted /\ winner \in accepted /\ a.edge <= winner.edge
      BY <1>1, <2>2, <3>3 DEF Best
    <3>5. a.edge \in Int /\ winner.edge \in Int
      BY <1>2, <3>3, <3>4 DEF Compared
    <3> QED
      BY <3>3, <3>4, <3>5
  <2> QED
    BY <2>3, <2>4 DEF BestEdgeWins
<1> QED
  BY <1>3, <1>4

(* Whatever order the candidates are quoted in, none that clears every gate
   earns more after costs than the one that is entered, unless the cache of
   approvals was full (apply_entry_arbitration). *)
THEOREM BestEntryWins == Spec => []BestEdgeWins
<1> DEFINE Chosen == EdgesTyped /\ BestEdgeWins
<1>1. Init => Chosen
  BY DEF Init, EdgesTyped, BestEdgeWins, NoEntry
<1>2. IInv /\ Chosen /\ [Next]_vars => Chosen'
  <2> SUFFICES ASSUME IInv, EdgesTyped, BestEdgeWins, [Next]_vars
               PROVE  EdgesTyped' /\ BestEdgeWins'
    OBVIOUS
  <2>1. CASE \E m \in Markets, edge \in Edges : Signal(m, edge)
    <3>1. PICK m \in Markets, edge \in Edges : Signal(m, edge)
      BY <2>1
    <3>2. /\ entry' = entry
          /\ signals' = signals \cup
               {[market |-> m, at |-> now, edge |-> edge,
                 universe |-> <<activation.hour, activation.markets>>]}
      BY <3>1 DEF Signal, engine
    <3> QED
      BY <3>2 DEF EdgesTyped, BestEdgeWins
  <2>2. CASE TimePasses \/ UNCHANGED vars
    BY <2>2 DEF TimePasses, vars, engine, EdgesTyped, BestEdgeWins
  <2>3. CASE \E looks \in [Markets -> Candidates] : SelectUniverse(looks)
    BY <2>3 DEF SelectUniverse, engine, EdgesTyped, BestEdgeWins
  <2>4. CASE \E snapshot \in snapshots, current \in {NoActivation, activation} :
               ActivateUniverse(snapshot, current)
    BY <2>4 DEF ActivateUniverse, engine, EdgesTyped, BestEdgeWins
  <2>5. CASE BecomeFlat
    BY <2>5 DEF BecomeFlat, caller, NoEntry, EdgesTyped, BestEdgeWins
  <2>6. CASE \E candidates \in Orders :
               \E verdicts \in [DOMAIN candidates -> Verdicts] :
                 Arbitrate(candidates, verdicts)
    <3>1. PICK candidates \in Orders :
            \E verdicts \in [DOMAIN candidates -> Verdicts] :
              Arbitrate(candidates, verdicts)
      BY <2>6
    <3>2. BestEdgeWins'
      BY <3>1, ArbitrationChooses
    <3>3. EdgesTyped'
      BY <3>1 DEF Arbitrate, caller, EdgesTyped
    <3> QED
      BY <3>2, <3>3
  <2> QED
    BY <2>1, <2>2, <2>3, <2>4, <2>5, <2>6 DEF Next
<1> QED
  <2>1. Chosen => BestEdgeWins
    OBVIOUS
  <2> QED
    BY <1>1, <1>2, <2>1, ArbitrationInvariant, PTL DEF Spec
=============================================================================
