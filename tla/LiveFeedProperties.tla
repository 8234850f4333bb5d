------------------------ MODULE LiveFeedProperties ------------------------
(***************************************************************************)
(* What the fence of the live path guarantees about execution, and that   *)
(* an ended stream is started again.                                      *)
(***************************************************************************)
EXTENDS LiveFeed

Kinds == {"book", "gap", "request", "terminal"}
Failures == {"none", "non_monotonic_book", "backward_time",
             "generation_mismatch", "missing_snapshot", "snapshot_mismatch"}
Times == 0 .. MaxTime
Items == [kind : Kinds, market : Markets, generation : Nat, at : Times,
          rx : Times, epoch : 0 .. MaxEpoch]
PerMarketTime == [Markets -> Times]

(* The types of the client's, the authority's and the router's state; L2 is
   only observed of subscribed markets. *)
FeedTypeOK ==
  /\ now \in Times
  /\ conn \in {"off", "down", "up", "ended"}
  /\ retries \in 0 .. MaxRetries /\ generation \in Nat
  /\ pending \in [Markets -> Nat] /\ lastBook \in PerMarketTime
  /\ out \in Seq(Items)
  /\ scope \subseteq Markets /\ active \in BOOLEAN
  /\ epoch \in 0 .. MaxEpoch /\ restart \in BOOLEAN
  /\ observed \subseteq scope /\ connected \in BOOLEAN
  /\ buffer \in Seq(Items) /\ Len(buffer) < BatchCapacity
  /\ boundary \in Times /\ failed \in Failures
  /\ gap \in [Markets -> [epoch : 0 .. MaxEpoch, generation : Nat]]
  /\ recoveredAt \in [Markets -> Nat]
  /\ deferred \in PerMarketTime /\ books \in PerMarketTime
  /\ worker \in {"running", "failing", "fenced"}
  /\ requests \in Seq(Items) /\ lastGeneration \in [Markets -> Nat]

(* A market whose client has a gap pending is fenced, or the gap itself is
   still on its way to the router: no answer to an older request, of this
   epoch or of one whose generations are used again, opens the fence behind
   a gap the router knows of. *)
PendingGapsAreFenced ==
  Running => \A m \in Markets :
    pending[m] > 0 /\ recoveredAt[m] > 0 =>
      \E i \in DOMAIN out : out[i].kind = "gap" /\ out[i].market = m

(* A gap is closed by the answer to its own request: generations start again
   with every epoch while the worker and its queue live on, and answers can
   be of an epoch that has ended. *)
GapsCloseOnTheirOwnEvidence ==
  [][\A m \in Markets :
       recoveredAt[m] = 0 /\ recoveredAt'[m] > 0 =>
         /\ gap[m] # NoGap /\ gap'[m] = NoGap
         /\ recoveredIn'[m] = gap[m].epoch]_vars

(* A book is executed only in a market whose every known gap is closed, and
   it is later than the completed boundary and than every book of that market
   executed before, whatever connection, epoch or batch brought it. *)
ExecutionIsFencedAndOrdered ==
  [][\A m \in Markets : executed'[m] # executed[m] =>
       /\ gap'[m] = NoGap /\ recoveredAt'[m] > 0
       /\ executed'[m].at > recoveredAt'[m]
       /\ executed'[m].at > executed[m].at]_vars

(* A stream epoch that ended is started again while its scope is not empty:
   by its own timer or by a capture, one of which always stays armed. *)
EpochsRestart ==
  scope # {} /\ ~active /\ epoch < MaxEpoch
    ~> active \/ scope = {} \/ ~Running

=============================================================================
