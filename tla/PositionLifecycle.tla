-------------------------- MODULE PositionLifecycle --------------------------
(***************************************************************************)
(* What a paper ledger promises about its one position, without clocks,    *)
(* prices or bands: one entry that is never added to, an exit that only    *)
(* shrinks the exposure and never turns back, no new entry before the      *)
(* exposure is gone, and no exposure that is declared closed unsold.       *)
(***************************************************************************)
EXTENDS Integers

CONSTANT MaxExposure

VARIABLES phase, exposure

lifecycleVars == <<phase, exposure>>

Phases == {"idle", "ordered", "held", "leaving", "forced", "settled",
           "stranded"}

Start == phase = "idle" /\ exposure = 0

Order == phase = "idle" /\ phase' = "ordered" /\ UNCHANGED exposure

Cancel == phase = "ordered" /\ phase' = "idle" /\ UNCHANGED exposure

Enter ==
  /\ phase = "ordered"
  /\ phase' \in {"held", "forced"}
  /\ exposure' \in 1 .. MaxExposure

Leave == phase = "held" /\ phase' = "leaving" /\ UNCHANGED exposure

Force ==
  phase \in {"held", "leaving"} /\ phase' = "forced" /\ UNCHANGED exposure

Reduce ==
  /\ phase \in {"leaving", "forced"}
  /\ exposure' \in 1 .. exposure
  /\ phase' \in {phase, "forced"}

Close ==
  /\ phase \in {"leaving", "forced"}
  /\ exposure' = 0
  /\ phase' \in {"idle", "settled"}

Strand ==
  /\ phase \in {"held", "leaving", "forced"}
  /\ phase' = "stranded"
  /\ UNCHANGED exposure

Step == Order \/ Cancel \/ Enter \/ Leave \/ Force \/ Reduce \/ Close \/ Strand

Lifecycle == Start /\ [][Step]_lifecycleVars
=============================================================================
