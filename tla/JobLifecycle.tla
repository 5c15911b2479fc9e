----------------------------- MODULE JobLifecycle -----------------------------
(***************************************************************************)
(* What the investigation service promises the client that polls a job: a  *)
(* job is attempted at most MaxAttempts times, moves only forward apart    *)
(* from retries, never leaves a terminal state, and once completed shows   *)
(* the output of its last attempt and of no other.                         *)
(***************************************************************************)
EXTENDS Naturals

CONSTANTS Jobs, MaxAttempts

VARIABLES
  phase,   \* what GET /investigations/{id} reports
  tries,   \* attempts started
  shown    \* the attempts a completed job's results come from

lifecycleVars == <<phase, tries, shown>>

Phases == {"absent", "queued", "running", "completed", "failed", "cancelled"}

LifecycleTypeOK ==
  /\ phase \in [Jobs -> Phases]
  /\ tries \in [Jobs -> 0..MaxAttempts]
  /\ shown \in [Jobs -> SUBSET (1..MaxAttempts)]

LifecycleInit ==
  /\ phase = [j \in Jobs |-> "absent"]
  /\ tries = [j \in Jobs |-> 0]
  /\ shown = [j \in Jobs |-> {}]

Move(j, from, to) ==
  /\ phase[j] = from
  /\ phase' = [phase EXCEPT ![j] = to]

Submit(j) == Move(j, "absent", "queued") /\ UNCHANGED <<tries, shown>>
Cancel(j) == Move(j, "queued", "cancelled") /\ UNCHANGED <<tries, shown>>
Fail(j)   == Move(j, "running", "failed") /\ UNCHANGED <<tries, shown>>

Start(j) ==
  /\ tries[j] < MaxAttempts
  /\ Move(j, "queued", "running")
  /\ tries' = [tries EXCEPT ![j] = @ + 1]
  /\ UNCHANGED shown

Complete(j) ==
  /\ Move(j, "running", "completed")
  /\ shown' = [shown EXCEPT ![j] = {tries[j]}]
  /\ UNCHANGED tries

\* Jobs whose worker is gone: queued again while attempts are left, else failed.
Reclaim(S) ==
  /\ \A j \in S : phase[j] = "running"
  /\ phase' = [j \in Jobs |-> IF j \notin S THEN phase[j]
                              ELSE IF tries[j] < MaxAttempts THEN "queued" ELSE "failed"]
  /\ UNCHANGED <<tries, shown>>

LifecycleNext ==
  \/ \E j \in Jobs : Submit(j) \/ Cancel(j) \/ Start(j) \/ Complete(j) \/ Fail(j)
  \/ \E S \in SUBSET Jobs : Reclaim(S)

LifecycleSpec == LifecycleInit /\ [][LifecycleNext]_lifecycleVars
=============================================================================
