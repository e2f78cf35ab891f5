---------------------------- MODULE StagedRollout ----------------------------
(***************************************************************************)
(* What a deployment promises, without contexts, tables, reports or        *)
(* restarts: targets are deployed batch by batch, a batch is opened only   *)
(* when every instance of the batches before it succeeded, the deployment  *)
(* is complete only when every target succeeded, and it may be given up at *)
(* any time (README.md:13, docs/fleet-management.md "Rolling", "Canary").  *)
(***************************************************************************)
EXTENDS RolloutPlan

CONSTANTS Requests, Position

VARIABLES
  dep,      \* the deployment asked for
  opened,   \* batches opened so far
  stage,    \* "untouched", "deploying", "ok" or "err" for each position
  verdict   \* "running", "completed" or "aborted"

vars == <<dep, opened, stage, verdict>>

Succeeded(k) == \A p \in Batch(dep, k) : stage[p] = "ok"

Init ==
  /\ dep \in Requests
  /\ opened = 0
  /\ stage = [p \in Position |-> "untouched"]
  /\ verdict = "running"

OpenNextBatch ==
  /\ verdict = "running"
  /\ opened < BatchCount(dep)
  /\ \A k \in 1..opened : Succeeded(k)
  /\ opened' = opened + 1
  /\ stage' = [p \in Position |->
                 IF p \in Batch(dep, opened + 1) THEN "deploying" ELSE stage[p]]
  /\ UNCHANGED <<dep, verdict>>

Settle(p) ==
  /\ verdict = "running"
  /\ stage[p] = "deploying"
  /\ \E outcome \in {"ok", "err"} : stage' = [stage EXCEPT ![p] = outcome]
  /\ UNCHANGED <<dep, opened, verdict>>

Complete ==
  /\ verdict = "running"
  /\ \A p \in 1..Size(dep) : stage[p] = "ok"
  /\ verdict' = "completed"
  /\ UNCHANGED <<dep, opened, stage>>

Abort ==
  /\ verdict = "running"
  /\ verdict' = "aborted"
  /\ UNCHANGED <<dep, opened, stage>>

Next ==
  \/ OpenNextBatch \/ Complete \/ Abort
  \/ \E p \in Position : Settle(p)

Spec == Init /\ [][Next]_vars

=============================================================================
