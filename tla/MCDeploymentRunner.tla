------------------------- MODULE MCDeploymentRunner -------------------------
(***************************************************************************)
(* Instances of DeploymentRunner for TLC.                                  *)
(***************************************************************************)
EXTENDS DeploymentRunner, TLC

CONSTANTS a, b

Request(targets, strategy, size, version) ==
  [targets |-> targets, strategy |-> strategy, batchSize |-> size,
   version |-> version]

\* Every strategy on two instances.  The default batch size 0 of the API and a
\* negative one are both run as 1; version 1 has nothing to roll back to.
TwoInstances ==
  {Request(<<a, b>>, "rolling", 1, 2), Request(<<a, b>>, "canary", -1, 2),
   Request(<<a, b>>, "all_at_once", 1, 1)}

\* Two batches, the first with two workers, from a target list that names an
\* instance twice (resolveTargets keeps duplicates); and a canary before the
\* only other instance, which no rollback of the canary may reach.
ThreeTargets ==
  {Request(<<a, b, a>>, "rolling", 2, 2), Request(<<a, b>>, "canary", 1, 2)}

\* Both staged strategies, for liveness.
TwoBatches ==
  {Request(<<a, b>>, "rolling", 1, 2), Request(<<a, b>>, "canary", 1, 2)}

=============================================================================
