----------------------------- MODULE MCNodeRun ------------------------------
(* Nodes and plans for the runs of NodeRun.                                *)
EXTENDS NodeRun

Plain       == [kind |-> "main", hasContext |-> FALSE, nodeTimeout |-> 0, gracePeriod |-> 2]
Context     == [Plain EXCEPT !.hasContext = TRUE]
Timed       == [Context EXCEPT !.nodeTimeout = 1]
CleanupNode == [Plain EXCEPT !.kind = "cleanup"]
TimedClean  == [Timed EXCEPT !.kind = "cleanup"]
Reporter    == [Plain EXCEPT !.kind = "report"]

\* Timeouts of every origin, before nodes of every kind.
MixedPlans ==
  {[nodes |-> <<Timed, CleanupNode>>,   suiteDeadline |-> 0, specDeadline |-> 0],
   [nodes |-> <<Context, TimedClean>>,  suiteDeadline |-> 3, specDeadline |-> 2],
   [nodes |-> <<Timed, Context>>,       suiteDeadline |-> 2, specDeadline |-> 4],
   [nodes |-> <<Plain, Reporter>>,      suiteDeadline |-> 2, specDeadline |-> 0],
   [nodes |-> <<CleanupNode, Reporter>>, suiteDeadline |-> 0, specDeadline |-> 0]}

\* A body that leaks, then one that fails.
LeakPlans ==
  {[nodes |-> <<Timed, Plain>>, suiteDeadline |-> 0, specDeadline |-> 0]}
=============================================================================
