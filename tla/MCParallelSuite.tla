-------------------------- MODULE MCParallelSuite ---------------------------
(* Sets of suites for the parallel runs.                                   *)
EXTENDS ParallelSuite

\* Everything that synchronises processes, at once.
FullSuite == [rbs |-> TRUE, ras |-> TRUE, before |-> "sync", after |-> "sync",
              cleanup |-> TRUE, groups |-> 2, serial |-> 1, failFast |-> FALSE,
              failOnPending |-> FALSE]

\* Each part on its own, and the suites in which it is missing.
PlainSuite == [FullSuite EXCEPT !.rbs = FALSE, !.ras = FALSE,
                                !.before = "plain", !.after = "plain",
                                !.failFast = TRUE]
MixedSuites ==
  {[FullSuite EXCEPT !.groups = 1, !.serial = 0],
   [PlainSuite EXCEPT !.groups = 1],
   [PlainSuite EXCEPT !.before = "none", !.after = "none", !.ras = TRUE, !.groups = 1],
   [FullSuite EXCEPT !.before = "none", !.after = "plain", !.serial = 0,
                     !.failOnPending = TRUE],
   [FullSuite EXCEPT !.groups = 0, !.serial = 0]}

SmallSuites ==
  {[FullSuite EXCEPT !.groups = 1],
   [PlainSuite EXCEPT !.groups = 1]}
ThreeSuites ==
  {[FullSuite EXCEPT !.groups = 1], [FullSuite EXCEPT !.groups = 1, !.serial = 0]}
=============================================================================
