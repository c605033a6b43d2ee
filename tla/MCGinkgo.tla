------------------------------ MODULE MCGinkgo ------------------------------
(* Instances of the command line for TLC. *)
EXTENDS Ginkgo

SuiteNamed(n, ginkgo, precompiled, state) ==
  [name |-> n, ginkgo |-> ginkgo, precompiled |-> precompiled, path |-> precompiled,
   focus |-> FALSE, state |-> state]

\* Three suites compiled by two goroutines; a precompiled one; a plain Go
\* package; filters that leave some, none and nothing.
MCFound ==
  LET g(n) == SuiteNamed(n, TRUE, FALSE, "Uncompiled") IN
  {<<g(1), g(2), g(3)>>,
   <<SuiteNamed(1, TRUE, TRUE, "Compiled"), SuiteNamed(2, FALSE, FALSE, "Uncompiled")>>,
   <<SuiteNamed(1, TRUE, FALSE, "SkippedByFilter"), g(2)>>,
   <<SuiteNamed(1, TRUE, FALSE, "SkippedByFilter")>>, <<>>}

MCConfigs ==
  LET c == [build |-> FALSE, keepGoing |-> FALSE, repeat |-> 0, untilItFails |-> FALSE,
            timeout |-> FALSE, preserve |-> FALSE, randomize |-> FALSE, collect |-> FALSE,
            editor |-> FALSE] IN
  {[c EXCEPT !.build = TRUE], [c EXCEPT !.timeout = TRUE],
   [c EXCEPT !.keepGoing = TRUE, !.timeout = TRUE, !.preserve = TRUE, !.editor = TRUE],
   [c EXCEPT !.keepGoing = TRUE, !.repeat = 1, !.collect = TRUE],
   [c EXCEPT !.untilItFails = TRUE, !.randomize = TRUE]}

\* Suite a tests with lib, which imports base; b stands alone.
MCImports == [p \in {"a", "b", "lib", "base"} |-> IF p = "lib" THEN {"base"} ELSE {}]
MCTestImports == [p \in {"a", "b", "lib", "base"} |-> IF p = "a" THEN {"a", "lib"} ELSE {}]
=============================================================================
