------------------------------ MODULE MCGroup -------------------------------
(* Groups of specs for the runs of Group.                                  *)
EXTENDS Group

Nd(id, type, lvl) ==
  [id |-> id, type |-> type, level |-> lvl, once |-> FALSE, defers |-> FALSE,
   from |-> 0, ordered |-> FALSE, continueOnFailure |-> FALSE]
Once(node)   == [node EXCEPT !.once = TRUE]
Defers(node) == [node EXCEPT !.defers = TRUE]

Ordered  == [Nd(1, "Container", 0) EXCEPT !.ordered = TRUE]
Continue == [Ordered EXCEPT !.continueOnFailure = TRUE]
Inner    == Nd(2, "Container", 1)

OuterEach  == Once(Nd(3, "BeforeEach", 0))
OuterAfter == Once(Nd(4, "AfterEach", 0))
Before     == Nd(5, "BeforeAll", 1)
After      == Nd(6, "AfterAll", 1)
Each       == Nd(7, "AfterEach", 1)
InnerAll   == Nd(9, "BeforeAll", 2)
InnerAfter == Nd(10, "AfterAll", 2)
Just       == Nd(11, "JustBeforeEach", 1)
JustAfter  == Nd(12, "JustAfterEach", 1)
ReportB    == Nd(13, "ReportBeforeEach", 0)
ReportA    == Nd(14, "ReportAfterEach", 0)
It(n, lvl) == Nd(20 + n, "It", lvl)

Sp(nodes) == [nodes |-> nodes, skip |-> FALSE, pending |-> FALSE, flakes |-> 0,
              repeats |-> 0]
Gr(specs) == [specs |-> specs, flakes |-> 0, repeats |-> 0, failFast |-> FALSE,
              dryRun |-> FALSE]
Skipped(spec) == [spec EXCEPT !.skip = TRUE]
PendingOf(spec) == [spec EXCEPT !.skip = TRUE, !.pending = TRUE]

\* Two specs between BeforeAll and AfterAll, and one the focus leaves out.
Plain(cont, last(_)) ==
  Gr(<<Sp(<<cont, Defers(Before), It(1, 1), Each, After>>),
       Sp(<<cont, Defers(Before), It(2, 1), Each, After>>),
       last(Sp(<<cont, Defers(Before), It(3, 1), Each, After>>))>>)

Pair(cont) ==
  Gr(<<Sp(<<cont, Before, It(1, 1), After>>), Sp(<<cont, Before, It(2, 1), After>>)>>)

\* Setup around the container, once for all of it.
Around(cont) ==
  Gr(<<Sp(<<Defers(OuterEach), cont, Before, It(1, 1), After, OuterAfter>>),
       Sp(<<Defers(OuterEach), cont, Before, It(2, 1), After, OuterAfter>>)>>)

\* A container within the ordered one with a setup of its own.
Nested(cont) ==
  Gr(<<Sp(<<cont, Before, Inner, InnerAll, It(1, 2), InnerAfter, After>>),
       Sp(<<cont, Before, Inner, InnerAll, It(2, 2), InnerAfter, After>>),
       Sp(<<cont, Before, It(3, 1), After>>)>>)

\* A single spec, with nodes of many types.
Single ==
  Gr(<<Sp(<<ReportB, Nd(1, "Container", 0), Just, Defers(It(1, 1)), JustAfter,
            Each, ReportA>>)>>)

\* A subject and its teardown.
Small ==
  Gr(<<Sp(<<Nd(1, "Container", 0), Defers(It(1, 1)), Defers(Each), ReportA>>)>>)

Tiny == Gr(<<Sp(<<Nd(1, "Container", 0), Defers(It(1, 1)), Each>>)>>)

\* A node around the container that runs for each spec.
Cut == Gr(<<Sp(<<Nd(15, "BeforeEach", 0), Ordered, Defers(Before), It(1, 1), After>>),
            Sp(<<Nd(15, "BeforeEach", 0), Ordered, Defers(Before), It(2, 1), After>>)>>)

\* Reporters around the container.
Reported(report) ==
  Gr(<<Sp(<<report, Ordered, Defers(Before), It(1, 1), After>>),
       Sp(<<report, Ordered, Defers(Before), It(2, 1), After>>)>>)

\* Only the container within the ordered one has specs.
Inside(cont) ==
  Gr(<<Sp(<<cont, Defers(Before), Inner, InnerAll, It(1, 2), InnerAfter, After>>),
       Sp(<<cont, Defers(Before), Inner, InnerAll, It(2, 2), InnerAfter, After>>)>>)

\* A node of the ordered container that runs once for the container within.
OnceWithin(cont) ==
  Gr(<<Sp(<<cont, Before, Once(Nd(16, "BeforeEach", 1)), Inner, It(1, 2), After>>),
       Sp(<<cont, Before, Once(Nd(16, "BeforeEach", 1)), It(3, 1), After>>)>>)

\* Each spec must pass twice.
Repeated(cont) ==
  [Gr(<<Sp(<<cont, Defers(Before), It(1, 1), After>>),
        Sp(<<cont, Defers(Before), It(2, 1), After>>)>>) EXCEPT !.repeats = 2]

Flaky(g)    == [g EXCEPT !.flakes = 2]
Decorated(g, flakes, repeats) ==
  [g EXCEPT !.specs = [j \in DOMAIN g.specs |->
     [g.specs[j] EXCEPT !.flakes = flakes, !.repeats = repeats]]]

OrderedGroups ==
  {Plain(Ordered, Skipped), Plain(Continue, PendingOf), Nested(Ordered),
   Nested(Continue), Flaky(Pair(Ordered)),
   Around(Ordered), Around(Continue), Flaky(Around(Ordered)),
   Cut, Reported(ReportB), Reported(ReportA), Inside(Ordered), Inside(Continue),
   OnceWithin(Ordered), OnceWithin(Continue), Flaky(OnceWithin(Ordered)),
   Repeated(Ordered), Repeated(Continue)}
DisturbedGroups ==
  {Single, Decorated(Tiny, 2, 0), Decorated(Small, 0, 2), Decorated(Small, 2, 2),
   [Small EXCEPT !.dryRun = TRUE],
   Pair(Ordered), Flaky(Pair(Ordered)), [Pair(Continue) EXCEPT !.failFast = TRUE]}

\* The longer groups are not disturbed from outside: what the others show
\* under interrupts does not depend on their length.
AllGroups   == OrderedGroups \cup DisturbedGroups
LongGroups  == OrderedGroups \ DisturbedGroups
=============================================================================
