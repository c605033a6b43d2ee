------------------------- MODULE MCOutputInterceptor ------------------------
EXTENDS OutputInterceptor

Seg(spec, opens, closes, keep, forward, early) ==
  [spec |-> spec, opens |-> opens, closes |-> closes, keep |-> keep, forward |-> forward,
   early |-> early]

\* Group.run: two attempts of one spec.
Attempts == <<Seg(1, TRUE, TRUE, TRUE, FALSE, FALSE), Seg(1, TRUE, TRUE, TRUE, FALSE, FALSE)>>

\* runSuiteNode: SynchronizedBeforeSuite on process 1.
SynchronizedBeforeSuite ==
  <<Seg(1, TRUE, FALSE, FALSE, FALSE, FALSE), Seg(1, FALSE, FALSE, TRUE, TRUE, FALSE),
    Seg(1, FALSE, TRUE, TRUE, FALSE, FALSE)>>

\* runReportSuiteNode, twice: ReportAfterSuite on process 1.
Reports == <<Seg(1, TRUE, TRUE, TRUE, FALSE, TRUE), Seg(2, TRUE, TRUE, TRUE, FALSE, FALSE)>>

OneSpec == <<Seg(1, TRUE, TRUE, TRUE, FALSE, FALSE)>>

Load(s, w, p) ==
  [segments |-> s, writes |-> w, pauses |-> p]

MCWorkloads == {Load(Attempts, 2, 0), Load(OneSpec, 2, 1),
                Load(SynchronizedBeforeSuite, 1, 0), Load(Reports, 2, 0)}
=============================================================================
