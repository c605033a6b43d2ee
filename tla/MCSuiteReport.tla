--------------------------- MODULE MCSuiteReport ----------------------------
(* Programs of two bodies for the run of SuiteReport.                      *)
EXTENDS SuiteReport

\* The steps of two bodies, one after the other or at the same time; cleanup
\* nodes of both; a progress reporter.  A progress signal may come at any moment.
Steps      == <<<<"By">>, <<"AddReportEntry">>>>
BothDefer  == <<<<"DeferCleanup">>, <<"DeferCleanup">>>>
Attached   == <<<<"AttachProgressReporter">>, <<"AttachProgressReporter">>>>
Signalled  == {Steps, BothDefer, Attached}

\* A cleanup node, and a step of the body after it, under interrupts; the
\* shorter of the programs with a progress poll too.
DeferStep   == <<<<"DeferCleanup">>, <<"By">>>>
Defer       == <<<<"DeferCleanup">>, <<>>>>
Interrupted == {DeferStep, Defer}

MCPrograms      == Signalled \cup Interrupted
MCMaxPolls      == [p \in MCPrograms |-> IF p = Defer THEN 1 ELSE 0]
MCMaxSignals    == [p \in MCPrograms |-> IF p \in Interrupted THEN 0 ELSE 1]
MCMaxInterrupts == [p \in MCPrograms |-> IF p \in Interrupted THEN 3 ELSE 0]
=============================================================================
