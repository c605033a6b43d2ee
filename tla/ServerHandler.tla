--------------------------- MODULE ServerHandler ----------------------------
(***************************************************************************)
(* internal/parallel_support/server_handler.go: the business logic of the  *)
(* server the CLI runs for a parallel suite.  Each handler method is one   *)
(* step under the handler's lock, except those that first ask whether a    *)
(* process is alive: that question takes the lock on its own, so they are  *)
(* two steps (the caller keeps the answer in between).                     *)
(*                                                                         *)
(* A spec report is an opaque value; the aggregated report is the set of   *)
(* processes whose suite report went into it.                              *)
(***************************************************************************)
EXTENDS Integers, FiniteSets

CONSTANT N   \* parallelTotal

ASSUME ParallelTotalAssumption == N \in Nat /\ N > 1

Procs      == 1..N
Nonprimary == Procs \ {1}

VARIABLES
  numSuiteDidBegins, numSuiteDidEnds,
  aggregatedReport,         \* processes whose suite report was added
  reportHoldingArea,        \* spec reports kept until every process has begun
  emitted,                  \* spec reports forwarded to the CLI's reporter
  done,                     \* the done channel is closed
  beforeSuiteState,         \* "invalid" until process 1 posts it
  reportBeforeSuiteState,
  counter,
  shouldAbort,
  gone                      \* processes for which the alive function says no

serverVars == <<numSuiteDidBegins, numSuiteDidEnds, aggregatedReport,
                reportHoldingArea, emitted, done, beforeSuiteState,
                reportBeforeSuiteState, counter, shouldAbort, gone>>
streamVars == <<numSuiteDidBegins, numSuiteDidEnds, aggregatedReport,
                reportHoldingArea, emitted, done>>
syncVars   == <<beforeSuiteState, reportBeforeSuiteState>>

\* newServerHandler
ServerInit ==
  /\ numSuiteDidBegins = 0 /\ numSuiteDidEnds = 0
  /\ aggregatedReport = {}
  /\ reportHoldingArea = {} /\ emitted = {}
  /\ done = FALSE
  /\ beforeSuiteState = "invalid" /\ reportBeforeSuiteState = "invalid"
  /\ counter = 0
  /\ shouldAbort = FALSE
  /\ gone = {}

\* Variant: the reports that came too early are forgotten in the holding area.
SpecSuiteWillBeginNoFlush ==
  /\ numSuiteDidBegins' = numSuiteDidBegins + 1
  /\ UNCHANGED <<numSuiteDidEnds, aggregatedReport, reportHoldingArea, emitted,
                 done, syncVars, counter, shouldAbort, gone>>

\* The last process to begin starts the CLI's reporter, which then gets the
\* reports that came too early.
SpecSuiteWillBegin ==
  /\ numSuiteDidBegins' = numSuiteDidBegins + 1
  /\ IF numSuiteDidBegins' = N
       THEN /\ emitted' = emitted \union reportHoldingArea
            /\ reportHoldingArea' = {}
       ELSE UNCHANGED <<emitted, reportHoldingArea>>
  /\ UNCHANGED <<numSuiteDidEnds, aggregatedReport, done, syncVars, counter,
                 shouldAbort, gone>>

DidRun(report) ==
  /\ IF numSuiteDidBegins = N
       THEN /\ emitted' = emitted \union {report}
            /\ UNCHANGED reportHoldingArea
       ELSE /\ reportHoldingArea' = reportHoldingArea \union {report}
            /\ UNCHANGED emitted
  /\ UNCHANGED <<numSuiteDidBegins, numSuiteDidEnds, aggregatedReport, done,
                 syncVars, counter, shouldAbort, gone>>

SpecSuiteDidEnd(p) ==
  /\ numSuiteDidEnds' = numSuiteDidEnds + 1
  /\ aggregatedReport' = IF numSuiteDidEnds' = 1 THEN {p}
                         ELSE aggregatedReport \union {p}
  /\ done' = (numSuiteDidEnds' = N)
  /\ UNCHANGED <<numSuiteDidBegins, reportHoldingArea, emitted, syncVars,
                 counter, shouldAbort, gone>>

ReportBeforeSuiteCompleted(state) ==
  /\ reportBeforeSuiteState' = state
  /\ UNCHANGED <<streamVars, beforeSuiteState, counter, shouldAbort, gone>>

BeforeSuiteCompleted(state) ==
  /\ beforeSuiteState' = state
  /\ UNCHANGED <<streamVars, reportBeforeSuiteState, counter, shouldAbort,
                 gone>>

\* procIsAlive: a process whose alive function is not registered yet is alive.
procIsAlive(p) == p \notin gone

\* The loop asks one process after the other; a process that is gone stays
\* gone, so asking them all at once has the same answers.
haveNonprimaryProcsFinished == \A p \in Nonprimary: ~procIsAlive(p)

\* Variant: a process that is gone is waited for.
StateReplyPatient(state, proc1IsAlive) ==
  IF state # "invalid" THEN state ELSE "early"

\* The locked half of BeforeSuiteState and ReportBeforeSuiteState.
StateReply(state, proc1IsAlive) ==
  IF state # "invalid" THEN state
  ELSE IF proc1IsAlive THEN "early" ELSE "gone"

\* Variant: whatever was aggregated is handed out.
AggregatedReplyPartial ==
  IF ~haveNonprimaryProcsFinished THEN "early" ELSE "report"

\* Nothing but process 1's own posts can change numSuiteDidEnds once the
\* others are gone, so the two halves of this one are a single step.
AggregatedReply ==
  IF ~haveNonprimaryProcsFinished THEN "early"
  ELSE IF numSuiteDidEnds = N - 1 THEN "report" ELSE "gone"

Counter ==
  /\ counter' = counter + 1
  /\ UNCHANGED <<streamVars, syncVars, shouldAbort, gone>>

Abort ==
  /\ shouldAbort' = TRUE
  /\ UNCHANGED <<streamVars, syncVars, counter, gone>>

\* The CLI's Wait on process p set its ProcessState, and it says "exited".
Gone(p) ==
  /\ gone' = gone \union {p}
  /\ UNCHANGED <<streamVars, syncVars, counter, shouldAbort>>
=============================================================================
