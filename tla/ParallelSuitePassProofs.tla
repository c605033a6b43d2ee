----------------------- MODULE ParallelSuitePassProofs ----------------------
(***************************************************************************)
(* What a parallel suite that passed has done, for every number of         *)
(* processes, every suite and every bound on the faults: each group of     *)
(* specs was handed out once and reported once, and no report was lost or  *)
(* kept back on the way to the CLI's reporter.                             *)
(***************************************************************************)
EXTENDS ParallelSuiteProofs

-----------------------------------------------------------------------------
(* The parts of the inductive invariant                                    *)

\* No call of process q has been lost that the server could have needed: its
\* connection works, or its last call, SpecSuiteDidEnd, went through.
Heard(q) == q \in connected \/ q \in aggregatedReport

Begun == {q \in Procs: pc[q] # "begin"}
Met   == {q \in Begun: Heard(q)}

\* The server counts the processes that have begun, short of those whose
\* connection broke before, and from N on holds no report back.
Begins ==
  /\ numSuiteDidBegins <= Cardinality(Begun)
  /\ Cardinality(Met) <= numSuiteDidBegins
  /\ numSuiteDidBegins = N => reportHoldingArea = {}

\* `done` is closed by the N-th suite report; the CLI waits for it, and an
\* exit status is what the process made of its suite.
Ends ==
  /\ done <=> numSuiteDidEnds = N
  /\ cli = "reported" => done
  /\ \A q \in exitOK: pc[q] = "exit" /\ succeeded[q]

\* Where a process is with respect to the loop over the groups.
Looping(q) ==
  pc[q] \in {"fetch", "next", "serialWait", "group"} \/ Posting(q, "group")
PastLoop(q) ==
  \/ pc[q] \in {"after", "afterBody", "sasAll", "sasWait", "sas1", "cleanup",
                "cleanupWait", "cleanupBody", "check", "rasPoll", "rasBody",
                "end", "exit"}
  \/ Posting(q, "after") \/ Posting(q, "cleanup") \/ Posting(q, "ras")

\* Process q has an index whose group it has yet to report.
Holds(q) ==
  pc[q] \in {"next", "group"} \/ (pc[q] = "didRun" /\ item[q] = "group")

Reports == emitted \union reportHoldingArea
GroupReports(s) == {r \in Reports: r.item = "group" /\ r.serial = s}
ParallelReports == GroupReports(FALSE)
SerialReports   == GroupReports(TRUE)

\* Who got out of the loop and is still succeeding went through all indices.
LoopDone ==
  /\ \A q \in Procs: serialPhase[q] => q = 1
  /\ pc[1] = "serialWait" => serialPhase[1]
  /\ \A q \in Procs: PastLoop(q) /\ succeeded[q] =>
       /\ idx[q] >= NumGroups(q)
       /\ ~serialPhase[q] => idx[q] < counter
       /\ q = 1 /\ cfg.serial > 0 => serialPhase[q]

\* The server hands out an index once: it is held by one process or reported
\* once, and is not lost unless a connection is.
Parallel(q) == Holds(q) /\ ~serialPhase[q]
HandedOut ==
  /\ \A r \in ParallelReports: r.idx < counter
  /\ \A r, t \in ParallelReports: r.idx = t.idx => r = t
  /\ \A q \in Procs: Parallel(q) => idx[q] < counter
  /\ \A q \in Procs: Parallel(q) => \A r \in ParallelReports: r.idx # idx[q]
  /\ \A q, u \in Procs: Parallel(q) /\ Parallel(u) /\ idx[q] = idx[u] => q = u
  /\ (\A q \in Procs: Heard(q)) =>
       \A i \in Nat: i < counter /\ i < cfg.groups =>
         \/ \E r \in ParallelReports: r.idx = i
         \/ \E q \in Procs: Parallel(q) /\ idx[q] = i

\* Process 1 counts through the Serial groups itself.
InSerial == serialPhase[1] /\ pc[1] # "serialWait"
SerialCounted ==
  /\ \A r \in SerialReports:
       InSerial /\ r.idx <= idx[1] /\ (Holds(1) => r.idx < idx[1])
  /\ \A r, t \in SerialReports: r.idx = t.idx => r = t
  /\ Heard(1) /\ InSerial =>
       \A i \in Nat: i < cfg.serial /\ i <= idx[1] /\ (i = idx[1] => ~Holds(1))
                     => \E r \in SerialReports: r.idx = i

\* A process that has reported a failure is failing.
FailuresCount == \A r \in Reports: r.failed => ~succeeded[r.proc]

PassInv ==
  IndInv /\ Begins /\ Ends /\ LoopDone /\ HandedOut /\ SerialCounted /\ FailuresCount

-----------------------------------------------------------------------------
(* What a step is to this invariant                                        *)

\* A step that has nothing to do with groups or reports: it begins and ends
\* outside the loop and does not jump over it.
Quiet(p) ==
  /\ UNCHANGED <<streamVars, counter, idx, serialPhase, exitOK>>
  /\ pc[p] \notin {"begin", "exit"} /\ pc'[p] \notin {"begin", "exit"}
  /\ ~Looping(p) /\ ~Looping(p)'
  /\ PastLoop(p)' => PastLoop(p)

\* The steps that do have to do with them.
Marked(p) ==
  \/ PostSuiteWillBegin(p) \/ StartSpecs(p)
  \/ FetchNextCounter(p) \/ NextSerialIndex(p)
  \/ StartGroup(p) \/ EndGroup(p)
  \/ LastGroup(p) \/ WaitBeforeSerial(p)
  \/ PostDidRun(p) \/ PostAbort(p)
  \/ PostSuiteDidEnd(p) \/ ExitNormally(p)

\* Every step is of one of the two sorts, and nobody succeeds again.
LEMMA Kinds ==
  ASSUME TypeOK, NEW p \in Procs, Step(p)
  PROVE  /\ Marked(p) \/ Quiet(p)
         /\ \A q \in Procs: succeeded'[q] => succeeded[q]
         /\ cli' = cli
<1> USE Effects DEF TypeOK, At, serverVars, streamVars, envVars
<1>1. CASE Marked(p)
  BY <1>1 DEF Marked, PostSuiteWillBegin, StartSpecs, FetchNextCounter, LeaveLoop,
              NextSerialIndex, StartGroup, EndGroup, LastGroup, WaitBeforeSerial,
              PostDidRun, PostAbort, PostSuiteDidEnd, ExitNormally, procVars
<1> USE DEF Quiet, Looping, PastLoop, Posting
<1>2. CASE EndReportBeforeSuite(p)
  BY <1>2 DEF EndReportBeforeSuite
<1>3. CASE PostReportBeforeSuiteCompleted(p)
  BY <1>3 DEF PostReportBeforeSuiteCompleted, Call, ReportBeforeSuiteCompleted
<1>4. CASE PollReportBeforeSuite(p)
  BY <1>4 DEF PollReportBeforeSuite, AskProc1Alive
<1>5. CASE ReportBeforeSuiteReply(p)
  BY <1>5 DEF ReportBeforeSuiteReply
<1>6. CASE StartBeforeSuite(p)
  BY <1>6 DEF StartBeforeSuite
<1>7. CASE EndBeforeSuite(p)
  BY <1>7 DEF EndBeforeSuite
<1>8. CASE EndSynchronizedBeforeSuiteProc1(p)
  BY <1>8 DEF EndSynchronizedBeforeSuiteProc1
<1>9. CASE PostSynchronizedBeforeSuiteCompleted(p)
  BY <1>9 DEF PostSynchronizedBeforeSuiteCompleted, Call, BeforeSuiteCompleted
<1>10. CASE PollSynchronizedBeforeSuite(p)
  BY <1>10 DEF PollSynchronizedBeforeSuite, AskProc1Alive
<1>11. CASE SynchronizedBeforeSuiteReply(p)
  BY <1>11 DEF SynchronizedBeforeSuiteReply
<1>12. CASE StartSynchronizedBeforeSuiteAllProcs(p)
  BY <1>12 DEF StartSynchronizedBeforeSuiteAllProcs
<1>13. CASE EndSynchronizedBeforeSuiteAllProcs(p)
  BY <1>13 DEF EndSynchronizedBeforeSuiteAllProcs
<1>14. CASE StartAfterSuite(p)
  BY <1>14 DEF StartAfterSuite
<1>15. CASE EndAfterSuite(p)
  BY <1>15 DEF EndAfterSuite
<1>16. CASE EndSynchronizedAfterSuiteAllProcs(p)
  BY <1>16 DEF EndSynchronizedAfterSuiteAllProcs
<1>17. CASE WaitBeforeProc1AfterSuite(p)
  BY <1>17 DEF WaitBeforeProc1AfterSuite
<1>18. CASE EndSynchronizedAfterSuiteProc1(p)
  BY <1>18 DEF EndSynchronizedAfterSuiteProc1
<1>19. CASE StartSuiteCleanup(p)
  BY <1>19 DEF StartSuiteCleanup
<1>20. CASE WaitBeforeSuiteCleanup(p)
  BY <1>20 DEF WaitBeforeSuiteCleanup
<1>21. CASE EndSuiteCleanup(p)
  BY <1>21 DEF EndSuiteCleanup
<1>22. CASE CheckInterrupted(p)
  BY <1>22 DEF CheckInterrupted
<1>23. CASE AggregatedReport(p)
  BY <1>23 DEF AggregatedReport
<1>24. CASE EndReportAfterSuite(p)
  BY <1>24 DEF EndReportAfterSuite
<1> QED
  BY <1>1, <1>2, <1>3, <1>4, <1>5, <1>6, <1>7, <1>8, <1>9, <1>10, <1>11,
     <1>12, <1>13, <1>14, <1>15, <1>16, <1>17, <1>18, <1>19, <1>20, <1>21,
     <1>22, <1>23, <1>24
     DEF Step, Marked

\* Sets of processes are finite; a smaller one has fewer, and N is all of them.
LEMMA ProcSets ==
  ASSUME NEW S, S \subseteq Procs
  PROVE  /\ IsFiniteSet(S) /\ Cardinality(S) \in Nat /\ Cardinality(S) <= N
         /\ Cardinality(S) = N => S = Procs
         /\ \A T: T \subseteq S => Cardinality(T) <= Cardinality(S)
         /\ \A q: q \notin S => Cardinality(S \union {q}) = Cardinality(S) + 1
<1>1. IsFiniteSet(Procs) /\ Cardinality(Procs) = N
  BY ParallelTotalAssumption, FS_Interval DEF Procs
<1>2. IsFiniteSet(S)
  BY <1>1, FS_Subset
<1>3. Cardinality(S) \in Nat
  BY <1>2, FS_CardinalityType
<1> QED
  BY <1>1, <1>2, <1>3, FS_Subset, FS_AddElement

\* No step hears again from who was no longer heard.
LEMMA HeardShrinks ==
  ASSUME TypeOK, [Next]_vars
  PROVE  \A q \in Procs: Heard(q)' => Heard(q)
<1>1. ASSUME NEW p \in Procs, Step(p) PROVE \A q \in Procs: Heard(q)' => Heard(q)
  <2>1. connected' = connected
    BY <1>1, Frame
  <2>2. CASE Quiet(p)
    BY <2>1, <2>2 DEF Quiet, streamVars, Heard
  <2>3. CASE Marked(p)
    <3> USE <2>1 DEF Heard, streamVars, serverVars
    <3>1. CASE PostSuiteDidEnd(p)
      BY <3>1 DEF PostSuiteDidEnd, Call, SpecSuiteDidEnd
    <3>2. CASE PostSuiteWillBegin(p) \/ PostDidRun(p) \/ PostAbort(p)
      BY <3>2, CallsKeep DEF PostSuiteWillBegin, PostDidRun, PostAbort
    <3>3. CASE FetchNextCounter(p)
      BY <3>3, CallsKeep DEF FetchNextCounter
    <3> QED
      BY <2>3, <3>1, <3>2, <3>3
         DEF Marked, StartSpecs, NextSerialIndex, StartGroup, EndGroup,
             LastGroup, WaitBeforeSerial, ExitNormally
  <2> QED
    BY <1>1, <2>2, <2>3, Kinds
<1>2. CASE Environment \/ CLI \/ Terminated \/ UNCHANGED vars
  <2>1. aggregatedReport' = aggregatedReport
    BY <1>2, OutsideFrame
  <2>2. connected' \subseteq connected
    BY <1>2 DEF Environment, Crash, Kill, Die, Disconnect, SignalProc,
                DeadlinePasses, CLI, Wait, CollectResults, SuiteDone,
                ReportTimeout, Terminated, vars, envVars
  <2> QED
    BY <2>1, <2>2 DEF Heard
<1> QED
  BY <1>1, <1>2 DEF Next

\* The count of the processes that have begun.
LEMMA StepBegins ==
  ASSUME IndInv, Begins, NEW p \in Procs, Step(p)
  PROVE  Begins'
<1>0. TypeOK /\ TypeOK' /\ N \in Nat
  BY StepTyped, ParallelTotalAssumption DEF IndInv
<1>1. Begun \subseteq Procs /\ Met \subseteq Begun
  BY DEF Begun, Met
<1>2. Begun' \subseteq Procs /\ Met' \subseteq Begun'
  BY DEF Begun, Met
<1>3. \A q \in Procs: Heard(q)' => Heard(q)
  BY <1>0, HeardShrinks DEF Next
<1>20. /\ Cardinality(Begun) \in Nat /\ Cardinality(Met) \in Nat
       /\ Cardinality(Begun') \in Nat /\ Cardinality(Met') \in Nat
       /\ Cardinality(Begun') <= N /\ numSuiteDidBegins \in Nat
  BY <1>0, <1>1, <1>2, ProcSets DEF TypeOK
<1>4. CASE PostSuiteWillBegin(p)
  <2>1. p \notin Begun /\ Begun' = Begun \union {p}
    BY <1>0, <1>4, Frame, Effects DEF PostSuiteWillBegin, At, Begun, Same
  <2>2. Cardinality(Begun') = Cardinality(Begun) + 1
    BY <1>1, <2>1, ProcSets
  <2>3. CASE p \in connected
    <3>1. Met' \subseteq Met \union {p} /\ p \notin Met
      BY <1>3, <2>1 DEF Begun, Met
    <3>2. Met \union {p} \subseteq Procs
      BY <1>1
    <3>3. Cardinality(Met') <= Cardinality(Met) + 1
      <4>1. Cardinality(Met') <= Cardinality(Met \union {p})
        BY <3>1, <3>2, ProcSets
      <4>2. Met \subseteq Procs
        BY <1>1
      <4> QED
        BY <3>1, <4>1, <4>2, ProcSets
    <3>4. /\ numSuiteDidBegins' = numSuiteDidBegins + 1
          /\ numSuiteDidBegins' = N => reportHoldingArea' = {}
      BY <1>4, <2>3 DEF PostSuiteWillBegin, Call, SpecSuiteWillBegin
    <3> QED
      BY <1>20, <2>2, <3>3, <3>4 DEF Begins
  <2>4. CASE p \notin connected
    <3>1. ~Heard(p)
      BY <1>4, <2>4 DEF IndInv, Counted, Heard, PostSuiteWillBegin, At
    <3>2. Met' \subseteq Met
      BY <1>3, <2>1, <3>1 DEF Begun, Met
    <3>3. Cardinality(Met') <= Cardinality(Met)
      BY <1>1, <3>2, ProcSets
    <3>4. UNCHANGED <<numSuiteDidBegins, reportHoldingArea>>
      BY <1>4, <2>4 DEF PostSuiteWillBegin, Call, serverVars
    <3> QED
      BY <1>20, <2>2, <3>3, <3>4 DEF Begins
  <2> QED
    BY <2>3, <2>4
<1>5. CASE ~PostSuiteWillBegin(p)
  <2>1. /\ numSuiteDidBegins' = numSuiteDidBegins
        /\ numSuiteDidBegins = N => reportHoldingArea' = reportHoldingArea
        /\ pc[p] # "begin" /\ pc'[p] # "begin"
    <3> USE <1>0, Effects DEF TypeOK, At, streamVars, serverVars, Items
    <3>1. CASE PostSuiteDidEnd(p)
      BY <3>1 DEF PostSuiteDidEnd, Call, SpecSuiteDidEnd
    <3>2. CASE PostDidRun(p)
      BY <3>2 DEF PostDidRun, Call, DidRun, Resume
    <3>3. CASE PostAbort(p)
      BY <3>3 DEF PostAbort, Call, Abort, Resume
    <3>4. CASE FetchNextCounter(p)
      BY <3>4 DEF FetchNextCounter, Counter, LeaveLoop
    <3>5. CASE Quiet(p)
      BY <3>5 DEF Quiet
    <3> QED
      BY <1>5, <3>1, <3>2, <3>3, <3>4, <3>5, Kinds
         DEF Marked, StartSpecs, NextSerialIndex, StartGroup, EndGroup,
             LastGroup, LeaveLoop, WaitBeforeSerial, ExitNormally, procVars
  <2>2. Begun' = Begun
    BY <1>0, <2>1, Frame DEF Begun, Same
  <2>3. Met' \subseteq Met
    BY <1>3, <2>2 DEF Begun, Met
  <2>4. Cardinality(Met') <= Cardinality(Met)
    BY <1>1, <2>3, ProcSets
  <2> QED
    BY <1>20, <2>1, <2>2, <2>4 DEF Begins
<1> QED
  BY <1>4, <1>5

\* `done`, and who exited with a passing status.
LEMMA StepEnds ==
  ASSUME IndInv, Ends, NEW p \in Procs, Step(p)
  PROVE  Ends'
<1>0. TypeOK /\ Counted
  BY DEF IndInv
<1>1. /\ done' <=> numSuiteDidEnds' = N
      /\ done => done'
  <2> USE DEF streamVars, serverVars, Ends
  <2>1. CASE PostSuiteDidEnd(p)
    <3>1. numSuiteDidEnds # N
      <4>1. p \notin aggregatedReport
        BY <1>0, <2>1 DEF PostSuiteDidEnd, At, Counted
      <4>2. aggregatedReport \subseteq Procs
        BY <1>0 DEF TypeOK
      <4> QED
        BY <1>0, <4>1, <4>2, ProcSets DEF Counted
    <3> QED
      BY <2>1, <3>1 DEF PostSuiteDidEnd, Call, SpecSuiteDidEnd
  <2>2. CASE PostSuiteWillBegin(p)
    BY <2>2 DEF PostSuiteWillBegin, Call, SpecSuiteWillBegin
  <2>3. CASE PostDidRun(p)
    BY <2>3 DEF PostDidRun, Call, DidRun
  <2>4. CASE PostAbort(p)
    BY <2>4 DEF PostAbort, Call, Abort
  <2>5. CASE FetchNextCounter(p)
    BY <2>5 DEF FetchNextCounter, Counter
  <2>6. CASE Quiet(p)
    BY <2>6 DEF Quiet
  <2> QED
    BY <1>0, <2>1, <2>2, <2>3, <2>4, <2>5, <2>6, Kinds
       DEF Marked, StartSpecs, NextSerialIndex, StartGroup, EndGroup,
           LastGroup, WaitBeforeSerial, ExitNormally
<1>2. \A q \in exitOK': pc'[q] = "exit" /\ succeeded'[q]
  <2>1. CASE ExitNormally(p)
    BY <1>0, <2>1 DEF ExitNormally, At, procVars, Ends, TypeOK
  <2>2. CASE ~ExitNormally(p)
    <3>1. exitOK' = exitOK /\ pc[p] # "exit"
      BY <1>0, <2>2, Kinds
         DEF Marked, Quiet, PostSuiteWillBegin, StartSpecs, FetchNextCounter,
             NextSerialIndex, StartGroup, EndGroup, LastGroup, WaitBeforeSerial,
             PostDidRun, PostAbort, PostSuiteDidEnd, At, envVars
    <3> QED
      BY <1>0, <3>1, Frame DEF Ends, Same, TypeOK
  <2> QED
    BY <2>1, <2>2
<1> QED
  BY <1>0, <1>1, <1>2, Kinds DEF Ends

-----------------------------------------------------------------------------
(* Indices and reports                                                     *)

\* Only a process's own steps change its index.
LEMMA OtherIndices ==
  ASSUME TypeOK, NEW p \in Procs, Step(p)
  PROVE  \A q \in Procs \ {p}: idx'[q] = idx[q]
<1>1. CASE FetchNextCounter(p) \/ NextSerialIndex(p) \/ WaitBeforeSerial(p)
  BY <1>1 DEF FetchNextCounter, NextSerialIndex, WaitBeforeSerial, TypeOK
<1>2. CASE idx' = idx
  BY <1>2
<1> QED
  BY <1>1, <1>2, Kinds
     DEF Marked, Quiet, PostSuiteWillBegin, StartSpecs, StartGroup, EndGroup,
         LastGroup, PostDidRun, PostAbort, PostSuiteDidEnd, ExitNormally, procVars

\* Reports are added by DidRun, and none is ever lost by the server.
LEMMA ReportsAdded ==
  ASSUME TypeOK, NEW p \in Procs, Step(p)
  PROVE  Reports' = IF PostDidRun(p) /\ p \in connected
                      THEN Reports \union {SpecReport(p)} ELSE Reports
<1> USE DEF Reports, streamVars, serverVars
<1>1. CASE PostDidRun(p)
  BY <1>1 DEF PostDidRun, Call, DidRun
<1>2. CASE PostSuiteWillBegin(p)
  BY <1>2 DEF PostSuiteWillBegin, Call, SpecSuiteWillBegin, PostDidRun, At
<1>3. CASE PostSuiteDidEnd(p)
  BY <1>3 DEF PostSuiteDidEnd, Call, SpecSuiteDidEnd, PostDidRun, At
<1>4. CASE PostAbort(p)
  BY <1>4 DEF PostAbort, Call, Abort, PostDidRun, At
<1>5. CASE FetchNextCounter(p)
  BY <1>5 DEF FetchNextCounter, Counter, PostDidRun, At
<1>6. CASE ~PostDidRun(p) /\ UNCHANGED <<emitted, reportHoldingArea>>
  BY <1>6
<1> QED
  BY <1>1, <1>2, <1>3, <1>4, <1>5, <1>6, Kinds
     DEF Marked, Quiet, StartSpecs, NextSerialIndex, StartGroup, EndGroup,
         LastGroup, WaitBeforeSerial, ExitNormally

\* A process that has reported a failure does not succeed.
LEMMA StepFailures ==
  ASSUME TypeOK, FailuresCount, NEW p \in Procs, Step(p)
  PROVE  FailuresCount'
<1>1. \A r \in Reports: r.proc \in Procs
  BY DEF TypeOK, Reports, SpecReports
<1>2. \A r \in Reports: r.failed => ~succeeded'[r.proc]
  BY <1>1, Kinds DEF FailuresCount
<1>3. CASE PostDidRun(p) /\ p \in connected
  <2>1. SpecReport(p).failed => ~succeeded'[SpecReport(p).proc]
    BY <1>3 DEF PostDidRun, SpecReport, TypeOK
  <2>2. Reports' = Reports \union {SpecReport(p)}
    BY <1>3, ReportsAdded
  <2> QED
    BY <1>2, <2>1, <2>2 DEF FailuresCount
<1>4. CASE ~(PostDidRun(p) /\ p \in connected)
  BY <1>2, <1>4, ReportsAdded DEF FailuresCount
<1> QED
  BY <1>3, <1>4

\* The facts about types that the following lemmas share.
LEMMA Basics ==
  ASSUME TypeOK, NEW p \in Procs, Step(p)
  PROVE  /\ TypeOK' /\ 1 \in Procs
         /\ cfg' = cfg /\ cfg.serial \in Nat /\ cfg.groups \in Nat
<1>1. TypeOK' /\ cfg' = cfg
  BY StepTyped, Frame
<1>2. cfg \in ConfigType
  BY SuiteAssumption DEF TypeOK
<1>3. 1 \in Procs
  BY ParallelTotalAssumption DEF Procs
<1> QED
  BY <1>1, <1>2, <1>3 DEF ConfigType

\* The server's counter moves only when an index is handed out.
LEMMA CounterMoves ==
  ASSUME TypeOK, NEW p \in Procs, Step(p)
  PROVE  counter' = IF FetchNextCounter(p) /\ p \in connected
                      THEN counter + 1 ELSE counter
<1> USE DEF streamVars, serverVars
<1>1. CASE FetchNextCounter(p)
  BY <1>1 DEF FetchNextCounter, Counter
<1>2. CASE ~FetchNextCounter(p) /\ counter' = counter
  BY <1>2
<1>3. CASE PostSuiteWillBegin(p)
  BY <1>2, <1>3 DEF PostSuiteWillBegin, FetchNextCounter, At, Call, SpecSuiteWillBegin
<1>4. CASE PostDidRun(p)
  BY <1>2, <1>4 DEF PostDidRun, FetchNextCounter, At, Call, DidRun
<1>5. CASE PostAbort(p)
  BY <1>2, <1>5 DEF PostAbort, FetchNextCounter, At, Call, Abort
<1>6. CASE PostSuiteDidEnd(p)
  BY <1>2, <1>6 DEF PostSuiteDidEnd, FetchNextCounter, At, Call, SpecSuiteDidEnd
<1> QED
  BY <1>1, <1>2, <1>3, <1>4, <1>5, <1>6, Kinds
     DEF Marked, Quiet, StartSpecs, NextSerialIndex, StartGroup, EndGroup,
         LastGroup, WaitBeforeSerial, ExitNormally

\* Where every process is with respect to the loop.
LEMMA StepLoopDone ==
  ASSUME IndInv, LoopDone, HandedOut, NEW p \in Procs, Step(p)
  PROVE  LoopDone'
<1>0. /\ TypeOK /\ TypeOK' /\ 1 \in Procs
      /\ cfg' = cfg /\ cfg.serial \in Nat /\ cfg.groups \in Nat
  BY Basics DEF IndInv
<1>1. counter \in Nat /\ counter' >= counter
  BY <1>0, CounterMoves DEF TypeOK
<1> DEFINE Mine(q) ==
      /\ serialPhase[q] => q = 1
      /\ pc[q] = "serialWait" => serialPhase[q]
      /\ PastLoop(q) /\ succeeded[q] =>
           /\ idx[q] >= NumGroups(q)
           /\ ~serialPhase[q] => idx[q] < counter
           /\ q = 1 /\ cfg.serial > 0 => serialPhase[q]
<1>2. Mine(p)'
  <2>0. /\ serialPhase[p] => p = 1
        /\ pc[p] = "serialWait" /\ p = 1 => serialPhase[p]
        /\ PastLoop(p) /\ succeeded[p] =>
             /\ idx[p] >= NumGroups(p)
             /\ ~serialPhase[p] => idx[p] < counter
             /\ p = 1 /\ cfg.serial > 0 => serialPhase[p]
    BY DEF LoopDone
  <2>1. /\ idx[p] \in Nat /\ idx'[p] \in Nat /\ counter \in Nat /\ counter' \in Nat
        /\ serialPhase[p] \in BOOLEAN /\ item[p] \in Items
    BY <1>0 DEF TypeOK
  <2>2. succeeded'[p] => succeeded[p]
    BY <1>0, Kinds
  <2> USE <1>0, <1>1, <2>0, <2>1, <2>2, Effects
      DEF At, PastLoop, Posting, NumGroups
  <2>3. CASE Quiet(p)
    BY <2>3 DEF Quiet, Looping
  <2>4. CASE PostSuiteWillBegin(p) \/ StartSpecs(p)
    BY <2>4 DEF PostSuiteWillBegin, StartSpecs
  <2>5. CASE FetchNextCounter(p)
    BY <2>5 DEF FetchNextCounter, LeaveLoop, TypeOK
  <2>6. CASE NextSerialIndex(p) \/ StartGroup(p) \/ EndGroup(p)
    BY <2>6 DEF NextSerialIndex, StartGroup, EndGroup
  <2>7. CASE LastGroup(p)
    <3>1. ~serialPhase[p] => idx[p] < counter
      BY <2>7 DEF LastGroup, HandedOut, Parallel, Holds
    <3> QED
      BY <2>7, <3>1 DEF LastGroup, LeaveLoop, TypeOK
  <2>8. CASE WaitBeforeSerial(p)
    BY <2>8 DEF WaitBeforeSerial
  <2>9. CASE PostDidRun(p)
    BY <2>9 DEF PostDidRun, Resume, Items
  <2>10. CASE PostAbort(p)
    BY <2>10 DEF PostAbort, Resume, Items
  <2>11. CASE PostSuiteDidEnd(p) \/ ExitNormally(p)
    BY <2>11 DEF PostSuiteDidEnd, ExitNormally, procVars
  <2> QED
    BY <2>3, <2>4, <2>5, <2>6, <2>7, <2>8, <2>9, <2>10, <2>11, Kinds DEF Marked
<1>3. ASSUME NEW q \in Procs \ {p} PROVE Mine(q)'
  <2>1. Same(q) /\ idx'[q] = idx[q]
    BY <1>0, Frame, OtherIndices
  <2>2. /\ PastLoop(q)' <=> PastLoop(q)
        /\ NumGroups(q)' = NumGroups(q)
    BY <1>0, <2>1 DEF PastLoop, Posting, NumGroups, Same
  <2>3. q # 1 => pc[q] # "serialWait"
    BY <1>0 DEF IndInv, PostedByProcess1, OnlyProcess1, Nonprimary
  <2> QED
    BY <1>0, <1>1, <2>1, <2>2, <2>3 DEF LoopDone, Same, TypeOK
<1> QED
  BY <1>0, <1>2, <1>3 DEF LoopDone

\* The report of a group is added when the process that has its index posts it.
LEMMA GroupReported ==
  ASSUME TypeOK, NEW p \in Procs, Step(p), NEW s \in BOOLEAN
  PROVE  GroupReports(s)' =
           IF PostDidRun(p) /\ p \in connected /\ Holds(p) /\ serialPhase[p] = s
             THEN GroupReports(s) \union {SpecReport(p)} ELSE GroupReports(s)
<1>1. CASE PostDidRun(p) /\ p \in connected
  <2>1. Reports' = Reports \union {SpecReport(p)}
    BY <1>1, ReportsAdded
  <2>2. SpecReport(p).item = "group" /\ SpecReport(p).serial = s
          <=> Holds(p) /\ serialPhase[p] = s
    BY <1>1 DEF PostDidRun, At, SpecReport, Holds
  <2> QED
    BY <1>1, <2>1, <2>2 DEF GroupReports
<1>2. CASE ~(PostDidRun(p) /\ p \in connected)
  BY <1>2, ReportsAdded DEF GroupReports
<1> QED
  BY <1>1, <1>2

\* How a process comes by an index to run, and how it parts with it.
LEMMA IndexMoves ==
  ASSUME TypeOK, PostedByProcess1, LoopDone, NEW p \in Procs, Step(p)
  PROVE  /\ Parallel(p)' =>
              \/ Parallel(p) /\ idx'[p] = idx[p] /\ ~PostDidRun(p)
              \/ /\ FetchNextCounter(p) /\ p \in connected /\ ~Parallel(p)
                 /\ idx'[p] = counter
         /\ Parallel(p) /\ ~Parallel(p)' => idx[p] >= cfg.groups \/ PostDidRun(p)
         /\ FetchNextCounter(p) /\ p \in connected =>
              Parallel(p)' /\ idx'[p] = counter
         /\ \A q \in Procs \ {p}: (Parallel(q)' <=> Parallel(q)) /\ idx'[q] = idx[q]
<1>1. \A q \in Procs \ {p}: (Parallel(q)' <=> Parallel(q)) /\ idx'[q] = idx[q]
  BY Frame, OtherIndices DEF Parallel, Holds, Same
<1>2. /\ item[p] \in Items /\ serialPhase[p] \in BOOLEAN
      /\ idx[p] \in Nat /\ p \in DOMAIN idx /\ p \in DOMAIN serialPhase
  BY DEF TypeOK
<1>20. pc[p] = "serialWait" => serialPhase[p]
  BY DEF PostedByProcess1, OnlyProcess1, Nonprimary, LoopDone
<1> USE <1>2, Effects DEF At, Parallel, Holds
<1>3. CASE Quiet(p)
  BY <1>1, <1>3 DEF Quiet, Looping, Posting, FetchNextCounter, PostDidRun
<1>4. CASE PostSuiteWillBegin(p) \/ StartSpecs(p)
  BY <1>1, <1>4 DEF PostSuiteWillBegin, StartSpecs, FetchNextCounter, PostDidRun
<1>5. CASE FetchNextCounter(p)
  BY <1>1, <1>5 DEF FetchNextCounter, LeaveLoop, PostDidRun, TypeOK
<1>6. CASE NextSerialIndex(p) \/ StartGroup(p) \/ EndGroup(p)
  BY <1>1, <1>6 DEF NextSerialIndex, StartGroup, EndGroup, FetchNextCounter, PostDidRun
<1>7. CASE LastGroup(p)
  BY <1>1, <1>7 DEF LastGroup, LeaveLoop, NumGroups, FetchNextCounter, PostDidRun, TypeOK
<1>8. CASE PostDidRun(p)
  BY <1>1, <1>8 DEF PostDidRun, Resume, Items, FetchNextCounter
<1>9. CASE PostAbort(p)
  BY <1>1, <1>9 DEF PostAbort, Resume, Items, FetchNextCounter, PostDidRun
<1>10. CASE PostSuiteDidEnd(p) \/ ExitNormally(p)
  BY <1>1, <1>10 DEF PostSuiteDidEnd, ExitNormally, procVars, FetchNextCounter, PostDidRun
<1>11. CASE WaitBeforeSerial(p)
  BY <1>1, <1>11, <1>20 DEF WaitBeforeSerial, FetchNextCounter, PostDidRun
<1> QED
  BY <1>3, <1>4, <1>5, <1>6, <1>7, <1>8, <1>9, <1>10, <1>11, Kinds DEF Marked

\* Every index is handed out once.
LEMMA StepHandedOut ==
  ASSUME IndInv, LoopDone, HandedOut, NEW p \in Procs, Step(p)
  PROVE  HandedOut'
<1>0. /\ TypeOK /\ PostedByProcess1 /\ counter \in Nat /\ idx[p] \in Nat
      /\ cfg' = cfg /\ cfg.groups \in Nat
  BY Basics DEF IndInv, TypeOK
<1> DEFINE G == ParallelReports
           Rep == SpecReport(p)
           Posts == PostDidRun(p) /\ p \in connected /\ Parallel(p)
           Gets == FetchNextCounter(p) /\ p \in connected
<1>1. G' = IF Posts THEN G \union {Rep} ELSE G
  <2>1. serialPhase[p] = FALSE <=> ~serialPhase[p]
    BY <1>0 DEF TypeOK
  <2> QED
    BY <1>0, <2>1, GroupReported DEF Parallel, ParallelReports
<1>2. counter' = IF Gets THEN counter + 1 ELSE counter
  BY <1>0, CounterMoves
<1>3. Rep.idx = idx[p]
  BY DEF SpecReport
<1>4. /\ Parallel(p)' => \/ Parallel(p) /\ idx'[p] = idx[p] /\ ~PostDidRun(p)
                         \/ Gets /\ ~Parallel(p) /\ idx'[p] = counter
      /\ Parallel(p) /\ ~Parallel(p)' => idx[p] >= cfg.groups \/ PostDidRun(p)
      /\ Gets => Parallel(p)' /\ idx'[p] = counter
      /\ \A q \in Procs \ {p}: (Parallel(q)' <=> Parallel(q)) /\ idx'[q] = idx[q]
  BY <1>0, IndexMoves
<1>5. ~(Posts /\ Gets)
  BY DEF PostDidRun, FetchNextCounter, At
<1>6. /\ \A r \in G: r.idx \in Nat /\ r.idx < counter
      /\ \A r, t \in G: r.idx = t.idx => r = t
      /\ \A q \in Procs: Parallel(q) => /\ idx[q] < counter
                                        /\ \A r \in G: r.idx # idx[q]
      /\ \A q, u \in Procs: Parallel(q) /\ Parallel(u) /\ idx[q] = idx[u] => q = u
      /\ \A q \in Procs: idx[q] \in Nat
  BY <1>0 DEF HandedOut, TypeOK, ParallelReports, GroupReports, Reports, SpecReports
<1>20. (\A q \in Procs: Heard(q)) =>
         \A i \in Nat: i < counter /\ i < cfg.groups =>
           \/ \E r \in G: r.idx = i
           \/ \E q \in Procs: Parallel(q) /\ idx[q] = i
  BY DEF HandedOut
<1>21. \A q \in Procs: Heard(q)' => Heard(q)
  BY <1>0, HeardShrinks DEF Next
<1>22. PostDidRun(p) /\ Heard(p) => p \in connected
  BY DEF PostDidRun, At, Heard, IndInv, Counted
<1> HIDE DEF G, Rep, Posts, Gets
<1>7. \A r \in G': r.idx < counter'
  BY <1>0, <1>1, <1>2, <1>3, <1>5, <1>6 DEF Posts
<1>8. \A r, t \in G': r.idx = t.idx => r = t
  BY <1>1, <1>3, <1>6 DEF Posts
<1>9. \A q \in Procs: Parallel(q)' => idx'[q] < counter'
  BY <1>0, <1>2, <1>4, <1>6
<1>10. \A q \in Procs: Parallel(q)' => \A r \in G': r.idx # idx'[q]
  <2> SUFFICES ASSUME NEW q \in Procs, Parallel(q)', NEW r \in G'
               PROVE  r.idx # idx'[q]
    OBVIOUS
  <2>1. CASE q = p
    BY <1>1, <1>4, <1>5, <1>6, <2>1 DEF Posts
  <2>2. CASE q # p
    BY <1>1, <1>3, <1>4, <1>6, <2>2 DEF Posts
  <2> QED
    BY <2>1, <2>2
<1>11. \A q, u \in Procs: Parallel(q)' /\ Parallel(u)' /\ idx'[q] = idx'[u] => q = u
  <2> SUFFICES ASSUME NEW q \in Procs \ {p}, Parallel(q)', Parallel(p)'
               PROVE  idx'[q] # idx'[p]
    BY <1>4, <1>6
  <2> QED
    BY <1>0, <1>4, <1>6
<1>12. ASSUME \A q \in Procs: Heard(q)',
              NEW i \in Nat, i < counter', i < cfg.groups
       PROVE  \/ \E r \in G': r.idx = i
              \/ \E q \in Procs: Parallel(q)' /\ idx'[q] = i
  <2>1. CASE Gets /\ i = counter
    BY <1>4, <2>1
  <2>2. CASE i < counter
    <3>1. CASE \E r \in G: r.idx = i
      BY <1>1, <3>1
    <3>2. ASSUME NEW q \in Procs, Parallel(q), idx[q] = i
          PROVE  \/ \E r \in G': r.idx = i
                 \/ \E u \in Procs: Parallel(u)' /\ idx'[u] = i
      <4>1. CASE q = p /\ PostDidRun(p)
        BY <1>1, <1>3, <1>12, <1>21, <1>22, <3>2, <4>1 DEF Posts
      <4>2. CASE q = p /\ ~PostDidRun(p)
        BY <1>0, <1>4, <1>12, <3>2, <4>2
      <4>3. CASE q # p
        BY <1>4, <3>2, <4>3
      <4> QED
        BY <4>1, <4>2, <4>3
    <3> QED
      BY <1>12, <1>20, <1>21, <2>2, <3>1, <3>2
  <2> QED
    BY <1>0, <1>2, <1>12, <2>1, <2>2
<1> QED
  BY <1>0, <1>7, <1>8, <1>9, <1>10, <1>11, <1>12 DEF HandedOut, G

\* How process 1 moves through the Serial groups.
LEMMA SerialMoves ==
  ASSUME TypeOK, NEW p \in Procs, Step(p), LoopDone
  PROVE  /\ ~InSerial => ~InSerial' \/ (idx'[1] = 0 /\ Holds(1)')
         /\ InSerial =>
              /\ InSerial'
              /\ \/ idx'[1] = idx[1] /\ (Holds(1)' <=> Holds(1))
                 \/ idx'[1] = idx[1] + 1 /\ Holds(1)' /\ ~Holds(1)
                 \/ /\ idx'[1] = idx[1] /\ ~Holds(1)' /\ Holds(1)
                    /\ p = 1 /\ (PostDidRun(1) \/ idx[1] >= cfg.serial)
              /\ p = 1 /\ PostDidRun(1) => idx'[1] = idx[1] /\ ~Holds(1)'
<1>0. 1 \in Procs
  BY ParallelTotalAssumption DEF Procs
<1>1. CASE p # 1
  BY <1>0, <1>1, Frame, OtherIndices DEF InSerial, Holds, Same
<1> SUFFICES ASSUME p = 1
             PROVE  /\ ~InSerial => ~InSerial' \/ (idx'[1] = 0 /\ Holds(1)')
                    /\ InSerial =>
                         /\ InSerial'
                         /\ \/ idx'[1] = idx[1] /\ (Holds(1)' <=> Holds(1))
                            \/ idx'[1] = idx[1] + 1 /\ Holds(1)' /\ ~Holds(1)
                            \/ /\ idx'[1] = idx[1] /\ ~Holds(1)' /\ Holds(1)
                               /\ PostDidRun(1) \/ idx[1] >= cfg.serial
                         /\ PostDidRun(1) => idx'[1] = idx[1] /\ ~Holds(1)'
  BY <1>1
<1>2. /\ item[1] \in Items /\ serialPhase[1] \in BOOLEAN /\ idx[1] \in Nat
      /\ pc[1] = "serialWait" => serialPhase[1]
  BY <1>0 DEF TypeOK, LoopDone
<1> USE <1>0, <1>2, Effects DEF At, InSerial, Holds
<1>3. CASE Quiet(1)
  BY <1>3 DEF Quiet, Looping, Posting, PostDidRun
<1>4. CASE PostSuiteWillBegin(1) \/ StartSpecs(1)
  BY <1>4 DEF PostSuiteWillBegin, StartSpecs, PostDidRun
<1>5. CASE FetchNextCounter(1)
  BY <1>5 DEF FetchNextCounter, LeaveLoop, PostDidRun
<1>6. CASE NextSerialIndex(1)
  BY <1>6 DEF NextSerialIndex, PostDidRun, TypeOK
<1>7. CASE StartGroup(1) \/ EndGroup(1)
  BY <1>7 DEF StartGroup, EndGroup, PostDidRun
<1>8. CASE LastGroup(1)
  BY <1>8 DEF LastGroup, LeaveLoop, NumGroups, PostDidRun, TypeOK
<1>9. CASE WaitBeforeSerial(1)
  BY <1>9 DEF WaitBeforeSerial, PostDidRun, TypeOK
<1>10. CASE PostDidRun(1)
  BY <1>10 DEF PostDidRun, Resume, Items
<1>11. CASE PostAbort(1)
  BY <1>11 DEF PostAbort, Resume, Items, PostDidRun
<1>12. CASE PostSuiteDidEnd(1) \/ ExitNormally(1)
  BY <1>12 DEF PostSuiteDidEnd, ExitNormally, procVars, PostDidRun
<1> QED
  BY <1>3, <1>4, <1>5, <1>6, <1>7, <1>8, <1>9, <1>10, <1>11, <1>12, Kinds
     DEF Marked

\* Every Serial group is run once.
LEMMA StepSerialCounted ==
  ASSUME IndInv, LoopDone, SerialCounted, NEW p \in Procs, Step(p)
  PROVE  SerialCounted'
<1>0. /\ TypeOK /\ 1 \in Procs /\ idx[1] \in Nat /\ idx'[1] \in Nat
      /\ cfg' = cfg /\ cfg.serial \in Nat
  BY Basics DEF IndInv, TypeOK
<1> DEFINE G == SerialReports
           Rep == SpecReport(1)
           Posts == p = 1 /\ PostDidRun(1) /\ 1 \in connected /\ Holds(1) /\ InSerial
<1>1. G' = IF Posts THEN G \union {Rep} ELSE G
  <2>1. PostDidRun(p) /\ serialPhase[p] = TRUE => p = 1 /\ InSerial
    BY DEF LoopDone, InSerial, PostDidRun, At
  <2>2. InSerial => serialPhase[1] = TRUE
    BY <1>0 DEF TypeOK, InSerial
  <2> QED
    BY <1>0, <2>1, <2>2, GroupReported DEF SerialReports
<1>2. Rep.idx = idx[1]
  BY DEF SpecReport
<1>3. /\ ~InSerial => ~InSerial' \/ (idx'[1] = 0 /\ Holds(1)')
      /\ InSerial =>
           /\ InSerial'
           /\ \/ idx'[1] = idx[1] /\ (Holds(1)' <=> Holds(1))
              \/ idx'[1] = idx[1] + 1 /\ Holds(1)' /\ ~Holds(1)
              \/ /\ idx'[1] = idx[1] /\ ~Holds(1)' /\ Holds(1)
                 /\ p = 1 /\ (PostDidRun(1) \/ idx[1] >= cfg.serial)
           /\ p = 1 /\ PostDidRun(1) => idx'[1] = idx[1] /\ ~Holds(1)'
  BY <1>0, SerialMoves
<1>4. /\ \A r \in G: /\ r.idx \in Nat /\ InSerial /\ r.idx <= idx[1]
                     /\ Holds(1) => r.idx < idx[1]
      /\ \A r, t \in G: r.idx = t.idx => r = t
      /\ Heard(1) /\ InSerial =>
           \A i \in Nat: i < cfg.serial /\ i <= idx[1] /\ (i = idx[1] => ~Holds(1))
                        => \E r \in G: r.idx = i
  BY <1>0 DEF SerialCounted, TypeOK, SerialReports, GroupReports, Reports, SpecReports
<1>5. Heard(1)' => Heard(1)
  BY <1>0, HeardShrinks DEF Next
<1>6. p = 1 /\ PostDidRun(1) /\ Heard(1) => 1 \in connected
  BY DEF PostDidRun, At, Heard, IndInv, Counted
<1> HIDE DEF G, Rep, Posts
<1>7. \A r \in G': InSerial' /\ r.idx <= idx'[1] /\ (Holds(1)' => r.idx < idx'[1])
  <2>1. ASSUME NEW r \in G
        PROVE  InSerial' /\ r.idx <= idx'[1] /\ (Holds(1)' => r.idx < idx'[1])
    <3>1. InSerial /\ r.idx \in Nat /\ r.idx <= idx[1] /\ (Holds(1) => r.idx < idx[1])
      BY <1>4, <2>1
    <3> QED
      BY <1>0, <1>3, <3>1
  <2>2. Posts => InSerial' /\ idx'[1] = idx[1] /\ ~Holds(1)'
    BY <1>3 DEF Posts
  <2> QED
    BY <1>0, <1>1, <1>2, <2>1, <2>2
<1>8. \A r, t \in G': r.idx = t.idx => r = t
  BY <1>0, <1>1, <1>2, <1>4 DEF Posts
<1>9. ASSUME Heard(1)', InSerial', NEW i \in Nat,
             i < cfg.serial, i <= idx'[1], i = idx'[1] => ~Holds(1)'
      PROVE  \E r \in G': r.idx = i
  <2>1. InSerial
    BY <1>0, <1>3, <1>9
  <2>2. CASE i = idx[1] /\ Holds(1)
    <3>1. Posts
      BY <1>0, <1>3, <1>5, <1>6, <1>9, <2>1, <2>2 DEF Posts
    <3> QED
      BY <1>1, <1>2, <2>2, <3>1
  <2>3. CASE ~(i = idx[1] /\ Holds(1))
    BY <1>0, <1>1, <1>3, <1>4, <1>5, <1>9, <2>1, <2>3
  <2> QED
    BY <2>2, <2>3
<1> QED
  BY <1>0, <1>7, <1>8, <1>9 DEF SerialCounted, G

-----------------------------------------------------------------------------
(* The invariant                                                           *)

\* The invariant holds at the start.
LEMMA InitPassInv == Init => PassInv
<1> SUFFICES ASSUME Init PROVE PassInv
  OBVIOUS
<1>0. IndInv /\ N \in Nat /\ N > 1 /\ 1 \in Procs
  BY InitIndInv, ParallelTotalAssumption DEF Procs
<1>1. Begins
  <2>1. Begun = {} /\ Met = {}
    BY DEF Begun, Met, Init
  <2> QED
    BY <1>0, <2>1, FS_EmptySet DEF Begins, Init, ServerInit
<1>2. Ends
  BY <1>0 DEF Ends, Init, ServerInit
<1>3. Reports = {} /\ ParallelReports = {} /\ SerialReports = {} /\ counter = 0
  BY DEF Reports, ParallelReports, SerialReports, GroupReports, Init, ServerInit
<1>4. \A q \in Procs: ~PastLoop(q) /\ ~Holds(q) /\ ~serialPhase[q]
  BY DEF PastLoop, Posting, Holds, Init
<1>5. LoopDone
  BY <1>0, <1>4 DEF LoopDone, Init
<1>6. HandedOut
  BY <1>3, <1>4 DEF HandedOut, Parallel
<1>7. SerialCounted /\ FailuresCount
  BY <1>0, <1>3, <1>4 DEF SerialCounted, FailuresCount, InSerial
<1> QED
  BY <1>0, <1>1, <1>2, <1>5, <1>6, <1>7 DEF PassInv

\* Every step keeps it.
LEMMA NextPassInv == PassInv /\ [Next]_vars => PassInv'
<1> SUFFICES ASSUME PassInv, [Next]_vars PROVE PassInv'
  OBVIOUS
<1>0. IndInv' /\ TypeOK
  BY NextIndInv DEF PassInv, IndInv
<1>1. ASSUME NEW p \in Procs, Step(p) PROVE PassInv'
  BY <1>0, <1>1, StepBegins, StepEnds, StepLoopDone, StepHandedOut,
     StepSerialCounted, StepFailures DEF PassInv
<1>2. CASE Environment \/ CLI \/ Terminated \/ UNCHANGED vars
  <2>1. UNCHANGED <<pc, item, idx, serialPhase, succeeded, cfg, numSuiteDidBegins,
                    numSuiteDidEnds, aggregatedReport, reportHoldingArea, emitted,
                    done, counter, exitOK>>
        /\ (cli' = "reported" => cli = "reported" \/ done)
    BY <1>2 DEF Environment, Crash, Kill, Die, Disconnect, SignalProc, DeadlinePasses,
                CLI, Wait, Gone, CollectResults, SuiteDone, ReportTimeout, Terminated,
                vars, procVars, envVars, serverVars, streamVars
  <2>2. \A q \in Procs: Heard(q)' => Heard(q)
    BY <1>0, HeardShrinks
  <2>3. Begins'
    <3>1. Begun' = Begun /\ Begun \subseteq Procs /\ Met \subseteq Procs
          /\ Met' \subseteq Met
      BY <2>1, <2>2 DEF Begun, Met
    <3>2. Met' \subseteq Procs
      BY <3>1
    <3>3. /\ Cardinality(Met') \in Nat /\ Cardinality(Met) \in Nat
          /\ Cardinality(Met') <= Cardinality(Met)
      BY <3>1, <3>2, ProcSets
    <3> QED
      BY <1>0, <2>1, <3>1, <3>3 DEF PassInv, Begins, TypeOK
  <2>4. Ends'
    BY <2>1 DEF PassInv, Ends
  <2>5. \A q \in Procs: /\ PastLoop(q)' <=> PastLoop(q)
                        /\ Holds(q)' <=> Holds(q)
                        /\ Parallel(q)' <=> Parallel(q)
                        /\ NumGroups(q)' = NumGroups(q)
    BY <2>1 DEF PastLoop, Posting, Holds, Parallel, NumGroups
  <2>6. LoopDone'
    BY <2>1, <2>5 DEF PassInv, LoopDone
  <2>7. /\ Reports' = Reports
        /\ SerialReports' = SerialReports
        /\ ParallelReports' = ParallelReports
    BY <2>1 DEF Reports, ParallelReports, SerialReports, GroupReports
  <2>8. HandedOut'
    BY <2>1, <2>2, <2>5, <2>7 DEF PassInv, HandedOut
  <2>9. SerialCounted' /\ FailuresCount'
    <3>1. 1 \in Procs
      BY ParallelTotalAssumption DEF Procs
    <3> QED
      BY <2>1, <2>2, <2>5, <2>7, <3>1
         DEF PassInv, SerialCounted, FailuresCount, InSerial
  <2> QED
    BY <1>0, <2>3, <2>4, <2>6, <2>8, <2>9 DEF PassInv
<1> QED
  BY <1>1, <1>2 DEF Next

\* So it always holds.
LEMMA PassInvariance == Spec => []PassInv
  BY InitPassInv, NextPassInv, PTL DEF Spec

-----------------------------------------------------------------------------
(* Theorems                                                                *)

\* Once `done` is closed every process was heard to the end.
LEMMA DoneMeansHeard ==
  ASSUME PassInv, done
  PROVE  /\ reportHoldingArea = {}
         /\ \A q \in Procs: Heard(q) /\ pc[q] = "exit"
<1>0. TypeOK /\ Counted /\ N \in Nat
  BY ParallelTotalAssumption DEF PassInv, IndInv
<1>1. aggregatedReport = Procs
  <2>1. aggregatedReport \subseteq Procs
    BY <1>0 DEF TypeOK
  <2>2. Cardinality(aggregatedReport) = N
    BY <1>0 DEF PassInv, Ends, Counted
  <2> QED
    BY <2>1, <2>2, ProcSets
<1>2. \A q \in Procs: Heard(q) /\ pc[q] = "exit"
  BY <1>0, <1>1 DEF Heard, Counted
<1>3. Begun = Procs /\ Met = Procs
  BY <1>2 DEF Begun, Met
<1>4. Cardinality(Procs) = N
  BY <1>0, FS_Interval DEF Procs
<1>5. numSuiteDidBegins = N
  BY <1>0, <1>3, <1>4 DEF PassInv, Begins, TypeOK
<1> QED
  BY <1>2, <1>5 DEF PassInv, Begins

\* No report that came before every process had begun is kept back
\* (SpecSuiteWillBegin empties the holding area into the reporter): when the
\* server says the suite is done, whoever died or lost its connection in
\* between, the holding area is empty.
THEOREM AllReported == Spec => []NothingHeldBack
<1>1. PassInv => NothingHeldBack
  BY DoneMeansHeard DEF NothingHeldBack
<1> QED
  BY <1>1, PassInvariance, PTL

\* A suite that the CLI reports as passed (runParallel: all processes exited
\* well and the server was done) has run each of its groups, parallel and
\* Serial, on exactly one process, and none of its reports is a failure.
THEOREM PassedIsComplete == Spec => []PassIsComplete
<1>1. ASSUME PassInv, cli = "reported", suitePassed
      PROVE  /\ \A s \in BOOLEAN:
                  \A i \in 0..((IF s THEN cfg.serial ELSE cfg.groups) - 1):
                    Cardinality({r \in emitted: r.item = "group" /\ r.serial = s
                                                /\ r.idx = i}) = 1
             /\ \A r \in emitted: ~r.failed
  <2>0. /\ TypeOK /\ 1 \in Procs /\ 2 \in Procs
        /\ cfg.serial \in Nat /\ cfg.groups \in Nat
    <3>1. cfg \in ConfigType /\ TypeOK
      BY <1>1, SuiteAssumption DEF PassInv, IndInv, TypeOK
    <3> QED
      BY <3>1, ParallelTotalAssumption DEF Procs, ConfigType
  <2>1. \A q \in Procs: Heard(q) /\ pc[q] = "exit" /\ succeeded[q]
    BY <1>1, DoneMeansHeard DEF PassInv, Ends, suitePassed
  <2>2. Reports = emitted
    BY <1>1, DoneMeansHeard DEF PassInv, Ends, Reports
  <2>3. \A r \in emitted: ~r.failed
    BY <1>1, <2>0, <2>1, <2>2 DEF PassInv, FailuresCount, TypeOK, SpecReports
  <2>4. \A q \in Procs: /\ ~Holds(q)
                        /\ idx[q] >= NumGroups(q) /\ idx[q] \in Nat
                        /\ ~serialPhase[q] => idx[q] < counter
                        /\ q = 1 /\ cfg.serial > 0 => serialPhase[q]
                        /\ serialPhase[q] => q = 1
    BY <1>1, <2>0, <2>1 DEF PassInv, LoopDone, PastLoop, Holds, TypeOK
  <2>5. ASSUME NEW i \in Nat, i < cfg.groups
        PROVE  \E r \in ParallelReports: r.idx = i
    <3>1. i < counter
      BY <2>0, <2>4, <2>5 DEF NumGroups, TypeOK
    <3> QED
      BY <1>1, <2>1, <2>4, <2>5, <3>1 DEF PassInv, HandedOut, Parallel
  <2>6. ASSUME NEW i \in Nat, i < cfg.serial
        PROVE  \E r \in SerialReports: r.idx = i
    <3>1. InSerial /\ i < idx[1]
      BY <2>0, <2>1, <2>4, <2>6 DEF NumGroups, InSerial
    <3> QED
      BY <1>1, <2>0, <2>1, <2>4, <2>6, <3>1 DEF PassInv, SerialCounted
  <2>7. ASSUME NEW s \in BOOLEAN,
               NEW i \in 0..((IF s THEN cfg.serial ELSE cfg.groups) - 1)
        PROVE  Cardinality({r \in emitted: r.item = "group" /\ r.serial = s
                                            /\ r.idx = i}) = 1
    <3>1. PICK r \in GroupReports(s): r.idx = i
      <4>1. CASE s = TRUE
        <5>1. i \in Nat /\ i < cfg.serial
          BY <2>0, <4>1
        <5> QED
          BY <2>6, <4>1, <5>1 DEF SerialReports
      <4>2. CASE s = FALSE
        <5>1. i \in Nat /\ i < cfg.groups
          BY <2>0, <4>2
        <5> QED
          BY <2>5, <4>2, <5>1 DEF ParallelReports
      <4> QED
        BY <4>1, <4>2
    <3>2. \A t \in GroupReports(s): t.idx = i => t = r
      BY <1>1, <3>1
         DEF PassInv, HandedOut, SerialCounted, ParallelReports, SerialReports
    <3>3. {t \in emitted: t.item = "group" /\ t.serial = s /\ t.idx = i} = {r}
      BY <2>2, <3>1, <3>2 DEF GroupReports
    <3> QED
      BY <3>3, FS_Singleton
  <2> QED
    BY <2>3, <2>7
<1>2. PassInv => PassIsComplete
  BY <1>1 DEF PassIsComplete
<1> QED
  BY <1>2, PassInvariance, PTL
=============================================================================
