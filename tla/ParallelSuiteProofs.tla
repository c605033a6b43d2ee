------------------------ MODULE ParallelSuiteProofs -------------------------
(***************************************************************************)
(* Proofs about ParallelSuite, for every number of processes, every suite  *)
(* and every bound on the faults: the barriers at which processes wait for *)
(* each other.  ParallelSuitePassProofs builds on them; liveness stays     *)
(* with TLC.                                                               *)
(***************************************************************************)
EXTENDS ParallelSuite, FiniteSetTheorems, TLAPS

-----------------------------------------------------------------------------
(* The parts of the inductive invariant                                    *)

\* Who the CLI has waited for has exited; process 1 is past a barrier only when
\* all the others are.
Barriers ==
  /\ \A q \in gone: os[q] = "exited"
  /\ pc[1] \in {"sas1", "cleanupBody", "rasBody"} => Nonprimary \subseteq gone

\* As long as no connection breaks, the wait before the Serial groups counts.
SerialBarrier ==
  /\ connected = Procs
  /\ serialPhase[1] /\ pc[1] # "serialWait" => Nonprimary \subseteq gone

\* The report a process is about to post, or has just posted, is about `what`.
Posting(q, what) == pc[q] \in {"didRun", "abort"} /\ item[q] = what

\* Process 1 has yet to post the state of its ReportBeforeSuite, or of its
\* SynchronizedBeforeSuite; nobody else posts them.
BeforeReport(q) == pc[q] \in {"begin", "rbsBody", "rbsPost"} \/ Posting(q, "rbs")
BeforeSetup(q) ==
  BeforeReport(q) \/ pc[q] \in {"rbsPoll", "rbsReply", "before", "sbs1", "sbsPost"}
OnlyProcess1 == {"rbsBody", "rbsPost", "sbs1", "sbsPost", "serialWait"}
PostedByProcess1 ==
  /\ \A q \in Nonprimary: pc[q] \notin OnlyProcess1 /\ ~Posting(q, "rbs")
  /\ BeforeReport(1) => reportBeforeSuiteState # "passed"
  /\ BeforeSetup(1) => beforeSuiteState # "passed"

\* Process q is on the way to a spec: it has got past ReportBeforeSuite, or
\* past the first half of SynchronizedBeforeSuite.
PastReport(q) ==
  \/ pc[q] \in {"beforeBody", "sbsPoll", "sbsReply", "sbsGate", "sbsAll",
                "fetch", "next", "group"}
  \/ pc[q] \in {"before", "specs"} /\ succeeded[q]
  \/ Posting(q, "before") \/ Posting(q, "group")
PastSetup(q) ==
  \/ pc[q] \in {"sbsGate", "sbsAll", "fetch", "next", "group"}
  \/ pc[q] = "specs" /\ succeeded[q]
  \/ pc[q] = "didRun" /\ item[q] = "before" /\ node[q] \notin FailureStates
  \/ pc[q] = "abort" /\ item[q] = "before" /\ succeeded[q]
  \/ Posting(q, "group")
OthersWait ==
  \A q \in Nonprimary:
    /\ cfg.rbs /\ PastReport(q) => reportBeforeSuiteState = "passed"
    /\ cfg.before = "sync" /\ HasSpecs /\ PastSetup(q) /\ ~skipAll[q]
         => beforeSuiteState = "passed"
    /\ pc[q] \in {"sbsGate", "sbsAll"} => beforeSuiteState = "passed"
    /\ pc[q] = "beforeBody" => cfg.before = "plain"
    /\ pc[q] = "group" => ~skipAll[q] /\ HasSpecs

\* The server has counted the suite reports it has, and who has sent one is
\* about to exit; ReportAfterSuite runs when one is missing, process 1's own.
Counted ==
  /\ numSuiteDidEnds = Cardinality(aggregatedReport)
  /\ \A q \in aggregatedReport: pc[q] = "exit"
  /\ pc[1] = "rasBody" => numSuiteDidEnds = N - 1

-----------------------------------------------------------------------------
(* Types                                                                   *)

\* TypeOK in three parts: the server, the processes, everything else.
ServerOK ==
  /\ numSuiteDidBegins \in Nat /\ numSuiteDidEnds \in Nat
  /\ aggregatedReport \subseteq Procs /\ gone \subseteq Procs
  /\ reportHoldingArea \subseteq SpecReports /\ emitted \subseteq SpecReports
  /\ done \in BOOLEAN /\ shouldAbort \in BOOLEAN
  /\ beforeSuiteState \in States \union {"invalid"}
  /\ reportBeforeSuiteState \in {"invalid", "passed", "failed"}
  /\ counter \in Nat
ProcOK ==
  /\ pc \in [Procs -> PCs]
  /\ succeeded \in [Procs -> BOOLEAN]
  /\ skipAll \in [Procs -> BOOLEAN]
  /\ ranBefore \in [Procs -> BOOLEAN]
  /\ registered \in [Procs -> BOOLEAN]
  /\ item \in [Procs -> Items]
  /\ node \in [Procs -> States]
  /\ idx \in [Procs -> Nat]
  /\ serialPhase \in [Procs -> BOOLEAN]
  /\ aliveRead \in [Procs -> BOOLEAN]
EnvOK ==
  /\ cfg \in Configs
  /\ interrupted \subseteq Procs /\ connected \subseteq Procs
  /\ late \in BOOLEAN
  /\ os \in [Procs -> {"running", "exited", "killed"}]
  /\ exitOK \subseteq Procs
  /\ cli \in {"collect", "await", "reported", "timedout"}
  /\ faults \in 0..MaxFaults

\* TypeOK is these three.
LEMMA Parts == TypeOK <=> ServerOK /\ ProcOK /\ EnvOK
  BY DEF TypeOK, ServerOK, ProcOK, EnvOK

\* A step that leaves the server alone keeps its type.
LEMMA ServerKeeps == ServerOK /\ UNCHANGED serverVars => ServerOK'
  BY DEF ServerOK, serverVars
\* So does one that leaves the environment alone.
LEMMA EnvKeeps == EnvOK /\ UNCHANGED envVars => EnvOK'
  BY DEF EnvOK, envVars

\* Every handler of the server keeps its type, and so does a call that is lost.
LEMMA CallsTyped ==
  ASSUME ServerOK, NEW p \in Procs
  PROVE  /\ Call(p, SpecSuiteWillBegin) => ServerOK'
         /\ \A r \in SpecReports: Call(p, DidRun(r)) => ServerOK'
         /\ Call(p, SpecSuiteDidEnd(p)) => ServerOK'
         /\ \A s \in {"passed", "failed"}:
              Call(p, ReportBeforeSuiteCompleted(s)) => ServerOK'
         /\ \A s \in States: Call(p, BeforeSuiteCompleted(s)) => ServerOK'
         /\ Call(p, Abort) => ServerOK'
         /\ Counter => ServerOK'
         /\ Gone(p) => ServerOK'
<1> USE DEF ServerOK, serverVars, streamVars, syncVars, Call
<1>1. Call(p, SpecSuiteWillBegin) => ServerOK'
  BY DEF SpecSuiteWillBegin
<1>2. ASSUME NEW r \in SpecReports, Call(p, DidRun(r)) PROVE ServerOK'
  BY <1>2 DEF DidRun
<1>3. Call(p, SpecSuiteDidEnd(p)) => ServerOK'
  <2> SUFFICES ASSUME SpecSuiteDidEnd(p) PROVE ServerOK'
    OBVIOUS
  <2> QED BY DEF SpecSuiteDidEnd
<1>4. ASSUME NEW s \in {"passed", "failed"},
             Call(p, ReportBeforeSuiteCompleted(s))
      PROVE  ServerOK'
  BY <1>4 DEF ReportBeforeSuiteCompleted
<1>5. ASSUME NEW s \in States, Call(p, BeforeSuiteCompleted(s)) PROVE ServerOK'
  BY <1>5 DEF BeforeSuiteCompleted
<1>6. Call(p, Abort) => ServerOK'
  BY DEF Abort
<1>7. Counter => ServerOK'
  BY DEF Counter
<1>8. Gone(p) => ServerOK'
  BY DEF Gone
<1> QED BY <1>1, <1>2, <1>3, <1>4, <1>5, <1>6, <1>7, <1>8

\* A step of a process keeps TypeOK.
LEMMA StepTyped ==
  ASSUME TypeOK, NEW p \in Procs, Step(p)
  PROVE  TypeOK'
<1>0. ServerOK /\ ProcOK /\ EnvOK BY Parts
<1>a. cfg \in ConfigType /\ Outcomes \subseteq States
  BY SuiteAssumption, <1>0 DEF EnvOK, States
<1>b. BodyEnds(p) \subseteq States /\ CleanupEnds(p) \subseteq States
  BY <1>a DEF BodyEnds, CleanupEnds, States
<1> SUFFICES ServerOK' /\ ProcOK' /\ EnvOK'
  BY Parts DEF TypeOK, ServerOK, ProcOK, EnvOK
<1>c. \A l \in PCs: Goto(p, l) => pc' \in [Procs -> PCs]
  BY <1>0 DEF ProcOK, Goto
<1>d. \A w \in Items, s \in States:
        Finish(p, w, s) => /\ pc' \in [Procs -> PCs]
                           /\ item' \in [Procs -> Items]
                           /\ node' \in [Procs -> States]
  BY <1>0 DEF ProcOK, Finish, Goto, PCs
<1>e. \A s \in States:
        FinishBefore(p, s) => /\ pc' \in [Procs -> PCs]
                              /\ item' \in [Procs -> Items]
                              /\ node' \in [Procs -> States]
                              /\ skipAll' \in [Procs -> BOOLEAN]
  BY <1>0, <1>d DEF ProcOK, FinishBefore, Items
<1> USE DEF ProcOK, PCs, Bodies, Items, States, BodyOutcomes
<1>1. CASE PostSuiteWillBegin(p)
  BY <1>0, <1>c, <1>1, CallsTyped, EnvKeeps
     DEF PostSuiteWillBegin
<1>2. CASE EndReportBeforeSuite(p)
  BY <1>0, <1>c, <1>d, <1>b, <1>2, ServerKeeps, EnvKeeps
     DEF EndReportBeforeSuite
<1>3. CASE PostReportBeforeSuiteCompleted(p)
  BY <1>0, <1>c, <1>3, CallsTyped, EnvKeeps
     DEF PostReportBeforeSuiteCompleted
<1>4. CASE PollReportBeforeSuite(p)
  BY <1>0, <1>c, <1>4, ServerKeeps, EnvKeeps
     DEF PollReportBeforeSuite, AskProc1Alive, procIsAlive
<1>5. CASE ReportBeforeSuiteReply(p)
  BY <1>0, <1>c, <1>5, ServerKeeps, EnvKeeps
     DEF ReportBeforeSuiteReply
<1>6. CASE StartBeforeSuite(p)
  BY <1>0, <1>c, <1>e, <1>6, ServerKeeps, EnvKeeps
     DEF StartBeforeSuite
<1>7. CASE EndBeforeSuite(p)
  BY <1>0, <1>c, <1>e, <1>a, <1>b, <1>7, ServerKeeps, EnvKeeps
     DEF EndBeforeSuite, ConfigType
<1>8. CASE EndSynchronizedBeforeSuiteProc1(p)
  BY <1>0, <1>c, <1>a, <1>b, <1>8, ServerKeeps, EnvKeeps
     DEF EndSynchronizedBeforeSuiteProc1, ConfigType
<1>9. CASE PostSynchronizedBeforeSuiteCompleted(p)
  BY <1>0, <1>c, <1>e, <1>9, CallsTyped, EnvKeeps
     DEF PostSynchronizedBeforeSuiteCompleted, WithError
<1>10. CASE PollSynchronizedBeforeSuite(p)
  BY <1>0, <1>c, <1>10, ServerKeeps, EnvKeeps
     DEF PollSynchronizedBeforeSuite, AskProc1Alive, procIsAlive
<1>11. CASE SynchronizedBeforeSuiteReply(p)
  BY <1>0, <1>c, <1>e, <1>11, ServerKeeps, EnvKeeps
     DEF SynchronizedBeforeSuiteReply
<1>12. CASE StartSynchronizedBeforeSuiteAllProcs(p)
  BY <1>0, <1>c, <1>e, <1>12, ServerKeeps, EnvKeeps
     DEF StartSynchronizedBeforeSuiteAllProcs
<1>13. CASE EndSynchronizedBeforeSuiteAllProcs(p)
  BY <1>0, <1>c, <1>e, <1>a, <1>b, <1>13, ServerKeeps, EnvKeeps
     DEF EndSynchronizedBeforeSuiteAllProcs, ConfigType
<1>14. CASE StartSpecs(p)
  BY <1>0, <1>c, <1>14, ServerKeeps, EnvKeeps
     DEF StartSpecs
<1>15. CASE FetchNextCounter(p)
  BY <1>0, <1>c, <1>15, CallsTyped, ServerKeeps, EnvKeeps
     DEF FetchNextCounter, LeaveLoop, ServerOK
<1>16. CASE NextSerialIndex(p)
  BY <1>0, <1>c, <1>16, ServerKeeps, EnvKeeps
     DEF NextSerialIndex
<1>17. CASE StartGroup(p)
  BY <1>0, <1>c, <1>d, <1>17, ServerKeeps, EnvKeeps
     DEF StartGroup
<1>18. CASE EndGroup(p)
  BY <1>0, <1>c, <1>d, <1>b, <1>18, ServerKeeps, EnvKeeps
     DEF EndGroup
<1>19. CASE LastGroup(p)
  BY <1>0, <1>c, <1>19, ServerKeeps, EnvKeeps
     DEF LastGroup, LeaveLoop
<1>20. CASE WaitBeforeSerial(p)
  BY <1>0, <1>c, <1>20, ServerKeeps, EnvKeeps
     DEF WaitBeforeSerial
<1>21. CASE StartAfterSuite(p)
  BY <1>0, <1>c, <1>21, ServerKeeps, EnvKeeps
     DEF StartAfterSuite
<1>22. CASE EndAfterSuite(p)
  BY <1>0, <1>c, <1>d, <1>b, <1>22, ServerKeeps, EnvKeeps
     DEF EndAfterSuite
<1>23. CASE EndSynchronizedAfterSuiteAllProcs(p)
  BY <1>0, <1>c, <1>d, <1>b, <1>23, ServerKeeps, EnvKeeps
     DEF EndSynchronizedAfterSuiteAllProcs
<1>24. CASE WaitBeforeProc1AfterSuite(p)
  BY <1>0, <1>c, <1>d, <1>24, ServerKeeps, EnvKeeps
     DEF WaitBeforeProc1AfterSuite, WithError
<1>25. CASE EndSynchronizedAfterSuiteProc1(p)
  BY <1>0, <1>c, <1>d, <1>b, <1>25, ServerKeeps, EnvKeeps
     DEF EndSynchronizedAfterSuiteProc1
<1>26. CASE StartSuiteCleanup(p)
  BY <1>0, <1>c, <1>26, ServerKeeps, EnvKeeps
     DEF StartSuiteCleanup
<1>27. CASE WaitBeforeSuiteCleanup(p)
  BY <1>0, <1>c, <1>d, <1>27, ServerKeeps, EnvKeeps
     DEF WaitBeforeSuiteCleanup
<1>28. CASE EndSuiteCleanup(p)
  BY <1>0, <1>c, <1>d, <1>b, <1>28, ServerKeeps, EnvKeeps
     DEF EndSuiteCleanup
<1>29. CASE CheckInterrupted(p)
  BY <1>0, <1>c, <1>29, ServerKeeps, EnvKeeps
     DEF CheckInterrupted
<1>30. CASE AggregatedReport(p)
  BY <1>0, <1>c, <1>d, <1>30, ServerKeeps, EnvKeeps
     DEF AggregatedReport
<1>31. CASE EndReportAfterSuite(p)
  BY <1>0, <1>c, <1>d, <1>b, <1>31, ServerKeeps, EnvKeeps
     DEF EndReportAfterSuite
<1>32. CASE PostSuiteDidEnd(p)
  BY <1>0, <1>c, <1>32, CallsTyped, EnvKeeps
     DEF PostSuiteDidEnd
<1>33. CASE ExitNormally(p)
  <2>1. ServerOK' /\ ProcOK'
    BY <1>0, <1>33, ServerKeeps DEF ExitNormally, procVars
  <2> QED
    BY <1>0, <1>33, <2>1 DEF ExitNormally, EnvOK
<1>34. CASE PostDidRun(p)
  <2>1. SpecReport(p) \in SpecReports
    BY <1>0 DEF SpecReport, SpecReports
  <2>2. ServerOK'
    BY <1>0, <1>34, <2>1, CallsTyped DEF PostDidRun
  <2> QED
    BY <1>0, <1>c, <1>34, <2>2, EnvKeeps DEF PostDidRun, Resume
<1>35. CASE PostAbort(p)
  BY <1>0, <1>c, <1>35, CallsTyped, EnvKeeps
     DEF PostAbort, Resume
<1> QED
  BY <1>1, <1>2, <1>3, <1>4, <1>5, <1>6, <1>7, <1>8, <1>9, <1>10,
     <1>11, <1>12, <1>13, <1>14, <1>15, <1>16, <1>17, <1>18, <1>19,
     <1>20, <1>21, <1>22, <1>23, <1>24, <1>25, <1>26, <1>27, <1>28,
     <1>29, <1>30, <1>31, <1>32, <1>33, <1>34, <1>35
     DEF Step

-----------------------------------------------------------------------------
(* What a step changes                                                     *)

\* Nothing that belongs to process q changes.
Same(q) ==
  /\ pc'[q] = pc[q] /\ item'[q] = item[q] /\ node'[q] = node[q]
  /\ succeeded'[q] = succeeded[q] /\ skipAll'[q] = skipAll[q]
  /\ serialPhase'[q] = serialPhase[q] /\ os'[q] = os[q]

\* What the helpers do to the process that takes the step.
LEMMA Effects ==
  ASSUME TypeOK, NEW p \in Procs
  PROVE  /\ \A l: Goto(p, l) => pc'[p] = l
         /\ \A w, s: Finish(p, w, s) =>
                      pc'[p] = "didRun" /\ item'[p] = w /\ node'[p] = s
         /\ \A s: FinishBefore(p, s) =>
                     /\ pc'[p] = "didRun" /\ item'[p] = "before" /\ node'[p] = s
                     /\ skipAll'[p] = (skipAll[p] \/ s = "skipped")
  BY DEF TypeOK, Goto, Finish, FinishBefore

\* What a call leaves alone: the handlers of the other calls post no state, only
\* SpecSuiteDidEnd adds a report, and none changes who is gone.
LEMMA CallsKeep ==
  ASSUME NEW p \in Procs
  PROVE  /\ \/ Call(p, SpecSuiteWillBegin) \/ (\E r: Call(p, DidRun(r)))
            \/ Call(p, Abort) \/ Counter
            => UNCHANGED <<gone, numSuiteDidEnds, aggregatedReport,
                           beforeSuiteState, reportBeforeSuiteState>>
         /\ Call(p, SpecSuiteDidEnd(p))
            => UNCHANGED <<gone, beforeSuiteState, reportBeforeSuiteState>>
         /\ \A s: Call(p, ReportBeforeSuiteCompleted(s))
            => UNCHANGED <<gone, numSuiteDidEnds, aggregatedReport,
                           beforeSuiteState>>
         /\ \A s: Call(p, BeforeSuiteCompleted(s))
            => /\ UNCHANGED <<gone, numSuiteDidEnds, aggregatedReport,
                              reportBeforeSuiteState>>
               /\ p \in connected => beforeSuiteState' = s
  BY DEF Call, serverVars, streamVars, syncVars, SpecSuiteWillBegin, DidRun,
         SpecSuiteDidEnd, ReportBeforeSuiteCompleted, BeforeSuiteCompleted,
         Abort, Counter

\* A step of a process is taken while it runs, and touches nobody else.
LEMMA Frame ==
  ASSUME TypeOK, NEW p \in Procs, Step(p)
  PROVE  /\ os[p] = "running" /\ gone' = gone
         /\ cfg' = cfg /\ connected' = connected
         /\ \A q \in Procs \ {p}: Same(q)
<1>1. \A l: Goto(p, l) => \A q \in Procs \ {p}: pc'[q] = pc[q]
  BY DEF TypeOK, Goto
<1>2. \A w, s: Finish(p, w, s) =>
        \A q \in Procs \ {p}: /\ pc'[q] = pc[q] /\ item'[q] = item[q]
                               /\ node'[q] = node[q]
  BY <1>1 DEF TypeOK, Finish
<1>3. \A s: FinishBefore(p, s) =>
        \A q \in Procs \ {p}: /\ pc'[q] = pc[q] /\ item'[q] = item[q]
                               /\ node'[q] = node[q] /\ skipAll'[q] = skipAll[q]
  BY <1>2 DEF TypeOK, FinishBefore
<1> USE DEF TypeOK, Same, At, serverVars, envVars
<1>4. CASE PostSuiteWillBegin(p)
  BY <1>1, <1>4, CallsKeep
     DEF PostSuiteWillBegin
<1>5. CASE EndReportBeforeSuite(p)
  BY <1>1, <1>2, <1>5
     DEF EndReportBeforeSuite
<1>6. CASE PostReportBeforeSuiteCompleted(p)
  BY <1>1, <1>3, <1>6, CallsKeep
     DEF PostReportBeforeSuiteCompleted
<1>7. CASE PollReportBeforeSuite(p)
  BY <1>1, <1>3, <1>7
     DEF PollReportBeforeSuite, AskProc1Alive
<1>8. CASE ReportBeforeSuiteReply(p)
  BY <1>1, <1>3, <1>8
     DEF ReportBeforeSuiteReply
<1>9. CASE StartBeforeSuite(p)
  BY <1>1, <1>3, <1>9
     DEF StartBeforeSuite
<1>10. CASE EndBeforeSuite(p)
  BY <1>1, <1>3, <1>10
     DEF EndBeforeSuite
<1>11. CASE EndSynchronizedBeforeSuiteProc1(p)
  BY <1>1, <1>3, <1>11
     DEF EndSynchronizedBeforeSuiteProc1
<1>12. CASE PostSynchronizedBeforeSuiteCompleted(p)
  BY <1>1, <1>3, <1>12, CallsKeep
     DEF PostSynchronizedBeforeSuiteCompleted
<1>13. CASE PollSynchronizedBeforeSuite(p)
  BY <1>1, <1>3, <1>13
     DEF PollSynchronizedBeforeSuite, AskProc1Alive
<1>14. CASE SynchronizedBeforeSuiteReply(p)
  BY <1>1, <1>3, <1>14
     DEF SynchronizedBeforeSuiteReply
<1>15. CASE StartSynchronizedBeforeSuiteAllProcs(p)
  BY <1>1, <1>3, <1>15
     DEF StartSynchronizedBeforeSuiteAllProcs
<1>16. CASE EndSynchronizedBeforeSuiteAllProcs(p)
  BY <1>1, <1>3, <1>16
     DEF EndSynchronizedBeforeSuiteAllProcs
<1>17. CASE StartSpecs(p)
  BY <1>1, <1>17
     DEF StartSpecs
<1>18. CASE FetchNextCounter(p)
  BY <1>1, <1>18, CallsKeep
     DEF FetchNextCounter, LeaveLoop
<1>19. CASE NextSerialIndex(p)
  BY <1>1, <1>19
     DEF NextSerialIndex
<1>20. CASE StartGroup(p)
  BY <1>1, <1>2, <1>20
     DEF StartGroup
<1>21. CASE EndGroup(p)
  BY <1>1, <1>2, <1>21
     DEF EndGroup
<1>22. CASE LastGroup(p)
  BY <1>1, <1>22
     DEF LastGroup, LeaveLoop
<1>23. CASE WaitBeforeSerial(p)
  BY <1>1, <1>23
     DEF WaitBeforeSerial
<1>24. CASE StartAfterSuite(p)
  BY <1>1, <1>24
     DEF StartAfterSuite
<1>25. CASE EndAfterSuite(p)
  BY <1>1, <1>2, <1>25
     DEF EndAfterSuite
<1>26. CASE EndSynchronizedAfterSuiteAllProcs(p)
  BY <1>1, <1>2, <1>26
     DEF EndSynchronizedAfterSuiteAllProcs
<1>27. CASE WaitBeforeProc1AfterSuite(p)
  BY <1>1, <1>2, <1>27
     DEF WaitBeforeProc1AfterSuite
<1>28. CASE EndSynchronizedAfterSuiteProc1(p)
  BY <1>1, <1>2, <1>28
     DEF EndSynchronizedAfterSuiteProc1
<1>29. CASE StartSuiteCleanup(p)
  BY <1>1, <1>29
     DEF StartSuiteCleanup
<1>30. CASE WaitBeforeSuiteCleanup(p)
  BY <1>1, <1>2, <1>3, <1>30
     DEF WaitBeforeSuiteCleanup
<1>31. CASE EndSuiteCleanup(p)
  BY <1>1, <1>2, <1>31
     DEF EndSuiteCleanup
<1>32. CASE CheckInterrupted(p)
  BY <1>1, <1>32
     DEF CheckInterrupted
<1>33. CASE AggregatedReport(p)
  BY <1>1, <1>2, <1>33
     DEF AggregatedReport
<1>34. CASE EndReportAfterSuite(p)
  BY <1>1, <1>2, <1>34
     DEF EndReportAfterSuite
<1>35. CASE PostSuiteDidEnd(p)
  BY <1>1, <1>35, CallsKeep
     DEF PostSuiteDidEnd
<1>36. CASE ExitNormally(p)
  BY <1>1, <1>36
     DEF ExitNormally, procVars
<1>37. CASE PostDidRun(p)
  BY <1>1, <1>37, CallsKeep
     DEF PostDidRun
<1>38. CASE PostAbort(p)
  BY <1>1, <1>38, CallsKeep
     DEF PostAbort
<1> QED
  BY <1>4, <1>5, <1>6, <1>7, <1>8, <1>9, <1>10, <1>11, <1>12, <1>13,
     <1>14, <1>15, <1>16, <1>17, <1>18, <1>19, <1>20, <1>21, <1>22,
     <1>23, <1>24, <1>25, <1>26, <1>27, <1>28, <1>29, <1>30, <1>31,
     <1>32, <1>33, <1>34, <1>35, <1>36, <1>37, <1>38
     DEF Step

-----------------------------------------------------------------------------
(* The barriers of process 1                                               *)

\* A step of a process keeps both barriers: process 1 gets past one only by a
\* step that has seen all others gone.
LEMMA StepBarriers ==
  ASSUME TypeOK, Barriers, NEW p \in Procs, Step(p)
  PROVE  /\ Barriers'
         /\ SerialBarrier => SerialBarrier'
<1>0. 1 \in Procs
  BY ParallelTotalAssumption DEF Procs
<1>1. \A q \in gone: os'[q] = "exited"
  BY Frame DEF TypeOK, Barriers, Same
<1>2. CASE p # 1
  BY <1>0, <1>1, <1>2, Frame DEF Barriers, SerialBarrier, Same
<1> SUFFICES ASSUME p = 1,
                    \/ pc'[1] \in {"sas1", "cleanupBody", "rasBody"}
                       /\ pc[1] \notin {"sas1", "cleanupBody", "rasBody"}
                    \/ /\ SerialBarrier
                       /\ serialPhase'[1] /\ pc'[1] # "serialWait"
                       /\ ~(serialPhase[1] /\ pc[1] # "serialWait")
             PROVE  Nonprimary \subseteq gone
  BY <1>1, <1>2, Frame DEF Barriers, SerialBarrier
<1> USE <1>0, Effects DEF TypeOK, At
<1>3. CASE PostSuiteWillBegin(p)
  BY <1>3
     DEF PostSuiteWillBegin
<1>4. CASE EndReportBeforeSuite(p)
  BY <1>4
     DEF EndReportBeforeSuite
<1>5. CASE PostReportBeforeSuiteCompleted(p)
  BY <1>5
     DEF PostReportBeforeSuiteCompleted
<1>6. CASE PollReportBeforeSuite(p)
  BY <1>6
     DEF PollReportBeforeSuite, AskProc1Alive
<1>7. CASE ReportBeforeSuiteReply(p)
  BY <1>7
     DEF ReportBeforeSuiteReply
<1>8. CASE StartBeforeSuite(p)
  BY <1>8
     DEF StartBeforeSuite
<1>9. CASE EndBeforeSuite(p)
  BY <1>9
     DEF EndBeforeSuite
<1>10. CASE EndSynchronizedBeforeSuiteProc1(p)
  BY <1>10
     DEF EndSynchronizedBeforeSuiteProc1
<1>11. CASE PostSynchronizedBeforeSuiteCompleted(p)
  BY <1>11
     DEF PostSynchronizedBeforeSuiteCompleted
<1>12. CASE PollSynchronizedBeforeSuite(p)
  BY <1>12
     DEF PollSynchronizedBeforeSuite, AskProc1Alive
<1>13. CASE SynchronizedBeforeSuiteReply(p)
  BY <1>13
     DEF SynchronizedBeforeSuiteReply
<1>14. CASE StartSynchronizedBeforeSuiteAllProcs(p)
  BY <1>14
     DEF StartSynchronizedBeforeSuiteAllProcs
<1>15. CASE EndSynchronizedBeforeSuiteAllProcs(p)
  BY <1>15
     DEF EndSynchronizedBeforeSuiteAllProcs
<1>16. CASE StartSpecs(p)
  BY <1>16
     DEF StartSpecs
<1>17. CASE FetchNextCounter(p)
  BY <1>17
     DEF FetchNextCounter, LeaveLoop
<1>18. CASE NextSerialIndex(p)
  BY <1>18
     DEF NextSerialIndex
<1>19. CASE StartGroup(p)
  BY <1>19
     DEF StartGroup
<1>20. CASE EndGroup(p)
  BY <1>20
     DEF EndGroup
<1>21. CASE LastGroup(p)
  BY <1>21
     DEF LastGroup, LeaveLoop
<1>22. CASE WaitBeforeSerial(p)
  BY <1>22
     DEF WaitBeforeSerial, haveNonprimaryProcsFinished, procIsAlive, SerialBarrier
<1>23. CASE StartAfterSuite(p)
  BY <1>23
     DEF StartAfterSuite
<1>24. CASE EndAfterSuite(p)
  BY <1>24
     DEF EndAfterSuite
<1>25. CASE EndSynchronizedAfterSuiteAllProcs(p)
  BY <1>25
     DEF EndSynchronizedAfterSuiteAllProcs
<1>26. CASE WaitBeforeProc1AfterSuite(p)
  BY <1>26
     DEF WaitBeforeProc1AfterSuite, haveNonprimaryProcsFinished, procIsAlive
<1>27. CASE EndSynchronizedAfterSuiteProc1(p)
  BY <1>27
     DEF EndSynchronizedAfterSuiteProc1
<1>28. CASE StartSuiteCleanup(p)
  BY <1>28
     DEF StartSuiteCleanup
<1>29. CASE WaitBeforeSuiteCleanup(p)
  BY <1>29
     DEF WaitBeforeSuiteCleanup, haveNonprimaryProcsFinished, procIsAlive
<1>30. CASE EndSuiteCleanup(p)
  BY <1>30
     DEF EndSuiteCleanup
<1>31. CASE CheckInterrupted(p)
  BY <1>31
     DEF CheckInterrupted
<1>32. CASE AggregatedReport(p)
  BY <1>32
     DEF AggregatedReport, AggregatedReply, haveNonprimaryProcsFinished, procIsAlive
<1>33. CASE EndReportAfterSuite(p)
  BY <1>33
     DEF EndReportAfterSuite
<1>34. CASE PostSuiteDidEnd(p)
  BY <1>34
     DEF PostSuiteDidEnd
<1>35. CASE ExitNormally(p)
  BY <1>35
     DEF ExitNormally, procVars
<1>36. CASE PostDidRun(p)
  BY <1>36
     DEF PostDidRun, Resume, Items
<1>37. CASE PostAbort(p)
  BY <1>37
     DEF PostAbort, Resume, Items
<1> QED
  BY <1>3, <1>4, <1>5, <1>6, <1>7, <1>8, <1>9, <1>10, <1>11, <1>12,
     <1>13, <1>14, <1>15, <1>16, <1>17, <1>18, <1>19, <1>20, <1>21,
     <1>22, <1>23, <1>24, <1>25, <1>26, <1>27, <1>28, <1>29, <1>30,
     <1>31, <1>32, <1>33, <1>34, <1>35, <1>36, <1>37
     DEF Step

-----------------------------------------------------------------------------
(* Process 1 goes first                                                    *)

\* Only process 1 posts, once; so a state that says "passed" stays.
LEMMA StepPosted ==
  ASSUME TypeOK, PostedByProcess1, NEW p \in Procs, Step(p)
  PROVE  /\ PostedByProcess1'
         /\ reportBeforeSuiteState = "passed" => reportBeforeSuiteState' = "passed"
         /\ beforeSuiteState = "passed" => beforeSuiteState' = "passed"
<1>0. 1 \in Procs /\ Nonprimary = Procs \ {1}
  BY ParallelTotalAssumption DEF Procs, Nonprimary
<1>1. p # 1 => /\ pc[p] \notin OnlyProcess1
               /\ ~(pc[p] \in {"didRun", "abort"} /\ item[p] = "rbs")
  BY <1>0 DEF PostedByProcess1, Posting
<1> DEFINE Report(x, i) == \/ x \in {"begin", "rbsBody", "rbsPost"}
                           \/ x \in {"didRun", "abort"} /\ i = "rbs"
           Setup(x, i) == \/ Report(x, i)
                          \/ x \in {"rbsPoll", "rbsReply", "before", "sbs1", "sbsPost"}
           Mine == /\ Report(pc'[p], item'[p]) => Report(pc[p], item[p])
                   /\ Setup(pc'[p], item'[p]) => Setup(pc[p], item[p])
                   /\ \/ reportBeforeSuiteState' = reportBeforeSuiteState
                      \/ /\ Report(pc[p], item[p]) /\ p = 1
                         /\ ~Report(pc'[p], item'[p])
                   /\ \/ beforeSuiteState' = beforeSuiteState
                      \/ /\ Setup(pc[p], item[p]) /\ p = 1
                         /\ ~Setup(pc'[p], item'[p])
           Others == p # 1 =>
                     /\ pc'[p] \notin OnlyProcess1
                     /\ ~(pc'[p] \in {"didRun", "abort"} /\ item'[p] = "rbs")
<1> SUFFICES Mine /\ Others
  <2> SUFFICES ASSUME Mine, Others
               PROVE  /\ PostedByProcess1'
                      /\ reportBeforeSuiteState = "passed"
                           => reportBeforeSuiteState' = "passed"
                      /\ beforeSuiteState = "passed" => beforeSuiteState' = "passed"
    OBVIOUS
  <2>1. CASE p = 1
    BY <1>0, <2>1, Frame
       DEF PostedByProcess1, Posting, BeforeReport, BeforeSetup, Same
  <2>2. CASE p # 1
    BY <1>0, <2>2, Frame
       DEF PostedByProcess1, Posting, BeforeReport, BeforeSetup, Same
  <2> QED BY <2>1, <2>2
<1> USE <1>1, Effects DEF TypeOK, At, serverVars, OnlyProcess1
<1>2. CASE PostSuiteWillBegin(p)
  BY <1>2, CallsKeep
     DEF PostSuiteWillBegin
<1>3. CASE EndReportBeforeSuite(p)
  BY <1>3
     DEF EndReportBeforeSuite
<1>4. CASE PostReportBeforeSuiteCompleted(p)
  BY <1>4, CallsKeep
     DEF PostReportBeforeSuiteCompleted
<1>5. CASE PollReportBeforeSuite(p)
  BY <1>5
     DEF PollReportBeforeSuite, AskProc1Alive
<1>6. CASE ReportBeforeSuiteReply(p)
  BY <1>6
     DEF ReportBeforeSuiteReply
<1>7. CASE StartBeforeSuite(p)
  BY <1>7
     DEF StartBeforeSuite
<1>8. CASE EndBeforeSuite(p)
  BY <1>8
     DEF EndBeforeSuite
<1>9. CASE EndSynchronizedBeforeSuiteProc1(p)
  BY <1>9
     DEF EndSynchronizedBeforeSuiteProc1
<1>10. CASE PostSynchronizedBeforeSuiteCompleted(p)
  BY <1>10, CallsKeep
     DEF PostSynchronizedBeforeSuiteCompleted
<1>11. CASE PollSynchronizedBeforeSuite(p)
  BY <1>11
     DEF PollSynchronizedBeforeSuite, AskProc1Alive
<1>12. CASE SynchronizedBeforeSuiteReply(p)
  BY <1>12
     DEF SynchronizedBeforeSuiteReply
<1>13. CASE StartSynchronizedBeforeSuiteAllProcs(p)
  BY <1>13
     DEF StartSynchronizedBeforeSuiteAllProcs
<1>14. CASE EndSynchronizedBeforeSuiteAllProcs(p)
  BY <1>14
     DEF EndSynchronizedBeforeSuiteAllProcs
<1>15. CASE StartSpecs(p)
  BY <1>15
     DEF StartSpecs
<1>16. CASE FetchNextCounter(p)
  BY <1>16, CallsKeep
     DEF FetchNextCounter, LeaveLoop
<1>17. CASE NextSerialIndex(p)
  BY <1>17
     DEF NextSerialIndex
<1>18. CASE StartGroup(p)
  BY <1>18
     DEF StartGroup
<1>19. CASE EndGroup(p)
  BY <1>19
     DEF EndGroup
<1>20. CASE LastGroup(p)
  BY <1>20
     DEF LastGroup, LeaveLoop
<1>21. CASE WaitBeforeSerial(p)
  BY <1>21
     DEF WaitBeforeSerial
<1>22. CASE StartAfterSuite(p)
  BY <1>22
     DEF StartAfterSuite
<1>23. CASE EndAfterSuite(p)
  BY <1>23
     DEF EndAfterSuite
<1>24. CASE EndSynchronizedAfterSuiteAllProcs(p)
  BY <1>24
     DEF EndSynchronizedAfterSuiteAllProcs
<1>25. CASE WaitBeforeProc1AfterSuite(p)
  BY <1>25
     DEF WaitBeforeProc1AfterSuite
<1>26. CASE EndSynchronizedAfterSuiteProc1(p)
  BY <1>26
     DEF EndSynchronizedAfterSuiteProc1
<1>27. CASE StartSuiteCleanup(p)
  BY <1>27
     DEF StartSuiteCleanup
<1>28. CASE WaitBeforeSuiteCleanup(p)
  BY <1>28
     DEF WaitBeforeSuiteCleanup
<1>29. CASE EndSuiteCleanup(p)
  BY <1>29
     DEF EndSuiteCleanup
<1>30. CASE CheckInterrupted(p)
  BY <1>30
     DEF CheckInterrupted
<1>31. CASE AggregatedReport(p)
  BY <1>31
     DEF AggregatedReport
<1>32. CASE EndReportAfterSuite(p)
  BY <1>32
     DEF EndReportAfterSuite
<1>33. CASE PostSuiteDidEnd(p)
  BY <1>33, CallsKeep
     DEF PostSuiteDidEnd
<1>34. CASE ExitNormally(p)
  BY <1>34
     DEF ExitNormally, procVars
<1>35. CASE PostDidRun(p)
  BY <1>35, CallsKeep
     DEF PostDidRun, Resume, Items
<1>36. CASE PostAbort(p)
  BY <1>36, CallsKeep
     DEF PostAbort, Resume, Items
<1> QED
  BY <1>2, <1>3, <1>4, <1>5, <1>6, <1>7, <1>8, <1>9, <1>10, <1>11,
     <1>12, <1>13, <1>14, <1>15, <1>16, <1>17, <1>18, <1>19, <1>20,
     <1>21, <1>22, <1>23, <1>24, <1>25, <1>26, <1>27, <1>28, <1>29,
     <1>30, <1>31, <1>32, <1>33, <1>34, <1>35, <1>36
     DEF Step

\* A step of a process keeps OthersWait: what the other processes have seen
\* stays, and whoever goes on has seen it.
LEMMA StepOthersWait ==
  ASSUME TypeOK, PostedByProcess1, OthersWait, NEW p \in Procs, Step(p)
  PROVE  OthersWait'
<1>0. cfg' = cfg /\ (HasSpecs' <=> HasSpecs)
  BY Frame DEF HasSpecs
<1>1. ASSUME NEW q \in Nonprimary, q # p
      PROVE  /\ cfg.rbs /\ PastReport(q)' => reportBeforeSuiteState' = "passed"
             /\ cfg.before = "sync" /\ HasSpecs /\ PastSetup(q)' /\ ~skipAll'[q]
                  => beforeSuiteState' = "passed"
             /\ pc'[q] \in {"sbsGate", "sbsAll"} => beforeSuiteState' = "passed"
             /\ pc'[q] = "beforeBody" => cfg.before = "plain"
             /\ pc'[q] = "group" => ~skipAll'[q] /\ HasSpecs
  <2>1. q \in Procs \ {p}
    BY <1>1 DEF Nonprimary
  <2>2. Same(q)
    BY <2>1, Frame
  <2>3. (PastReport(q)' <=> PastReport(q)) /\ (PastSetup(q)' <=> PastSetup(q))
    BY <2>2 DEF Same, PastReport, PastSetup, Posting
  <2> QED
    BY <1>1, <2>2, <2>3, StepPosted DEF OthersWait, Same
<1> DEFINE Mine ==
             /\ cfg.rbs /\ PastReport(p)' => reportBeforeSuiteState' = "passed"
             /\ cfg.before = "sync" /\ HasSpecs /\ PastSetup(p)' /\ ~skipAll'[p]
                  => beforeSuiteState' = "passed"
             /\ pc'[p] \in {"sbsGate", "sbsAll"} => beforeSuiteState' = "passed"
             /\ pc'[p] = "beforeBody" => cfg.before = "plain"
             /\ pc'[p] = "group" => ~skipAll'[p] /\ HasSpecs
<1> SUFFICES ASSUME p \in Nonprimary PROVE Mine
  BY <1>0, <1>1 DEF OthersWait
<1>2. /\ cfg.rbs /\ PastReport(p) => reportBeforeSuiteState' = "passed"
      /\ cfg.before = "sync" /\ HasSpecs /\ PastSetup(p) /\ ~skipAll[p]
           => beforeSuiteState' = "passed"
      /\ pc[p] \in {"sbsGate", "sbsAll"} => beforeSuiteState' = "passed"
      /\ pc[p] = "beforeBody" => cfg.before = "plain"
      /\ pc[p] = "group" => ~skipAll[p] /\ HasSpecs
  BY StepPosted DEF OthersWait
<1>3. p # 1 /\ pc[p] \notin OnlyProcess1 /\ cfg \in ConfigType
  BY SuiteAssumption DEF Nonprimary, TypeOK, PostedByProcess1
<1> USE <1>2, <1>3, Effects
    DEF TypeOK, At, PastReport, PastSetup, Posting, ConfigType, OnlyProcess1
<1>4. CASE PostSuiteWillBegin(p)
  BY <1>4
     DEF PostSuiteWillBegin
<1>5. CASE EndReportBeforeSuite(p)
  BY <1>5
     DEF EndReportBeforeSuite
<1>6. CASE PostReportBeforeSuiteCompleted(p)
  BY <1>6
     DEF PostReportBeforeSuiteCompleted
<1>7. CASE PollReportBeforeSuite(p)
  BY <1>7
     DEF PollReportBeforeSuite, AskProc1Alive
<1>8. CASE ReportBeforeSuiteReply(p)
  <2>1. /\ pc'[p] \in {"rbsPoll", "before"}
        /\ pc'[p] = "before" /\ succeeded'[p] => reportBeforeSuiteState = "passed"
    BY <1>8 DEF ReportBeforeSuiteReply, StateReply
  <2> QED
    BY <2>1, StepPosted
<1>9. CASE StartBeforeSuite(p)
  BY <1>9
     DEF StartBeforeSuite
<1>10. CASE EndBeforeSuite(p)
  BY <1>10
     DEF EndBeforeSuite
<1>11. CASE EndSynchronizedBeforeSuiteProc1(p)
  BY <1>11
     DEF EndSynchronizedBeforeSuiteProc1
<1>12. CASE PostSynchronizedBeforeSuiteCompleted(p)
  BY <1>12
     DEF PostSynchronizedBeforeSuiteCompleted
<1>13. CASE PollSynchronizedBeforeSuite(p)
  BY <1>13
     DEF PollSynchronizedBeforeSuite, AskProc1Alive
<1>14. CASE SynchronizedBeforeSuiteReply(p)
  <2>1. PastReport(p) /\ (PastReport(p)' => pc'[p] # "group" /\ pc'[p] # "beforeBody")
    BY <1>14 DEF SynchronizedBeforeSuiteReply
  <2>2. \/ beforeSuiteState = "passed"
        \/ pc'[p] = "sbsPoll"
        \/ pc'[p] = "didRun" /\ item'[p] = "before" /\ node'[p] \in FailureStates
        \/ pc'[p] = "didRun" /\ item'[p] = "before" /\ skipAll'[p]
    BY <1>14 DEF SynchronizedBeforeSuiteReply, StateReply, FailureStates
  <2> QED
    BY <2>1, <2>2, StepPosted
<1>15. CASE StartSynchronizedBeforeSuiteAllProcs(p)
  BY <1>15
     DEF StartSynchronizedBeforeSuiteAllProcs
<1>16. CASE EndSynchronizedBeforeSuiteAllProcs(p)
  BY <1>16
     DEF EndSynchronizedBeforeSuiteAllProcs
<1>17. CASE StartSpecs(p)
  BY <1>17
     DEF StartSpecs
<1>18. CASE FetchNextCounter(p)
  BY <1>18
     DEF FetchNextCounter, LeaveLoop
<1>19. CASE NextSerialIndex(p)
  BY <1>19
     DEF NextSerialIndex
<1>20. CASE StartGroup(p)
  BY <1>20
     DEF StartGroup, NumGroups, HasSpecs
<1>21. CASE EndGroup(p)
  BY <1>21
     DEF EndGroup
<1>22. CASE LastGroup(p)
  BY <1>22
     DEF LastGroup, LeaveLoop
<1>23. CASE WaitBeforeSerial(p)
  BY <1>23
     DEF WaitBeforeSerial
<1>24. CASE StartAfterSuite(p)
  BY <1>24
     DEF StartAfterSuite
<1>25. CASE EndAfterSuite(p)
  BY <1>25
     DEF EndAfterSuite
<1>26. CASE EndSynchronizedAfterSuiteAllProcs(p)
  BY <1>26
     DEF EndSynchronizedAfterSuiteAllProcs
<1>27. CASE WaitBeforeProc1AfterSuite(p)
  BY <1>27
     DEF WaitBeforeProc1AfterSuite
<1>28. CASE EndSynchronizedAfterSuiteProc1(p)
  BY <1>28
     DEF EndSynchronizedAfterSuiteProc1
<1>29. CASE StartSuiteCleanup(p)
  BY <1>29
     DEF StartSuiteCleanup
<1>30. CASE WaitBeforeSuiteCleanup(p)
  BY <1>30
     DEF WaitBeforeSuiteCleanup
<1>31. CASE EndSuiteCleanup(p)
  BY <1>31
     DEF EndSuiteCleanup
<1>32. CASE CheckInterrupted(p)
  BY <1>32
     DEF CheckInterrupted
<1>33. CASE AggregatedReport(p)
  BY <1>33
     DEF AggregatedReport
<1>34. CASE EndReportAfterSuite(p)
  BY <1>34
     DEF EndReportAfterSuite
<1>35. CASE PostSuiteDidEnd(p)
  BY <1>35
     DEF PostSuiteDidEnd
<1>36. CASE ExitNormally(p)
  BY <1>36
     DEF ExitNormally, procVars
<1>37. CASE PostDidRun(p)
  BY <1>37
     DEF PostDidRun, Resume, Items
<1>38. CASE PostAbort(p)
  BY <1>38
     DEF PostAbort, Resume, Items
<1> QED
  BY <1>4, <1>5, <1>6, <1>7, <1>8, <1>9, <1>10, <1>11, <1>12, <1>13,
     <1>14, <1>15, <1>16, <1>17, <1>18, <1>19, <1>20, <1>21, <1>22,
     <1>23, <1>24, <1>25, <1>26, <1>27, <1>28, <1>29, <1>30, <1>31,
     <1>32, <1>33, <1>34, <1>35, <1>36, <1>37, <1>38
     DEF Step

-----------------------------------------------------------------------------
(* The reports the server has                                              *)

\* A step of a process keeps the count of suite reports.
LEMMA StepCounted ==
  ASSUME TypeOK, Barriers, Counted, NEW p \in Procs, Step(p)
  PROVE  Counted'
<1>0. 1 \in Procs /\ Nonprimary = Procs \ {1} /\ N \in Nat
  BY ParallelTotalAssumption DEF Procs, Nonprimary
\* While ReportAfterSuite runs, nobody else does.
<1>1. p # 1 => pc[1] # "rasBody"
  BY <1>0, Frame DEF Barriers
<1>2. CASE PostSuiteDidEnd(p) /\ p \in connected
  <2>1. /\ numSuiteDidEnds' = numSuiteDidEnds + 1
        /\ aggregatedReport' = IF numSuiteDidEnds' = 1 THEN {p}
                               ELSE aggregatedReport \union {p}
        /\ pc[p] = "end" /\ pc'[p] = "exit"
    BY <1>2, Effects DEF PostSuiteDidEnd, At, Call, SpecSuiteDidEnd
  <2>2. IsFiniteSet(aggregatedReport)
    <3>1. IsFiniteSet(Procs)
      BY <1>0, FS_Interval DEF Procs
    <3>2. aggregatedReport \in SUBSET Procs
      BY DEF TypeOK
    <3> QED
      BY <3>1, <3>2, FS_Subset
  <2>3. p \notin aggregatedReport
    BY <2>1 DEF Counted
  <2>4. Cardinality(aggregatedReport \union {p}) = Cardinality(aggregatedReport) + 1
    BY <2>2, <2>3, FS_AddElement
  <2>5. aggregatedReport' = aggregatedReport \union {p}
    <3>1. CASE numSuiteDidEnds' = 1
      <4>1. Cardinality(aggregatedReport) = 0
        BY <2>1, <3>1 DEF TypeOK, Counted
      <4> QED
        BY <2>1, <2>2, <3>1, <4>1, FS_EmptySet
    <3> QED
      BY <2>1, <3>1
  <2>6. numSuiteDidEnds' = Cardinality(aggregatedReport')
    BY <2>1, <2>4, <2>5 DEF Counted
  <2>7. \A q \in aggregatedReport': pc'[q] = "exit"
    BY <2>1, <2>5, Frame DEF Counted, Same, TypeOK
  <2>8. pc'[1] # "rasBody"
    BY <1>0, <1>1, <2>1, Frame DEF Same
  <2> QED
    BY <2>6, <2>7, <2>8 DEF Counted
<1> DEFINE Mine == /\ UNCHANGED <<numSuiteDidEnds, aggregatedReport>>
                   /\ pc[p] = "exit" => pc'[p] = "exit"
                   /\ p = 1 /\ pc'[p] = "rasBody" => numSuiteDidEnds = N - 1
<1> SUFFICES ASSUME ~(PostSuiteDidEnd(p) /\ p \in connected) PROVE Mine
  <2> SUFFICES ASSUME Mine PROVE Counted'
    BY <1>2
  <2>1. \A q \in aggregatedReport: pc'[q] = "exit"
    BY Frame DEF Counted, Same, TypeOK
  <2>2. pc'[1] = "rasBody" => numSuiteDidEnds = N - 1
    BY <1>0, <1>1, Frame DEF Same
  <2> QED
    BY <2>1, <2>2 DEF Counted
<1> USE Effects DEF TypeOK, At, serverVars
<1>3. CASE PostSuiteWillBegin(p)
  BY <1>3, CallsKeep
     DEF PostSuiteWillBegin
<1>4. CASE EndReportBeforeSuite(p)
  BY <1>4
     DEF EndReportBeforeSuite
<1>5. CASE PostReportBeforeSuiteCompleted(p)
  BY <1>5, CallsKeep
     DEF PostReportBeforeSuiteCompleted
<1>6. CASE PollReportBeforeSuite(p)
  BY <1>6
     DEF PollReportBeforeSuite, AskProc1Alive
<1>7. CASE ReportBeforeSuiteReply(p)
  BY <1>7
     DEF ReportBeforeSuiteReply
<1>8. CASE StartBeforeSuite(p)
  BY <1>8
     DEF StartBeforeSuite
<1>9. CASE EndBeforeSuite(p)
  BY <1>9
     DEF EndBeforeSuite
<1>10. CASE EndSynchronizedBeforeSuiteProc1(p)
  BY <1>10
     DEF EndSynchronizedBeforeSuiteProc1
<1>11. CASE PostSynchronizedBeforeSuiteCompleted(p)
  BY <1>11, CallsKeep
     DEF PostSynchronizedBeforeSuiteCompleted
<1>12. CASE PollSynchronizedBeforeSuite(p)
  BY <1>12
     DEF PollSynchronizedBeforeSuite, AskProc1Alive
<1>13. CASE SynchronizedBeforeSuiteReply(p)
  BY <1>13
     DEF SynchronizedBeforeSuiteReply
<1>14. CASE StartSynchronizedBeforeSuiteAllProcs(p)
  BY <1>14
     DEF StartSynchronizedBeforeSuiteAllProcs
<1>15. CASE EndSynchronizedBeforeSuiteAllProcs(p)
  BY <1>15
     DEF EndSynchronizedBeforeSuiteAllProcs
<1>16. CASE StartSpecs(p)
  BY <1>16
     DEF StartSpecs
<1>17. CASE FetchNextCounter(p)
  BY <1>17, CallsKeep
     DEF FetchNextCounter, LeaveLoop
<1>18. CASE NextSerialIndex(p)
  BY <1>18
     DEF NextSerialIndex
<1>19. CASE StartGroup(p)
  BY <1>19
     DEF StartGroup
<1>20. CASE EndGroup(p)
  BY <1>20
     DEF EndGroup
<1>21. CASE LastGroup(p)
  BY <1>21
     DEF LastGroup, LeaveLoop
<1>22. CASE WaitBeforeSerial(p)
  BY <1>22
     DEF WaitBeforeSerial
<1>23. CASE StartAfterSuite(p)
  BY <1>23
     DEF StartAfterSuite
<1>24. CASE EndAfterSuite(p)
  BY <1>24
     DEF EndAfterSuite
<1>25. CASE EndSynchronizedAfterSuiteAllProcs(p)
  BY <1>25
     DEF EndSynchronizedAfterSuiteAllProcs
<1>26. CASE WaitBeforeProc1AfterSuite(p)
  BY <1>26
     DEF WaitBeforeProc1AfterSuite
<1>27. CASE EndSynchronizedAfterSuiteProc1(p)
  BY <1>27
     DEF EndSynchronizedAfterSuiteProc1
<1>28. CASE StartSuiteCleanup(p)
  BY <1>28
     DEF StartSuiteCleanup
<1>29. CASE WaitBeforeSuiteCleanup(p)
  BY <1>29
     DEF WaitBeforeSuiteCleanup
<1>30. CASE EndSuiteCleanup(p)
  BY <1>30
     DEF EndSuiteCleanup
<1>31. CASE CheckInterrupted(p)
  BY <1>31
     DEF CheckInterrupted
<1>32. CASE AggregatedReport(p)
  BY <1>32
     DEF AggregatedReport, AggregatedReply
<1>33. CASE EndReportAfterSuite(p)
  BY <1>33
     DEF EndReportAfterSuite
<1>34. CASE PostSuiteDidEnd(p)
  BY <1>34
     DEF PostSuiteDidEnd, Call
<1>35. CASE ExitNormally(p)
  BY <1>35
     DEF ExitNormally, procVars
<1>36. CASE PostDidRun(p)
  BY <1>36, CallsKeep
     DEF PostDidRun, Resume, Items
<1>37. CASE PostAbort(p)
  BY <1>37, CallsKeep
     DEF PostAbort, Resume, Items
<1> QED
  BY <1>3, <1>4, <1>5, <1>6, <1>7, <1>8, <1>9, <1>10, <1>11, <1>12,
     <1>13, <1>14, <1>15, <1>16, <1>17, <1>18, <1>19, <1>20, <1>21,
     <1>22, <1>23, <1>24, <1>25, <1>26, <1>27, <1>28, <1>29, <1>30,
     <1>31, <1>32, <1>33, <1>34, <1>35, <1>36, <1>37
     DEF Step

-----------------------------------------------------------------------------
(* The rest of Next                                                        *)

\* Faults, the CLI and stuttering change no process and post nothing; they only
\* let processes that run exit, and processes that have exited be gone.
LEMMA OutsideFrame ==
  ASSUME TypeOK, Environment \/ CLI \/ Terminated \/ UNCHANGED vars
  PROVE  /\ UNCHANGED <<procVars, cfg, numSuiteDidEnds, aggregatedReport,
                         beforeSuiteState, reportBeforeSuiteState>>
         /\ "disconnect" \notin Faults => connected' = connected
         /\ gone \subseteq gone'
         /\ \A q \in gone' \ gone: os[q] = "exited"
         /\ \A q \in Procs: os[q] = "exited" => os'[q] = "exited"
         /\ TypeOK'
<1> USE SuiteAssumption DEF TypeOK, serverVars, streamVars, syncVars, Fault
<1>1. CASE \E p \in Procs: Crash(p) \/ Kill(p)
  BY <1>1 DEF Crash, Kill, Die, procVars
<1>2. CASE \E p \in Procs: Disconnect(p)
  BY <1>2 DEF Disconnect, procVars
<1>3. CASE \E p \in Procs: SignalProc(p)
  BY <1>3 DEF SignalProc, procVars
<1>4. CASE DeadlinePasses
  BY <1>4 DEF DeadlinePasses, procVars
<1>5. CASE \E p \in Procs: Wait(p)
  BY <1>5 DEF Wait, Gone, procVars, envVars
<1>6. CASE CollectResults \/ SuiteDone \/ ReportTimeout
  BY <1>6 DEF CollectResults, SuiteDone, ReportTimeout, procVars
<1>7. CASE Terminated \/ UNCHANGED vars
  BY <1>7 DEF Terminated, vars, procVars, envVars
<1> QED
  BY <1>1, <1>2, <1>3, <1>4, <1>5, <1>6, <1>7 DEF Environment, CLI

\* The inductive invariant.
IndInv ==
  /\ TypeOK /\ Barriers /\ PostedByProcess1 /\ OthersWait /\ Counted
  /\ "disconnect" \notin Faults => SerialBarrier

\* The invariant holds at the start.
LEMMA InitIndInv == Init => IndInv
<1> SUFFICES ASSUME Init PROVE IndInv
  OBVIOUS
<1>0. 1 \in Procs
  BY ParallelTotalAssumption DEF Procs
<1> USE DEF Init, ServerInit
<1>1. TypeOK
  <2>1. ServerOK
    BY DEF ServerOK
  <2>2. ProcOK
    BY DEF ProcOK, PCs, Items, States, BodyOutcomes
  <2>3. EnvOK
    <3>1. faults \in 0..MaxFaults
      BY SuiteAssumption
    <3>2. os \in [Procs -> {"running", "exited", "killed"}]
      OBVIOUS
    <3>3. late \in BOOLEAN /\ cli \in {"collect", "await", "reported", "timedout"}
      OBVIOUS
    <3> QED
      BY <3>1, <3>2, <3>3 DEF EnvOK
  <2> QED
    BY <2>1, <2>2, <2>3, Parts
<1>2. Barriers /\ SerialBarrier
  BY <1>0 DEF Barriers, SerialBarrier
<1>3. PostedByProcess1 /\ OthersWait
  BY <1>0 DEF PostedByProcess1, OthersWait, OnlyProcess1, Posting, BeforeReport,
              BeforeSetup, PastReport, PastSetup, Nonprimary
<1>4. Counted
  BY <1>0, FS_EmptySet DEF Counted
<1> QED
  BY <1>1, <1>2, <1>3, <1>4 DEF IndInv

\* Every step keeps the invariant.
LEMMA NextIndInv == IndInv /\ [Next]_vars => IndInv'
<1> SUFFICES ASSUME IndInv, [Next]_vars PROVE IndInv'
  OBVIOUS
<1>1. ASSUME NEW p \in Procs, Step(p) PROVE IndInv'
  BY <1>1, StepTyped, StepBarriers, StepPosted, StepOthersWait, StepCounted
     DEF IndInv
<1>2. CASE Environment \/ CLI \/ Terminated \/ UNCHANGED vars
  <2>1. UNCHANGED <<pc, item, node, succeeded, skipAll, serialPhase, cfg>>
    BY <1>2, OutsideFrame DEF IndInv, procVars
  <2>2. TypeOK'
    BY <1>2, OutsideFrame DEF IndInv
  <2>3. Barriers' /\ ("disconnect" \notin Faults => SerialBarrier')
    BY <1>2, <2>1, OutsideFrame DEF IndInv, Barriers, SerialBarrier, TypeOK
  <2>4. PostedByProcess1'
    BY <1>2, <2>1, OutsideFrame
       DEF IndInv, PostedByProcess1, Posting, BeforeReport, BeforeSetup
  <2>5. OthersWait'
    BY <1>2, <2>1, OutsideFrame
       DEF IndInv, OthersWait, PastReport, PastSetup, Posting, HasSpecs
  <2>6. Counted'
    BY <1>2, <2>1, OutsideFrame DEF IndInv, Counted
  <2> QED
    BY <2>2, <2>3, <2>4, <2>5, <2>6 DEF IndInv
<1> QED
  BY <1>1, <1>2 DEF Next

\* So the invariant always holds.
LEMMA Invariance == Spec => []IndInv
  BY InitIndInv, NextIndInv, PTL DEF Spec

-----------------------------------------------------------------------------
(* Theorems                                                                *)

\* The state of server, processes and CLI is well formed, whatever the suites,
\* the number of processes and the faults.
THEOREM TypeCorrect == Spec => []TypeOK
<1>1. IndInv => TypeOK
  BY DEF IndInv
<1> QED
  BY <1>1, Invariance, PTL

\* Process 1 runs its half of SynchronizedAfterSuite, its suite-level cleanup
\* and ReportAfterSuite only after all other processes have exited
\* (runSuiteNode and runReportSuiteNode wait for it), also when processes are
\* killed or connections break.
THEOREM CleanupBarrier == Spec => []Process1CleansUpLast
<1>1. IndInv => Process1CleansUpLast
  BY DEF IndInv, Barriers, Process1CleansUpLast
<1> QED
  BY <1>1, Invariance, PTL

\* Serial specs run alone (the wait in runSpecs), provided no connection breaks:
\* the error of that wait is ignored.
THEOREM SerialAlone == "disconnect" \notin Faults => (Spec => []SerialRunsAlone)
<1> SUFFICES ASSUME "disconnect" \notin Faults PROVE Spec => []SerialRunsAlone
  OBVIOUS
<1>1. IndInv => SerialRunsAlone
  BY DEF IndInv, Barriers, SerialBarrier, SerialRunsAlone
<1> QED
  BY <1>1, Invariance, PTL

\* No other process runs its half of SynchronizedBeforeSuite, or a spec, before
\* process 1's half and ReportBeforeSuite have passed.
THEOREM Process1First == Spec => []SpecsWaitForProcess1
<1>1. IndInv => SpecsWaitForProcess1
  BY DEF IndInv, OthersWait, PastReport, PastSetup, SpecsWaitForProcess1
<1> QED
  BY <1>1, Invariance, PTL

\* ReportAfterSuite gets the reports of all other processes or does not run
\* (AggregatedNonprimaryProcsReport counts them).
THEOREM CompleteReport == Spec => []ReportAfterSuiteComplete
<1>1. IndInv => ReportAfterSuiteComplete
  <2> SUFFICES ASSUME IndInv, pc[1] = "rasBody"
               PROVE  aggregatedReport = Nonprimary
    BY DEF ReportAfterSuiteComplete
  <2>1. N \in Nat /\ N > 1 /\ 1 \in Procs
    BY ParallelTotalAssumption DEF Procs
  <2>2. IsFiniteSet(Procs) /\ Cardinality(Procs) = N
    BY <2>1, FS_Interval DEF Procs
  <2>3. IsFiniteSet(Nonprimary) /\ Cardinality(Nonprimary) = N - 1
    BY <2>1, <2>2, FS_RemoveElement DEF Nonprimary
  <2>4. aggregatedReport \in SUBSET Nonprimary
    BY DEF IndInv, TypeOK, Counted, Nonprimary
  <2>5. Cardinality(aggregatedReport) = N - 1
    BY DEF IndInv, Counted
  <2> QED
    BY <2>3, <2>4, <2>5, FS_Subset
<1> QED
  BY <1>1, Invariance, PTL
=============================================================================
