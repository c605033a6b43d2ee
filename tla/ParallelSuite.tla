--------------------------- MODULE ParallelSuite ----------------------------
(***************************************************************************)
(* One suite run by N parallel processes: runSpecs (internal/suite.go) in  *)
(* each process, the server handler they talk to, and the CLI              *)
(* (ginkgo/internal/run.go) that started them and waits for them to exit.  *)
(*                                                                         *)
(* A process is a pc.  Each call to the server is a step of its own; user  *)
(* code (the body of a node, or of a whole group of specs) runs while the  *)
(* pc names it and ends with any outcome of Outcomes.  A process may die   *)
(* between any two steps.  A group of specs is opaque here: one body, one  *)
(* report.                                                                 *)
(***************************************************************************)
EXTENDS ServerHandler

CONSTANTS
  Configs,    \* the suites considered (see ConfigType)
  Outcomes,   \* how a body may end of its own accord
  Faults,     \* what may go wrong from outside
  MaxFaults   \* bound on how often it does

ConfigType ==
  [rbs: BOOLEAN, ras: BOOLEAN,        \* has a ReportBeforeSuite / ...AfterSuite
   before: {"none", "plain", "sync"}, \* BeforeSuite, SynchronizedBeforeSuite
   after:  {"none", "plain", "sync"},
   cleanup: BOOLEAN,                  \* the before-suite body calls DeferCleanup
   groups: Nat, serial: Nat,          \* groups of specs, groups marked Serial
   failFast: BOOLEAN, failOnPending: BOOLEAN]

BodyOutcomes == {"passed", "failed", "skipped", "aborted"}
States       == BodyOutcomes \union {"interrupted"}
FaultKinds   == {"exit", "kill", "disconnect", "signal", "deadline"}

ASSUME SuiteAssumption ==
  /\ Configs \subseteq ConfigType
  /\ Outcomes \subseteq BodyOutcomes
  /\ Faults \subseteq FaultKinds
  /\ MaxFaults \in Nat

VARIABLES
  cfg,          \* the suite (never changes)
  pc,
  succeeded,    \* suite.report.SuiteSucceeded
  skipAll,      \* suite.skipAll
  ranBefore,    \* ranBeforeSuite
  registered,   \* a CleanupAfterSuite node is waiting
  item, node,   \* currentSpecReport: what it is about, and its State
  idx,          \* groupedSpecIdx
  serialPhase,  \* process 1 has switched to the serial groups
  aliveRead,    \* proc1IsAlive inside a BeforeSuiteState request
  interrupted,  \* processes whose own interrupt handler was triggered
  connected,    \* processes whose connection to the server works
  late,         \* the suite's deadline has passed
  os,           \* the operating system's view of a process
  exitOK,       \* processes that exited with a passing status
  cli,          \* the CLI: collecting results, then awaiting `done`
  faults        \* faults so far

procVars == <<pc, succeeded, skipAll, ranBefore, registered, item, node, idx,
              serialPhase, aliveRead>>
envVars  == <<cfg, interrupted, connected, late, os, exitOK, cli, faults>>
vars     == <<serverVars, procVars, envVars>>

FailureStates == {"failed", "aborted", "interrupted"}

Bodies == {"rbsBody", "beforeBody", "sbs1", "sbsAll", "group", "afterBody",
           "sasAll", "sas1", "cleanupBody", "rasBody"}
PCs == Bodies \union
       {"begin", "rbs", "rbsPost", "rbsPoll", "rbsReply",
        "before", "sbsPost", "sbsPoll", "sbsReply", "sbsGate",
        "specs", "fetch", "next", "serialWait",
        "after", "sasWait", "cleanup", "cleanupWait",
        "check", "rasPoll", "end", "exit", "didRun", "abort"}
Items == {"rbs", "before", "group", "after", "cleanup", "ras"}

\* A spec report: what it is about, and whether its State is a failure.
SpecReport(p) == [proc |-> p, item |-> item[p], serial |-> serialPhase[p],
                  idx |-> idx[p], failed |-> node[p] \in FailureStates]
SpecReports   == [proc: Procs, item: Items, serial: BOOLEAN, idx: Nat,
                  failed: BOOLEAN]

TypeOK ==
  /\ numSuiteDidBegins \in Nat /\ numSuiteDidEnds \in Nat
  /\ aggregatedReport \subseteq Procs /\ gone \subseteq Procs
  /\ reportHoldingArea \subseteq SpecReports /\ emitted \subseteq SpecReports
  /\ done \in BOOLEAN /\ shouldAbort \in BOOLEAN
  /\ beforeSuiteState \in States \union {"invalid"}
  /\ reportBeforeSuiteState \in {"invalid", "passed", "failed"}
  /\ counter \in Nat
  /\ cfg \in Configs
  /\ pc \in [Procs -> PCs]
  /\ succeeded \in [Procs -> BOOLEAN]
  /\ skipAll \in [Procs -> BOOLEAN]
  /\ ranBefore \in [Procs -> BOOLEAN]
  /\ registered \in [Procs -> BOOLEAN]
  /\ item \in [Procs -> Items]
  /\ node \in [Procs -> States]
  /\ idx \in [Procs -> Nat]
  /\ serialPhase \in [Procs -> BOOLEAN]
  /\ aliveRead \in [Procs -> BOOLEAN]
  /\ interrupted \subseteq Procs /\ connected \subseteq Procs
  /\ late \in BOOLEAN
  /\ os \in [Procs -> {"running", "exited", "killed"}]
  /\ exitOK \subseteq Procs
  /\ cli \in {"collect", "await", "reported", "timedout"}
  /\ faults \in 0..MaxFaults

Init ==
  /\ ServerInit
  /\ cfg \in Configs
  /\ pc = [p \in Procs |-> "begin"]
  /\ succeeded = [p \in Procs |-> TRUE]
  /\ skipAll = [p \in Procs |-> FALSE]
  /\ ranBefore = [p \in Procs |-> FALSE]
  /\ registered = [p \in Procs |-> FALSE]
  /\ item = [p \in Procs |-> "rbs"]
  /\ node = [p \in Procs |-> "passed"]
  /\ idx = [p \in Procs |-> 0]
  /\ serialPhase = [p \in Procs |-> FALSE]
  /\ aliveRead = [p \in Procs |-> TRUE]
  /\ interrupted = {} /\ connected = Procs
  /\ late = FALSE
  /\ os = [p \in Procs |-> "running"]
  /\ exitOK = {}
  /\ cli = "collect"
  /\ faults = 0

-----------------------------------------------------------------------------
(* Helpers                                                                 *)

At(p, l)   == os[p] = "running" /\ pc[p] = l
Goto(p, l) == pc' = [pc EXCEPT ![p] = l]

\* A call to the server: it happens if the connection works and is lost
\* otherwise (the suite ignores the error of these calls).
Call(p, handler) == IF p \in connected THEN handler ELSE UNCHANGED serverVars

\* Status().Interrupted(): Status asks the server for an abort itself, so an
\* abort posted by any process (this one too) is seen as soon as it is there.
Interrupted(p) == p \in interrupted \/ (shouldAbort /\ p \in connected)

\* How a body may end: the interrupt handler cuts it short only while it is
\* triggered, and an abort by another process does not cut cleanup short.
BodyEnds(p)    == Outcomes \union (IF Interrupted(p) THEN {"interrupted"} ELSE {})
CleanupEnds(p) == Outcomes \union (IF p \in interrupted THEN {"interrupted"} ELSE {})

HasSpecs == cfg.groups + cfg.serial > 0
NumGroups(p) == IF serialPhase[p] THEN cfg.serial ELSE cfg.groups

\* The current report is complete: hand it to processCurrentSpecReport.
Finish(p, what, state) ==
  /\ item' = [item EXCEPT ![p] = what]
  /\ node' = [node EXCEPT ![p] = state]
  /\ Goto(p, "didRun")

\* A before-suite node is complete; skipping in it skips all specs.
FinishBefore(p, state) ==
  /\ Finish(p, "before", state)
  /\ skipAll' = [skipAll EXCEPT ![p] = @ \/ state = "skipped"]

\* err # nil in runSuiteNode: a failure state stands, any other becomes failed.
WithError(state) == IF state \in FailureStates THEN state ELSE "failed"

\* Where runSpecs goes on after a report was processed.
Resume(what) ==
  [rbs |-> "rbsPost", before |-> "specs", group |-> "fetch",
   after |-> "cleanup", cleanup |-> "check", ras |-> "end"][what]

-----------------------------------------------------------------------------
(* processCurrentSpecReport                                                *)

PostDidRun(p) ==
  /\ At(p, "didRun")
  /\ Call(p, DidRun(SpecReport(p)))
  /\ LET fails  == node[p] \in FailureStates
         aborts == fails /\ (cfg.failFast \/ node[p] = "aborted")
     IN /\ succeeded' = [succeeded EXCEPT ![p] = @ /\ ~fails]
        /\ skipAll' = [skipAll EXCEPT ![p] = @ \/ aborts]
        /\ Goto(p, IF aborts THEN "abort" ELSE Resume(item[p]))
  /\ UNCHANGED <<ranBefore, registered, item, node, idx, serialPhase,
                 aliveRead, envVars>>

PostAbort(p) ==
  /\ At(p, "abort")
  /\ Call(p, Abort)
  /\ Goto(p, Resume(item[p]))
  /\ UNCHANGED <<succeeded, skipAll, ranBefore, registered, item, node, idx,
                 serialPhase, aliveRead, envVars>>

-----------------------------------------------------------------------------
(* runSpecs: the beginning, and ReportBeforeSuite                          *)

\* Variant: only process 1 knows about ReportBeforeSuite.
PostSuiteWillBeginNoWait(p) ==
  /\ At(p, "begin")
  /\ Call(p, SpecSuiteWillBegin)
  /\ Goto(p, IF cfg.rbs /\ p = 1 THEN "rbsBody" ELSE "before")
  /\ UNCHANGED <<succeeded, skipAll, ranBefore, registered, item, node, idx,
                 serialPhase, aliveRead, envVars>>

PostSuiteWillBegin(p) ==
  /\ At(p, "begin")
  /\ Call(p, SpecSuiteWillBegin)
  /\ Goto(p, IF ~cfg.rbs THEN "before"
             ELSE IF p = 1 THEN "rbsBody" ELSE "rbsPoll")
  /\ UNCHANGED <<succeeded, skipAll, ranBefore, registered, item, node, idx,
                 serialPhase, aliveRead, envVars>>

EndReportBeforeSuite(p) ==
  /\ At(p, "rbsBody")
  /\ \E o \in CleanupEnds(p): Finish(p, "rbs", o)
  /\ UNCHANGED <<serverVars, succeeded, skipAll, ranBefore, registered, idx,
                 serialPhase, aliveRead, envVars>>

PostReportBeforeSuiteCompleted(p) ==
  /\ At(p, "rbsPost")
  /\ Call(p, ReportBeforeSuiteCompleted(
                 IF succeeded[p] THEN "passed" ELSE "failed"))
  /\ Goto(p, "before")
  /\ UNCHANGED <<succeeded, skipAll, ranBefore, registered, item, node, idx,
                 serialPhase, aliveRead, envVars>>

\* The first half of a BeforeSuiteState or ReportBeforeSuiteState request.
AskProc1Alive(p, poll, reply) ==
  /\ At(p, poll) /\ p \in connected
  /\ aliveRead' = [aliveRead EXCEPT ![p] = procIsAlive(1)]
  /\ Goto(p, reply)
  /\ UNCHANGED <<serverVars, succeeded, skipAll, ranBefore, registered, item,
                 node, idx, serialPhase, envVars>>

PollReportBeforeSuite(p) == AskProc1Alive(p, "rbsPoll", "rbsReply")

\* BlockUntilReportBeforeSuiteCompleted returns: ErrorGone reads as failed,
\* and any other error fails the suite as well.
ReportBeforeSuiteReply(p) ==
  LET reply == IF p \in connected
                 THEN StateReply(reportBeforeSuiteState, aliveRead[p])
                 ELSE "error"
  IN
  /\ At(p, "rbsReply") \/ (At(p, "rbsPoll") /\ p \notin connected)
  /\ IF reply = "early"
       THEN Goto(p, "rbsPoll") /\ UNCHANGED succeeded
       ELSE /\ Goto(p, "before")
            /\ succeeded' = [succeeded EXCEPT ![p] = @ /\ reply = "passed"]
  /\ UNCHANGED <<serverVars, skipAll, ranBefore, registered, item, node, idx,
                 serialPhase, aliveRead, envVars>>

-----------------------------------------------------------------------------
(* runBeforeSuite.  At interrupt level one runNode skips before-suite nodes. *)

\* A suite that failed its ReportBeforeSuite goes straight to the end, one
\* without a before-suite node (or without specs to run) to its specs.
StartBeforeSuite(p) ==
  /\ At(p, "before")
  /\ ranBefore' = [ranBefore EXCEPT ![p] = succeeded[p]]
  /\ \/ /\ ~succeeded[p] \/ cfg.before = "none" \/ ~HasSpecs
        /\ Goto(p, "specs") /\ UNCHANGED <<item, node, skipAll>>
     \/ /\ succeeded[p] /\ HasSpecs /\ cfg.before = "plain"
        /\ IF Interrupted(p)
             THEN FinishBefore(p, "skipped")
             ELSE Goto(p, "beforeBody") /\ UNCHANGED <<item, node, skipAll>>
     \/ /\ succeeded[p] /\ HasSpecs /\ cfg.before = "sync" /\ p = 1
        /\ UNCHANGED <<item, skipAll>>
        /\ IF Interrupted(p)
             THEN node' = [node EXCEPT ![p] = "skipped"] /\ Goto(p, "sbsPost")
             ELSE Goto(p, "sbs1") /\ UNCHANGED node
     \/ /\ succeeded[p] /\ HasSpecs /\ cfg.before = "sync" /\ p # 1
        /\ Goto(p, "sbsPoll") /\ UNCHANGED <<item, node, skipAll>>
  /\ UNCHANGED <<serverVars, succeeded, registered, idx, serialPhase,
                 aliveRead, envVars>>

EndBeforeSuite(p) ==
  /\ At(p, "beforeBody")
  /\ \E o \in BodyEnds(p): FinishBefore(p, o)
  /\ registered' = [registered EXCEPT ![p] = cfg.cleanup]
  /\ UNCHANGED <<serverVars, succeeded, ranBefore, idx, serialPhase,
                 aliveRead, envVars>>

\* The body that only process 1 runs.
EndSynchronizedBeforeSuiteProc1(p) ==
  /\ At(p, "sbs1")
  /\ \E o \in BodyEnds(p): node' = [node EXCEPT ![p] = o]
  /\ registered' = [registered EXCEPT ![p] = cfg.cleanup]
  /\ Goto(p, "sbsPost")
  /\ UNCHANGED <<serverVars, succeeded, skipAll, ranBefore, item, idx,
                 serialPhase, aliveRead, envVars>>

\* Process 1 posts how its body ended, and goes on to the body that all
\* processes run if it passed and the post went through.
PostSynchronizedBeforeSuiteCompleted(p) ==
  /\ At(p, "sbsPost")
  /\ Call(p, BeforeSuiteCompleted(node[p]))
  /\ \/ /\ node[p] = "passed" /\ p \in connected
        /\ Goto(p, "sbsGate") /\ UNCHANGED <<item, node, skipAll>>
     \/ /\ node[p] # "passed" /\ p \in connected
        /\ FinishBefore(p, node[p])
     \/ /\ p \notin connected
        /\ FinishBefore(p, WithError(node[p]))
  /\ UNCHANGED <<succeeded, ranBefore, registered, idx, serialPhase,
                 aliveRead, envVars>>

PollSynchronizedBeforeSuite(p) == AskProc1Alive(p, "sbsPoll", "sbsReply")

\* Variant: whatever came back is taken for the state of the node.
SynchronizedBeforeSuiteReplyUnchecked(p) ==
  LET reply == IF p \in connected
                 THEN StateReply(beforeSuiteState, aliveRead[p])
                 ELSE "error"
  IN
  /\ At(p, "sbsReply") \/ (At(p, "sbsPoll") /\ p \notin connected)
  /\ \/ /\ reply = "early"
        /\ Goto(p, "sbsPoll") /\ UNCHANGED <<item, node, skipAll>>
     \/ /\ reply = "passed"
        /\ Goto(p, "sbsGate") /\ UNCHANGED <<item, node, skipAll>>
     \/ reply \notin {"early", "passed"} /\ FinishBefore(p, reply)
  /\ UNCHANGED <<serverVars, succeeded, ranBefore, registered, idx,
                 serialPhase, aliveRead, envVars>>

\* BlockUntilSynchronizedBeforeSuiteData returns: a failure on process 1, its
\* disappearance or a broken connection fail this process too, the other
\* states are taken over.
SynchronizedBeforeSuiteReply(p) ==
  LET reply == IF p \in connected
                 THEN StateReply(beforeSuiteState, aliveRead[p])
                 ELSE "error"
  IN
  /\ At(p, "sbsReply") \/ (At(p, "sbsPoll") /\ p \notin connected)
  /\ \/ /\ reply = "early"
        /\ Goto(p, "sbsPoll") /\ UNCHANGED <<item, node, skipAll>>
     \/ /\ reply = "passed"
        /\ Goto(p, "sbsGate") /\ UNCHANGED <<item, node, skipAll>>
     \/ /\ reply \in {"failed", "gone", "error"}
        /\ FinishBefore(p, "failed")
     \/ /\ reply \in {"interrupted", "aborted", "skipped"}
        /\ FinishBefore(p, reply)
  /\ UNCHANGED <<serverVars, succeeded, ranBefore, registered, idx,
                 serialPhase, aliveRead, envVars>>

\* runNode on the body that all processes run.
StartSynchronizedBeforeSuiteAllProcs(p) ==
  /\ At(p, "sbsGate")
  /\ IF Interrupted(p)
       THEN FinishBefore(p, "skipped")
       ELSE Goto(p, "sbsAll") /\ UNCHANGED <<item, node, skipAll>>
  /\ UNCHANGED <<serverVars, succeeded, ranBefore, registered, idx,
                 serialPhase, aliveRead, envVars>>

EndSynchronizedBeforeSuiteAllProcs(p) ==
  /\ At(p, "sbsAll")
  /\ \E o \in BodyEnds(p): FinishBefore(p, o)
  /\ registered' = [registered EXCEPT ![p] = @ \/ cfg.cleanup]
  /\ UNCHANGED <<serverVars, succeeded, ranBefore, idx, serialPhase,
                 aliveRead, envVars>>

-----------------------------------------------------------------------------
(* The loop over the groups of specs                                       *)

\* Entering the loop, or passing it by.
StartSpecs(p) ==
  /\ At(p, "specs")
  /\ Goto(p, IF succeeded[p] THEN "fetch" ELSE "after")
  /\ UNCHANGED <<serverVars, succeeded, skipAll, ranBefore, registered, item,
                 node, idx, serialPhase, aliveRead, envVars>>

\* Leaving the loop.
LeaveLoop(p, ok) ==
  /\ succeeded' = [succeeded EXCEPT ![p] = @ /\ ok /\ ~cfg.failOnPending]
  /\ Goto(p, "after")

\* Variant: the index after the increment.
FetchNextCounterOffByOne(p) ==
  /\ At(p, "fetch") /\ ~serialPhase[p]
  /\ IF p \in connected
       THEN /\ Counter
            /\ idx' = [idx EXCEPT ![p] = counter + 1]
            /\ Goto(p, "next")
            /\ UNCHANGED succeeded
       ELSE LeaveLoop(p, FALSE) /\ UNCHANGED <<serverVars, idx>>
  /\ UNCHANGED <<skipAll, ranBefore, registered, item, node, serialPhase,
                 aliveRead, envVars>>

\* nextIndex() is the server's counter; an error ends the loop.
FetchNextCounter(p) ==
  /\ At(p, "fetch") /\ ~serialPhase[p]
  /\ IF p \in connected
       THEN /\ Counter
            /\ idx' = [idx EXCEPT ![p] = counter]
            /\ Goto(p, "next")
            /\ UNCHANGED succeeded
       ELSE LeaveLoop(p, FALSE) /\ UNCHANGED <<serverVars, idx>>
  /\ UNCHANGED <<skipAll, ranBefore, registered, item, node, serialPhase,
                 aliveRead, envVars>>

\* nextIndex() is process 1's own counter over the serial groups.
NextSerialIndex(p) ==
  /\ At(p, "fetch") /\ serialPhase[p]
  /\ idx' = [idx EXCEPT ![p] = @ + 1]
  /\ Goto(p, "next")
  /\ UNCHANGED <<serverVars, succeeded, skipAll, ranBefore, registered, item,
                 node, serialPhase, aliveRead, envVars>>

\* A group to run: skipped as a whole when the suite is interrupted, skips
\* everything or is past its deadline (evaluateSkipStatus).
StartGroup(p) ==
  /\ At(p, "next") /\ idx[p] < NumGroups(p)
  /\ IF skipAll[p] \/ Interrupted(p) \/ late
       THEN Finish(p, "group", "skipped")
       ELSE Goto(p, "group") /\ UNCHANGED <<item, node>>
  /\ UNCHANGED <<serverVars, succeeded, skipAll, ranBefore, registered, idx,
                 serialPhase, aliveRead, envVars>>

EndGroup(p) ==
  /\ At(p, "group")
  /\ \E o \in BodyEnds(p): Finish(p, "group", o)
  /\ UNCHANGED <<serverVars, succeeded, skipAll, ranBefore, registered, idx,
                 serialPhase, aliveRead, envVars>>

\* No group left: process 1 turns to the serial groups if there are any.
LastGroup(p) ==
  /\ At(p, "next") /\ idx[p] >= NumGroups(p)
  /\ IF p = 1 /\ ~serialPhase[p] /\ cfg.serial > 0
       THEN /\ serialPhase' = [serialPhase EXCEPT ![p] = TRUE]
            /\ Goto(p, "serialWait")
            /\ UNCHANGED succeeded
       ELSE LeaveLoop(p, TRUE) /\ UNCHANGED serialPhase
  /\ UNCHANGED <<serverVars, skipAll, ranBefore, registered, item, node, idx,
                 aliveRead, envVars>>

\* Variant: the serial groups follow at once.
WaitBeforeSerialNoWait(p) ==
  /\ At(p, "serialWait")
  /\ idx' = [idx EXCEPT ![p] = 0]
  /\ Goto(p, "next")
  /\ UNCHANGED <<serverVars, succeeded, skipAll, ranBefore, registered, item,
                 node, serialPhase, aliveRead, envVars>>

\* BlockUntilNonprimaryProcsHaveFinished, whose error the loop ignores.
WaitBeforeSerial(p) ==
  /\ At(p, "serialWait")
  /\ haveNonprimaryProcsFinished \/ p \notin connected
  /\ idx' = [idx EXCEPT ![p] = 0]
  /\ Goto(p, "next")
  /\ UNCHANGED <<serverVars, succeeded, skipAll, ranBefore, registered, item,
                 node, serialPhase, aliveRead, envVars>>

-----------------------------------------------------------------------------
(* runAfterSuiteCleanup: only if the before-suite node was given a chance. *)

StartAfterSuite(p) ==
  /\ At(p, "after")
  /\ Goto(p, IF ~ranBefore[p] THEN "check"
             ELSE IF cfg.after = "none" \/ ~HasSpecs THEN "cleanup"
             ELSE IF cfg.after = "plain" THEN "afterBody" ELSE "sasAll")
  /\ UNCHANGED <<serverVars, succeeded, skipAll, ranBefore, registered, item,
                 node, idx, serialPhase, aliveRead, envVars>>

EndAfterSuite(p) ==
  /\ At(p, "afterBody")
  /\ \E o \in CleanupEnds(p): Finish(p, "after", o)
  /\ UNCHANGED <<serverVars, succeeded, skipAll, ranBefore, registered, idx,
                 serialPhase, aliveRead, envVars>>

\* The body that all processes run; process 1 has another one to run.
EndSynchronizedAfterSuiteAllProcs(p) ==
  /\ At(p, "sasAll")
  /\ \E o \in CleanupEnds(p):
       IF p = 1
         THEN /\ node' = [node EXCEPT ![p] = o]
              /\ Goto(p, "sasWait")
              /\ UNCHANGED item
         ELSE Finish(p, "after", o)
  /\ UNCHANGED <<serverVars, succeeded, skipAll, ranBefore, registered, idx,
                 serialPhase, aliveRead, envVars>>

\* Variant: process 1 goes on to its own body at once.
WaitBeforeProc1AfterSuiteNoWait(p) ==
  /\ At(p, "sasWait")
  /\ Goto(p, "sas1")
  /\ UNCHANGED <<serverVars, succeeded, skipAll, ranBefore, registered, item,
                 node, idx, serialPhase, aliveRead, envVars>>

WaitBeforeProc1AfterSuite(p) ==
  /\ At(p, "sasWait")
  /\ IF p \in connected
       THEN /\ haveNonprimaryProcsFinished
            /\ Goto(p, "sas1")
            /\ UNCHANGED <<item, node>>
       ELSE Finish(p, "after", WithError(node[p]))
  /\ UNCHANGED <<serverVars, succeeded, skipAll, ranBefore, registered, idx,
                 serialPhase, aliveRead, envVars>>

\* Process 1's own body counts only if the common one passed.
EndSynchronizedAfterSuiteProc1(p) ==
  /\ At(p, "sas1")
  /\ \E o \in CleanupEnds(p):
       Finish(p, "after", IF node[p] = "passed" THEN o ELSE node[p])
  /\ UNCHANGED <<serverVars, succeeded, skipAll, ranBefore, registered, idx,
                 serialPhase, aliveRead, envVars>>

\* The CleanupAfterSuite node, if there is one; process 1 waits first.
StartSuiteCleanup(p) ==
  /\ At(p, "cleanup")
  /\ Goto(p, IF ~registered[p] THEN "check"
             ELSE IF p = 1 THEN "cleanupWait" ELSE "cleanupBody")
  /\ UNCHANGED <<serverVars, succeeded, skipAll, ranBefore, registered, item,
                 node, idx, serialPhase, aliveRead, envVars>>

WaitBeforeSuiteCleanup(p) ==
  /\ At(p, "cleanupWait")
  /\ IF p \in connected
       THEN /\ haveNonprimaryProcsFinished
            /\ Goto(p, "cleanupBody")
            /\ UNCHANGED <<item, node>>
       ELSE Finish(p, "cleanup", "failed")
  /\ UNCHANGED <<serverVars, succeeded, skipAll, ranBefore, registered, idx,
                 serialPhase, aliveRead, envVars>>

EndSuiteCleanup(p) ==
  /\ At(p, "cleanupBody")
  /\ \E o \in CleanupEnds(p): Finish(p, "cleanup", o)
  /\ registered' = [registered EXCEPT ![p] = FALSE]
  /\ UNCHANGED <<serverVars, succeeded, skipAll, ranBefore, idx, serialPhase,
                 aliveRead, envVars>>

-----------------------------------------------------------------------------
(* runSpecs: the end, and ReportAfterSuite                                 *)

\* An interrupt or an elapsed deadline fails the suite.
CheckInterrupted(p) ==
  /\ At(p, "check")
  /\ succeeded' = [succeeded EXCEPT ![p] = @ /\ ~Interrupted(p) /\ ~late]
  /\ Goto(p, IF p = 1 /\ cfg.ras THEN "rasPoll" ELSE "end")
  /\ UNCHANGED <<serverVars, skipAll, ranBefore, registered, item, node, idx,
                 serialPhase, aliveRead, envVars>>

\* BlockUntilAggregatedNonprimaryProcsReport: an error fails the node.
AggregatedReport(p) ==
  LET reply == IF p \in connected THEN AggregatedReply ELSE "error" IN
  /\ At(p, "rasPoll") /\ reply # "early"
  /\ IF reply = "report"
       THEN Goto(p, "rasBody") /\ UNCHANGED <<item, node>>
       ELSE Finish(p, "ras", "failed")
  /\ UNCHANGED <<serverVars, succeeded, skipAll, ranBefore, registered, idx,
                 serialPhase, aliveRead, envVars>>

EndReportAfterSuite(p) ==
  /\ At(p, "rasBody")
  /\ \E o \in CleanupEnds(p): Finish(p, "ras", o)
  /\ UNCHANGED <<serverVars, succeeded, skipAll, ranBefore, registered, idx,
                 serialPhase, aliveRead, envVars>>

PostSuiteDidEnd(p) ==
  /\ At(p, "end")
  /\ Call(p, SpecSuiteDidEnd(p))
  /\ Goto(p, "exit")
  /\ UNCHANGED <<succeeded, skipAll, ranBefore, registered, item, node, idx,
                 serialPhase, aliveRead, envVars>>

\* RunSpecs returns and the test binary exits.
ExitNormally(p) ==
  /\ At(p, "exit")
  /\ os' = [os EXCEPT ![p] = "exited"]
  /\ exitOK' = IF succeeded[p] THEN exitOK \union {p} ELSE exitOK
  /\ UNCHANGED <<serverVars, procVars, cfg, interrupted, connected, late, cli,
                 faults>>

-----------------------------------------------------------------------------
(* What may go wrong from outside                                          *)

Fault(kind) ==
  /\ kind \in Faults /\ faults < MaxFaults
  /\ faults' = faults + 1
  /\ cli = "collect"

\* A process ends early: it crashes or user code exits with a failing status,
\* or a signal it cannot handle kills it.
Die(p, kind, how) ==
  /\ Fault(kind)
  /\ os[p] = "running"
  /\ os' = [os EXCEPT ![p] = how]
  /\ UNCHANGED <<serverVars, procVars, cfg, interrupted, connected, late,
                 exitOK, cli>>

Crash(p) == Die(p, "exit", "exited")
Kill(p)  == Die(p, "kill", "killed")

\* The rpc client shuts down on the first broken call and fails every later
\* one.  The interrupt handler may have noticed an abort before, or not.
Disconnect(p) ==
  /\ Fault("disconnect")
  /\ os[p] = "running" /\ p \in connected
  /\ connected' = connected \ {p}
  /\ \/ interrupted' = interrupted
     \/ shouldAbort /\ interrupted' = interrupted \union {p}
  /\ UNCHANGED <<serverVars, procVars, cfg, late, os, exitOK, cli>>

SignalProc(p) ==
  /\ Fault("signal")
  /\ os[p] = "running" /\ p \notin interrupted
  /\ interrupted' = interrupted \union {p}
  /\ UNCHANGED <<serverVars, procVars, cfg, connected, late, os, exitOK, cli>>

DeadlinePasses ==
  /\ Fault("deadline")
  /\ ~late
  /\ late' = TRUE
  /\ UNCHANGED <<serverVars, procVars, cfg, interrupted, connected, os, exitOK,
                 cli>>

-----------------------------------------------------------------------------
(* The CLI: runParallel                                                    *)

\* cmd.Wait() returned for process p.  ProcessState.Exited() is true only for
\* a process that was not killed, so the alive function of a killed one goes
\* on saying yes.
Wait(p) ==
  /\ os[p] = "exited" /\ p \notin gone
  /\ Gone(p)
  /\ UNCHANGED <<procVars, envVars>>

\* All results are in.
CollectResults ==
  /\ cli = "collect"
  /\ \A p \in Procs: os[p] = "killed" \/ p \in gone
  /\ cli' = "await"
  /\ UNCHANGED <<serverVars, procVars, cfg, interrupted, connected, late, os,
                 exitOK, faults>>

\* select on GetSuiteDone and a one-second timer.
SuiteDone ==
  /\ cli = "await" /\ done
  /\ cli' = "reported"
  /\ UNCHANGED <<serverVars, procVars, cfg, interrupted, connected, late, os,
                 exitOK, faults>>

ReportTimeout ==
  /\ cli = "await" /\ ~done
  /\ cli' = "timedout"
  /\ UNCHANGED <<serverVars, procVars, cfg, interrupted, connected, late, os,
                 exitOK, faults>>

\* suite.State: passed if every process exited with a passing status.
suitePassed == exitOK = Procs

Terminated == cli \in {"reported", "timedout"} /\ UNCHANGED vars

-----------------------------------------------------------------------------
Step(p) ==
  \/ PostSuiteWillBegin(p)
  \/ EndReportBeforeSuite(p)
  \/ PostReportBeforeSuiteCompleted(p)
  \/ PollReportBeforeSuite(p)
  \/ ReportBeforeSuiteReply(p)
  \/ StartBeforeSuite(p)
  \/ EndBeforeSuite(p)
  \/ EndSynchronizedBeforeSuiteProc1(p)
  \/ PostSynchronizedBeforeSuiteCompleted(p)
  \/ PollSynchronizedBeforeSuite(p)
  \/ SynchronizedBeforeSuiteReply(p)
  \/ StartSynchronizedBeforeSuiteAllProcs(p)
  \/ EndSynchronizedBeforeSuiteAllProcs(p)
  \/ StartSpecs(p)
  \/ FetchNextCounter(p)
  \/ NextSerialIndex(p)
  \/ StartGroup(p)
  \/ EndGroup(p)
  \/ LastGroup(p)
  \/ WaitBeforeSerial(p)
  \/ StartAfterSuite(p)
  \/ EndAfterSuite(p)
  \/ EndSynchronizedAfterSuiteAllProcs(p)
  \/ WaitBeforeProc1AfterSuite(p)
  \/ EndSynchronizedAfterSuiteProc1(p)
  \/ StartSuiteCleanup(p)
  \/ WaitBeforeSuiteCleanup(p)
  \/ EndSuiteCleanup(p)
  \/ CheckInterrupted(p)
  \/ AggregatedReport(p)
  \/ EndReportAfterSuite(p)
  \/ PostSuiteDidEnd(p)
  \/ ExitNormally(p)
  \/ PostDidRun(p)
  \/ PostAbort(p)

Environment ==
  \/ \E p \in Procs: Crash(p) \/ Kill(p) \/ Disconnect(p) \/ SignalProc(p)
  \/ DeadlinePasses

CLI == (\E p \in Procs: Wait(p)) \/ CollectResults \/ SuiteDone \/ ReportTimeout

Next == (\E p \in Procs: Step(p)) \/ Environment \/ CLI \/ Terminated

Spec == Init /\ [][Next]_vars

\* Processes are scheduled and bodies return (those that do not are the
\* business of node timeouts); the CLI's goroutines are scheduled.
Fairness == (\A p \in Procs: WF_vars(Step(p))) /\ WF_vars(CLI)

FairSpec == Spec /\ Fairness

-----------------------------------------------------------------------------
(* Properties                                                              *)

\* A Serial group runs alone: by the time process 1 runs one, every other
\* process has exited (docs/index.md: "process #1 will wait for all other
\* processes to exit before running the `Serial` specs").
SerialRunsAlone ==
  pc[1] = "group" /\ serialPhase[1] => \A q \in Nonprimary: os[q] = "exited"

\* Process 1 takes down what it set up for everyone, and reports on everyone,
\* only after all others have exited: its half of SynchronizedAfterSuite, its
\* suite-level DeferCleanup and ReportAfterSuite, whatever died in between.
Process1CleansUpLast ==
  pc[1] \in {"sas1", "cleanupBody", "rasBody"}
    => \A q \in Nonprimary: os[q] = "exited"

\* No other process runs its half of SynchronizedBeforeSuite, or a spec,
\* before process 1's half has passed; nor a spec before ReportBeforeSuite
\* has passed on process 1.
SpecsWaitForProcess1 ==
  \A q \in Nonprimary:
    /\ pc[q] \in {"sbsAll", "group"} /\ cfg.before = "sync"
         => beforeSuiteState = "passed"
    /\ pc[q] = "group" /\ cfg.rbs => reportBeforeSuiteState = "passed"

\* ReportAfterSuite sees the suite report of every other process: it runs on
\* all of them or, when one of them died before it could report, not at all.
ReportAfterSuiteComplete == pc[1] = "rasBody" => aggregatedReport = Nonprimary

\* A suite the CLI reports as passed has run every group on exactly one
\* process, and no report of it is a failure.
PassIsComplete ==
  cli = "reported" /\ suitePassed =>
    /\ \A s \in BOOLEAN: \A i \in 0..((IF s THEN cfg.serial ELSE cfg.groups) - 1):
         Cardinality({r \in emitted: r.item = "group" /\ r.serial = s
                                     /\ r.idx = i}) = 1
    /\ \A r \in emitted: ~r.failed

\* Reports that came before every process had begun are not kept back.
NothingHeldBack == done => reportHoldingArea = {}

\* The run ends, also when processes crash: nobody waits forever for a
\* process that is not there any more.
RunEnds == <>(cli \in {"reported", "timedout"})
=============================================================================
