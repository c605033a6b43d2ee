----------------------------- MODULE RunCommand -----------------------------
(***************************************************************************)
(* `ginkgo run` and `ginkgo build`: the suites found are compiled by the   *)
(* ordered parallel compiler, in several goroutines, and received one by   *)
(* one, in order, by the main goroutine, which runs each of them, skips it *)
(* or fails it, repeats the whole if asked to, removes the binaries and    *)
(* turns the suites' states into the exit code.                            *)
(*                                                                         *)
(* A suite is a record: its name, whether it uses Ginkgo, whether it was   *)
(* precompiled, whether a path to a compiled test is known, whether its    *)
(* last run reported programmatic focus, and its state.  What `go test -c` *)
(* and a test binary answer is chosen; flags are the booleans of `config`. *)
(***************************************************************************)
EXTENDS Naturals, Sequences, FiniteSets

CONSTANTS
  Found,         \* the sequences of suites FindSuites may return
  Configs,       \* the configurations tried
  NumCompilers,  \* goroutines that compile
  MaxIterations  \* bound: what is run until it fails has failed by then

Names == UNION {{f[i].name : i \in DOMAIN f} : f \in Found}
SuiteStates == {"Uncompiled", "Compiled", "Passed", "SkippedDueToEmptyCompilation",
                "SkippedByFilter", "SkippedDueToPriorFailures", "Failed", "FailedDueToTimeout",
                "FailedToCompile"}
SuiteType == [name : Names, ginkgo : BOOLEAN, precompiled : BOOLEAN, path : BOOLEAN,
              focus : BOOLEAN, state : SuiteStates]
ConfigType == [build : BOOLEAN, keepGoing : BOOLEAN, repeat : Nat, untilItFails : BOOLEAN,
               timeout : BOOLEAN, preserve : BOOLEAN, randomize : BOOLEAN, collect : BOOLEAN,
               editor : BOOLEAN]

\* FindSuites finds suites that are compiled already or are to be compiled; the
\* command line names no package twice.
ASSUME RunCommandAssumption ==
  /\ \A f \in Found :
       /\ f \in Seq(SuiteType)
       /\ \A i \in DOMAIN f : /\ f[i].path = f[i].precompiled /\ ~f[i].focus
                             /\ f[i].state \in {"Uncompiled", "Compiled", "SkippedByFilter"}
       /\ \A i, j \in DOMAIN f : f[i].name = f[j].name => i = j
  /\ Configs \subseteq ConfigType /\ Configs # {}
  /\ NumCompilers \in Nat \ {0} /\ MaxIterations \in Nat

VARIABLES
  config,      \* the flags, and GINKGO_EDITOR_INTEGRATION
  runPc,       \* where the command's main goroutine is
  suites,      \* TestSuites
  iteration,
  opc,         \* the OrderedParallelCompiler
  compilers,   \* the bundle each compiling goroutine holds
  signalled,   \* the interrupt handler's status is Interrupted
  elapsed,     \* the time the --timeout allows is over
  exitCode,
  binaries,    \* the suites whose compiled test is on disk
  completed,   \* how often each suite passed or had nothing to run
  unbuilt      \* a suite without a compiled test was asked to run

suiteVars == <<suites, iteration, binaries, completed, unbuilt>>
runVars == <<config, runPc, opc, compilers, signalled, elapsed, exitCode, suiteVars>>

-----------------------------------------------------------------------------
(* TestSuites and their states. *)

\* TestSuiteStateFailureStates.
FailureStatesNoTimeout == {"Failed", "FailedToCompile"}
FailureStates == {"Failed", "FailedDueToTimeout", "FailedToCompile"}

Failures == Cardinality({i \in DOMAIN suites : suites[i].state \in FailureStates})
AnyHaveProgrammaticFocus == \E i \in DOMAIN suites : suites[i].focus
ShuffledCopy(ts) == {[i \in DOMAIN ts |-> ts[p[i]]] : p \in {q \in [DOMAIN ts -> DOMAIN ts] :
                                                \A i, j \in DOMAIN ts : q[i] = q[j] => i = j}}

\* How the main goroutine may have left: RunSpecs came to its end, the test of
\* a suite could not be run, what the suites left could not be collected.
Ends == {"exited", "runAborted", "finalizeAborted"}
Exited == runPc \in Ends

\* The exit the command aborts with.
Abort(code) == runPc' = "exited" /\ exitCode' = code

RunInit ==
  /\ config = (CHOOSE c \in Configs : TRUE)
  /\ runPc = "find"
  /\ suites = <<>> /\ iteration = 0
  /\ opc = [idx |-> 1, fed |-> 0, stopped |-> FALSE, toCompile |-> <<>>, compiled |-> <<>>]
  /\ compilers = [c \in 1..NumCompilers |-> <<>>]
  /\ signalled = FALSE /\ elapsed = FALSE
  /\ exitCode = 0
  /\ binaries = {} /\ completed = <<>> /\ unbuilt = FALSE

\* WithoutState: the suites at the positions P, in the order they have.
Rising(P) == {q \in [1..Cardinality(P) -> P] : \A i, j \in DOMAIN q : i < j => q[i] < q[j]}
Unfiltered(ts) == {i \in DOMAIN ts : ts[i].state # "SkippedByFilter"}

\* FindSuites, and what RunSpecs and buildSpecs do about an empty result.
FindSuites ==
  /\ runPc = "find"
  /\ \E found \in Found : \E q \in Rising(Unfiltered(found)) :
       LET kept == [i \in DOMAIN q |-> found[q[i]]] IN
       /\ config.build => \A i \in DOMAIN found : ~found[i].precompiled
       /\ suites' = kept
       /\ binaries' = {kept[i].name : i \in {j \in DOMAIN kept : kept[j].precompiled}}
       /\ completed' = [n \in {kept[i].name : i \in DOMAIN kept} |-> 0]
       /\ IF kept = <<>>
          THEN Abort(IF found # <<>> /\ ~config.build THEN 0 ELSE 1)
          ELSE runPc' = "start" /\ UNCHANGED exitCode
  /\ UNCHANGED <<config, iteration, opc, compilers, signalled, elapsed, unbuilt>>

-----------------------------------------------------------------------------
(* The OrderedParallelCompiler. *)

\* The top of the outer loop and the beginning of StartCompiling.
StartCompiling ==
  /\ runPc = "start"
  /\ suites' \in IF config.randomize THEN ShuffledCopy(suites) ELSE {suites}
  /\ opc' = [idx |-> 1, fed |-> 0, stopped |-> FALSE, toCompile |-> <<>>,
             compiled |-> [i \in DOMAIN suites |-> <<>>]]
  /\ runPc' = "feed"
  /\ UNCHANGED <<config, iteration, compilers, signalled, elapsed, exitCode, binaries,
                 completed, unbuilt>>

\* toCompile <- bundle, which waits while the channel's buffer is full.
SendBundle ==
  /\ runPc = "feed" /\ opc.fed < Len(suites) /\ Len(opc.toCompile) < NumCompilers
  /\ opc' = [opc EXCEPT !.fed = @ + 1, !.toCompile = Append(@, opc.fed + 1)]
  /\ runPc' = IF opc.fed = 0 THEN "first" ELSE "feed"
  /\ UNCHANGED <<config, compilers, signalled, elapsed, exitCode, suiteVars>>

\* The first suite is compiled before any other is handed out.
FirstCompiled ==
  /\ runPc = "first" /\ opc.compiled[1] # <<>>
  /\ runPc' = "feed"
  /\ UNCHANGED <<config, opc, compilers, signalled, elapsed, exitCode, suiteVars>>

CloseToCompile ==
  /\ runPc = "feed" /\ opc.fed = Len(suites)
  /\ runPc' = "next"
  /\ UNCHANGED <<config, opc, compilers, signalled, elapsed, exitCode, suiteVars>>

\* The bound on --until-it-fails: something fails in the last iteration.
LastIteration == config.untilItFails /\ iteration = MaxIterations

\* CompileSuite: a suite with a compiled test is returned as it is.
CompileSuite(s) ==
  IF s.path THEN {s}
  ELSE {[s EXCEPT !.state = "FailedToCompile"], [s EXCEPT !.state = "Compiled", !.path = TRUE]}
       \cup IF LastIteration THEN {} ELSE {[s EXCEPT !.state = "SkippedDueToEmptyCompilation"]}

LeaveBundle(c) ==
  /\ compilers[c] = <<>> /\ opc.toCompile # <<>>
  /\ IF opc.stopped THEN UNCHANGED <<opc, compilers>>
     ELSE /\ opc' = [opc EXCEPT !.toCompile = Tail(@)]
          /\ compilers' = [compilers EXCEPT ![c] = <<Head(opc.toCompile)>>]
  /\ UNCHANGED <<config, runPc, signalled, elapsed, exitCode, suiteVars>>

\* A goroutine takes a bundle; when the compiler was stopped by then, it
\* passes the suite on as it is.
TakeBundle(c) ==
  /\ compilers[c] = <<>> /\ opc.toCompile # <<>>
  /\ LET idx == Head(opc.toCompile) IN
     IF opc.stopped
     THEN /\ opc' = [opc EXCEPT !.toCompile = Tail(@), !.compiled[idx] = <<suites[idx]>>]
          /\ UNCHANGED compilers
     ELSE /\ opc' = [opc EXCEPT !.toCompile = Tail(@)]
          /\ compilers' = [compilers EXCEPT ![c] = <<idx>>]
  /\ UNCHANGED <<config, runPc, signalled, elapsed, exitCode, suiteVars>>

FinishCompile(c) ==
  /\ compilers[c] # <<>>
  /\ LET idx == compilers[c][1] IN
     \E s \in CompileSuite(suites[idx]) :
       /\ opc' = [opc EXCEPT !.compiled[idx] = <<s>>]
       /\ binaries' = IF s.path THEN binaries \cup {s.name} ELSE binaries
  /\ compilers' = [compilers EXCEPT ![c] = <<>>]
  /\ UNCHANGED <<config, runPc, signalled, elapsed, exitCode, suites, iteration, completed,
                 unbuilt>>

-----------------------------------------------------------------------------
(* The suite loop.  One action for each of its branches; all begin with    *)
(* Next, which waits for the suite whose turn it is.                       *)

Received == runPc = "next" /\ opc.idx <= Len(suites) /\ opc.compiled[opc.idx] # <<>>
NextSuite == opc.compiled[opc.idx][1]
Advance(stop) == opc' = [opc EXCEPT !.idx = @ + 1, !.stopped = @ \/ stop]

\* The suites as they are once the received one is written back.
FailuresWith(s) == Cardinality({i \in DOMAIN suites :
                      (IF i = opc.idx THEN s ELSE suites[i]).state \in FailureStates})

\* Interrupted: the compiler is stopped and both loops are left.
NextInterrupted ==
  /\ Received /\ ~config.build /\ signalled
  /\ Advance(TRUE) /\ suites' = [suites EXCEPT ![opc.idx] = NextSuite]
  /\ runPc' = "cleanup"
  /\ UNCHANGED <<config, compilers, signalled, elapsed, exitCode, iteration, binaries,
                 completed, unbuilt>>

NextEmpty ==
  /\ Received /\ ~config.build /\ ~signalled
  /\ NextSuite.state = "SkippedDueToEmptyCompilation"
  /\ Advance(FALSE) /\ suites' = [suites EXCEPT ![opc.idx] = NextSuite]
  /\ completed' = [completed EXCEPT ![NextSuite.name] = @ + 1]
  /\ UNCHANGED <<config, runPc, compilers, signalled, elapsed, exitCode, iteration, binaries,
                 unbuilt>>

NextFailedToCompile ==
  /\ Received /\ ~config.build /\ ~signalled
  /\ NextSuite.state = "FailedToCompile"
  /\ Advance(~config.keepGoing) /\ suites' = [suites EXCEPT ![opc.idx] = NextSuite]
  /\ UNCHANGED <<config, runPc, compilers, signalled, elapsed, exitCode, iteration, binaries,
                 completed, unbuilt>>

MayRun == /\ Received /\ ~config.build /\ ~signalled
          /\ NextSuite.state \notin {"SkippedDueToEmptyCompilation", "FailedToCompile"}
SkippedForFailure == FailuresWith(NextSuite) > 0 /\ ~config.keepGoing

NextAfterFailure ==
  /\ MayRun /\ SkippedForFailure
  /\ Advance(TRUE)
  /\ suites' = [suites EXCEPT ![opc.idx] = [NextSuite EXCEPT !.state = "SkippedDueToPriorFailures"]]
  /\ UNCHANGED <<config, runPc, compilers, signalled, elapsed, exitCode, iteration, binaries,
                 completed, unbuilt>>

NextTimedOut ==
  /\ MayRun /\ ~SkippedForFailure /\ elapsed
  /\ Advance(TRUE)
  /\ suites' = [suites EXCEPT ![opc.idx] = [NextSuite EXCEPT !.state = "FailedDueToTimeout"]]
  /\ UNCHANGED <<config, runPc, compilers, signalled, elapsed, exitCode, iteration, binaries,
                 completed, unbuilt>>

\* The suite is handed to RunCompiledSuite, which marks it failed until it
\* has passed.
NextRuns ==
  /\ MayRun /\ ~SkippedForFailure /\ ~elapsed
  /\ Advance(FALSE)
  /\ suites' = [suites EXCEPT ![opc.idx] = [NextSuite EXCEPT !.state = "Failed", !.focus = FALSE]]
  /\ unbuilt' = (unbuilt \/ ~NextSuite.path)
  /\ runPc' = IF NextSuite.path THEN "running" ELSE "next"
  /\ UNCHANGED <<config, compilers, signalled, elapsed, exitCode, iteration, binaries, completed>>

\* The test binary ends (runSerial, runParallel, runGoTest): with 0, with
\* the exit code of programmatic focus, or with anything else.
RunCompiledSuite ==
  /\ runPc = "running"
  /\ LET idx == opc.idx - 1 IN
     \E status \in IF LastIteration THEN {"fail"} ELSE {"ok", "focus", "fail"} :
       /\ suites' = [suites EXCEPT ![idx] =
            [@ EXCEPT !.state = IF status = "fail" THEN "Failed" ELSE "Passed",
                      !.focus = status = "focus" /\ suites[idx].ginkgo]]
       /\ completed' = [completed EXCEPT ![suites[idx].name] =
                          IF status = "fail" THEN @ ELSE @ + 1]
  /\ runPc' = "next"
  /\ UNCHANGED <<config, opc, compilers, signalled, elapsed, exitCode, iteration, binaries,
                 unbuilt>>

\* The arguments, the server, the process or the profiles of the suite's test
\* processes fail: the command aborts from inside the loop, at once.
RunAborts ==
  /\ runPc = "running"
  /\ runPc' = "runAborted" /\ exitCode' = 1
  /\ UNCHANGED <<config, opc, compilers, signalled, elapsed, suiteVars>>

\* buildSpecs only writes the suite back.
NextBuilt ==
  /\ Received /\ config.build
  /\ Advance(FALSE) /\ suites' = [suites EXCEPT ![opc.idx] = NextSuite]
  /\ UNCHANGED <<config, runPc, compilers, signalled, elapsed, exitCode, iteration, binaries,
                 completed, unbuilt>>

\* After the last suite: the run ends with a failure or the last iteration.
LoopEnds ==
  /\ runPc = "next" /\ opc.idx > Len(suites) /\ ~config.build
  /\ IF Failures = 0 /\ (config.untilItFails \/ iteration < config.repeat)
     THEN iteration' = iteration + 1 /\ runPc' = "start"
     ELSE runPc' = "cleanup" /\ UNCHANGED iteration
  /\ UNCHANGED <<config, opc, compilers, signalled, elapsed, exitCode, suites, binaries,
                 completed, unbuilt>>

BuildEnds ==
  /\ runPc = "next" /\ opc.idx > Len(suites) /\ config.build
  /\ Abort(IF \E i \in DOMAIN suites : suites[i].state = "FailedToCompile" THEN 1 ELSE 0)
  /\ UNCHANGED <<config, opc, compilers, signalled, elapsed, suiteVars>>

Removable(s) == s.path /\ ~s.precompiled

\* Cleanup; the binaries that must be preserved stay.
Cleanup ==
  /\ runPc = "cleanup"
  /\ binaries' = IF config.preserve THEN binaries
                 ELSE binaries \ {suites[i].name : i \in {j \in DOMAIN suites : Removable(suites[j])}}
  /\ runPc' = "finalize"
  /\ UNCHANGED <<config, opc, compilers, signalled, elapsed, exitCode, suites, iteration,
                 completed, unbuilt>>

\* FinalizeProfilesAndReportsForSuites, and the exit code.
Finalize ==
  /\ runPc = "finalize"
  /\ Abort(IF Failures > 0 THEN 1
           ELSE IF AnyHaveProgrammaticFocus /\ ~config.editor THEN 197 ELSE 0)
  /\ UNCHANGED <<config, opc, compilers, signalled, elapsed, suiteVars>>

\* A coverage profile, a binary or a report the suites were to leave is not
\* there or cannot be written: the command aborts, whatever the verdicts.
FinalizeAborts ==
  /\ runPc = "finalize" /\ config.collect
  /\ runPc' = "finalizeAborted" /\ exitCode' = 1
  /\ UNCHANGED <<config, opc, compilers, signalled, elapsed, suiteVars>>

-----------------------------------------------------------------------------
(* The environment. *)

Interrupt ==
  /\ ~signalled /\ ~Exited
  /\ signalled' = TRUE
  /\ UNCHANGED <<config, runPc, opc, compilers, elapsed, exitCode, suiteVars>>

TimeElapses ==
  /\ config.timeout /\ ~elapsed /\ ~Exited
  /\ elapsed' = TRUE
  /\ UNCHANGED <<config, runPc, opc, compilers, signalled, exitCode, suiteVars>>

MainStep ==
  \/ FindSuites \/ StartCompiling \/ SendBundle \/ FirstCompiled \/ CloseToCompile
  \/ NextInterrupted \/ NextEmpty \/ NextFailedToCompile \/ NextAfterFailure
  \/ NextTimedOut \/ NextRuns \/ RunCompiledSuite \/ RunAborts \/ NextBuilt
  \/ LoopEnds \/ BuildEnds \/ Cleanup \/ Finalize \/ FinalizeAborts
CompilerStep(c) == ~Exited /\ (TakeBundle(c) \/ FinishCompile(c))

RunNext == MainStep \/ (\E c \in 1..NumCompilers : CompilerStep(c)) \/ Interrupt \/ TimeElapses
=============================================================================
