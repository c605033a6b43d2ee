# Ginkgo: TLA+ models of the test runner

Ginkgo declares specs in a tree of nodes, picks and orders them, and runs them in
one process or in several that share the work; a command line compiles suites,
starts the processes and repeats the whole when files change. This directory
models the parts in which order matters. Paths are relative to the repository's
root; `PROJECT.json` maps every definition to the lines it stands for.

## The system

| Part | State | Operations | Interacts with |
|---|---|---|---|
| Tree (`internal/node.go`, `suite.go`, `tree.go`, `table_dsl.go`) | phase, tree, open containers, suite nodes | declare a node or a table, `BuildTree`, `Clone`, `RunSpecs`, `PreviewSpecs` | user code |
| Ordering, focus, filters (`internal/ordering.go`, `focus.go`, `types/label_filter.go`) | none | functions of the tree and the configuration | tree, suite run |
| Interrupt handler (`internal/interrupt_handler`) | level, cause, a broadcast channel, two channels closed to send a message | listen for signals, poll for an abort, `Status` | the suite's goroutine; the server, through the client |
| Parallel server (`internal/parallel_support`) | counters of suites begun and ended, held reports, before-suite states, counter of groups, abort flag, who is alive | one RPC or HTTP handler per operation | every process; the CLI |
| Suite run (`internal/suite.go`) | `report.SuiteSucceeded`, `skipAll`, suite-level cleanups | `runSpecs`, `runSuiteNode`, report nodes, barriers | server, groups |
| Node (`Suite.runNode`, `internal/failer.go`) | deadline, grace period, interrupt status, the body's goroutine, the Failer | the select loop, `Fail`/`Skip`/`AbortSuite`, `Drain` | interrupt handler, user code |
| Group (`internal/group.go`) | run-once tracker, cleanup nodes, state and attempt of the spec | `run`, `attemptSpec`, `evaluateSkipStatus` | nodes |
| Suite report, progress reports (`suite.go`, `internal/progress_report*.go`, `spec_context.go`) | current report, node, step and context, `selectiveLock`, attached reporters | `By`, `AddReportEntry`, `DeferCleanup`, generate a report | bodies, leaked ones too; timers; the progress signal |
| Output interceptor, writer (`internal/output_interceptor*.go`, `writer.go`) | stdout, pipes, goroutines, buffer | start, stop, pause, resume, truncate | suite run, child processes, server |
| CLI run and build (`ginkgo/run`, `build`, `internal/compile.go`, `internal/run.go`) | states of the suites, the compilers' channel, iteration | compile in parallel, receive in order, run, clean up, exit code | operating system, test binaries |
| CLI watch (`ginkgo/watch`) | tracked suites, package hashes | compare, find what changed, run | file system, the user |
| Reporters, configuration, other commands | | formatting, parsing, files | |

What is hard here is concurrency within a process (signals, timers, leaked
bodies, child processes), between processes (barriers, a process that dies at
one, a broken connection), the long case analysis of `attemptSpec`, and what
order and nesting of declarations may reach. `PROJECT.json` lists the hazards
with the line where each one bites and the properties that watch it.

## Modules

**`Interrupts`** says what an interrupt is to the rest of Ginkgo: a level that
rises from 0 to 3, one step with every signal and one, at most, with an abort;
the channel a reader was given is closed when the level rises. `NodeRun` uses it
as its environment.

**`InterruptHandler`** is `interrupt_handler.go`: the goroutine that listens
(`ListenSignal`, `ListenAbort`, `ListenStop`, then `Escalate` for the critical
section), the one that polls (`Poll`: both the ticker and `requestAbortCheck`
lead to the same code), and the suite's goroutine in `Status` (`StatusRead`,
`StatusCheck`, `StatusWait`: the lock is not held across the call to the
server). Channels are numbers and a set of closed ones; closing twice sets
`panicked`. A poll answers truthfully or, since an error reads as false, with
false. It implements `Interrupts` (`ImplementsInterrupts`).

**`ServerHandler`** is `server_handler.go`, which both servers share: one
operator per handler, each atomic since the handler holds its lock, except that
`BeforeSuiteState` and `ReportBeforeSuiteState` ask whether process 1 is alive
before they take it: `StateReply` gets the earlier answer as an argument.

**`ParallelSuite`** composes the server with N processes and the CLI. A process
is a program counter over `runSpecs`; every call to the server is a step, user
code runs while the pc names it. A group of specs is one body here. `Crash` ends
a process with an exit status, `Kill` by a signal; `Disconnect` breaks its
connection, after which every call fails (`Call`; what the code makes of the
error is in each action). Several suite-level nodes of one kind count as one.

**`NodeRun`** is `Suite.runNode` for a sequence of nodes, with the Failer they
share. Each body has a goroutine of its own (`BodyEnd`, `Recover`, `Drain`);
`Deliver`, `GraceElapsed`, `DeadlineElapsed` and `InterruptSeen` are the cases of
the select. Time is a counter that advances only while a timer runs and nothing
is due.

**`Group`** is `group.go`: `BeginSpec` to `EndSpec` for a spec, `StartAttempt`,
`SetupNode`, `SelectTeardown` and `TeardownNode` for an attempt. `SelectTeardown`
is one pass of the loop that asks for every teardown node whether it runs now
(`ShouldRun`). Running a node is one step: it is held back by the interrupt
level, or ends with an outcome; "failed" stands for failed, panicked and timed
out, which the code treats alike. The interrupts of `NodeRun` are a counter. In
the code a failing teardown node after another failure is kept as an additional
failure; the model keeps it in `log`. Filtering and stable sorting are one
operator, `Arranged`: the k-th element is the one that has k positions up to its
own in the order. `UniqueNodeID` is `FirstCleanupID` when the tree is built, and
deferred nodes get the IDs from there on. `Forsaken` names the cases in which the
code leaves a container without what is to run once after its specs.

**`Node`** is the DSL's functions and `NewNode`: a call is its decorators, labels
and the shapes of its functions, and becomes a node or a set of errors.
**`LabelFilter`** is the label filter's parser, one token at a time, and next to
it `Meaning`, the documented language by its grammar. **`SpecOrder`** has what a
process makes of its tree: the specs (`GenerateSpecsFromTreeRoot`), focus and
filters, and `OrderSpecs`. **`SpecTree`** is the machine around them: the user's
code declares nodes and tables, calls `PreviewSpecs` and `RunSpecs` and enters
and leaves bodies; every error of `types/errors.go` it can meet ends the process.
`StartRun` chooses the seed's effect, and what a second process would have made of
the same program if it declares the nodes of one location in another order, as
one that ranges over a map does (`plan.other`).

**`OutputInterceptor`** is both implementations of the interceptor (dup and
reassigned globals) and the GinkgoWriter, under the suite's goroutine that makes
one segment after the other: `StartIntercepting` to `StopIntercepting`, with the
goroutines that copy, wait and send as steps of their own. Writes are numbered,
so that a report is a sequence of numbers.

**`SuiteReport`** is what the goroutines of a process share through the Suite
struct: the suite's goroutine, the bodies (leaked ones go on calling By,
AddReportEntry, AttachProgressReporter and DeferCleanup), and the two places that
generate progress reports: the cases of `runNode`'s select (`PollProgress`,
`NodeTimesOut`, `SeeInterrupt`, `ReportLeak`) and the progress signal. The wait
for a node ends with its body, when the grace period is over (`ReportLeak`,
`EndGrace`) or with another interrupt. Every lock, unlock and unlocked write is a
step. The fields of the struct are variables. A node is a pair: `<<n, 0>>` is the It of spec
n, `<<n, k>>` the cleanup node its body makes with its k-th call.

**`RunCommand`** is `ginkgo run` and `build`: the main goroutine, the goroutines
that compile, the channel and the flag between them, repetition, exit code. The
suites a filter leaves are the positions it keeps, in rising order (`Rising`).
`RunAborts` is the `AbortIfError` calls of `RunCompiledSuite` (arguments, server,
process, merged profiles), which end the command from inside the loop, and
`FinalizeAborts` the one after `FinalizeProfilesAndReportsForSuites`.
**`Watch`** is `ginkgo watch`. A directory is there or not and holds files, each
known by its modification time, whether it is a test and what it imports; the
tracker's steps interleave with those of a user who saves files, deletes them,
moves them in with the time they have and removes and restores directories. The
dependencies of a suite are where the chains of at most `MaxDepth` imports lead:
from its code and tests, then from the code of what they meet. **`Ginkgo`**
composes both behind the command line.

**`InterruptHandlerProofs`**, **`ParallelSuiteProofs`**, **`ParallelSuitePassProofs`**
(which continues it), **`NodeRunProofs`**, **`GroupProofs`**,
**`OutputInterceptorProofs`**, **`SuiteReportProofs`** and **`GinkgoProofs`** have
the proofs. The `MC*` modules define the instances of the runs. Definitions with
a comment that calls them a variant, or that stand right before the definition they bend,
are what a plausible slip in the code would look like; no run uses them, they
serve to show that the properties notice.

## Runs

| Run | Bounds | Shows |
|---|---|---|
| `interrupt_handler` | 4 signals, one more than there are levels; one abort; calls of `Status` at any time | no lost or spurious wakeup, no channel closed twice, `Status` returns, an abort arrives, refinement of `Interrupts` |
| `parallel` | 3 processes, a crash, fair scheduling | barriers wait for all others, not for one; the aggregated report is complete; every run ends |
| `parallel_faulty` | 2 processes, 5 suites that lack one part or the other; bodies that fail, skip or abort; a signal, the deadline, a kill or a broken connection | nothing starts early, no false pass, no report held back for ever |
| `node_run` | 5 plans of 2 nodes, 3 interrupts, time units of one grace period or less | results are not mixed up, one grace period, deadlines kept, a signal ends a hanging node |
| `group` | up to 3 specs, 2 levels of containers, OncePerOrdered setup around and within them, reporters, 2 attempts of flaky and of repeated specs; the shorter groups under 2 interrupts, abort, fail-fast and the deadline | what was set up is torn down, at the end, and set up once; no cleanup is left; no node twice in an attempt; a pass is a pass |
| `spec_tree` | 10 programs of up to 5 nodes in any order and nesting, tables, late declarations, a preview; filters of up to 6 tokens over 2 labels | every spec gets its nodes; focus, pending and filters choose what the documents say; Ordered groups whole, Serial ones apart, the same everywhere; what runs is runnable |
| `output_interceptor` | 2 attempts, a suite node in 3 segments, 2 report nodes, a pause; 2 writes each by body, leaked goroutine or child | output is filed under its spec, in order and once; stdout and pipes are restored; no call hangs |
| `suite_report` | 2 specs, timeouts and leaks with their reports; 3 programs of calls with a progress signal, 2 with 3 interrupts, shown or not, and one of these with a poll | no report mixes two specs, each is filed under its own; cleanups run once, in order; reports end even if a reporter waits for its caller's lock |
| `cli` | up to 3 suites, 2 compilers, 5 configurations, 2 iterations, aborts; for `watch` 2 suites, a package one of them tests with and one that imports, depth 2, and 2 actions of the user, of any kind | the exit code is the truth, run and build end; no file a suite is known to watch stays newer than its last run; where files were only saved the last build is up to date |
| `parallel_killed`, `leaked_node`, `preview_then_run` | the smallest instances | see below |

Two processes are enough for everything between process 1 and another; a third
adds the case that one of the others is done and the other is not. Two groups
make two processes compete and leave one with none. Two attempts are a first and
a last one; three specs are a first, a middle and a last one, one of them skipped
or pending. Five nodes are two Ordered containers with a spec each inside a
third, or setup nodes before and after a container within another; six tokens
nest two operators with a negation or a pair of parentheses. Three suites and two compilers leave one suite in the queue while the others are
compiled. Three interrupts are all levels; a poll, a timeout, an interrupt and a
leak may all be reported for one node; a signal is not combined with them here,
but it is in the theorem. A reporter that hangs answers as little as one that waits
for the lock, and stands for it. Two actions of the user are one before a
comparison and one after it, or a file saved and another deleted.

**Fairness.** `InterruptHandler`: the goroutines are scheduled, and the ticker
makes the poller ask again and again, so a truthful answer comes eventually.
`ParallelSuite`: processes and the CLI's goroutines are scheduled, and bodies
return; bodies that do not are the business of `NodeRun`, where only the suite's
goroutine and time are fair. `OutputInterceptor`: goroutines that can run do, and
the bailout timer fires; a child process need never write nor exit.
`SuiteReport`: goroutines that can run do and timers fire; a body need not return.
`Ginkgo`: the main goroutine and the compilers run on, and `go test -c` and the
test binary end, which is what `runPc` and `compilers` waiting on them assume.
Faults, signals, edits and the user's calls never have to happen.

**Deadlock** is checked except where the system may stop: after `Stop`
(`interrupt_handler`), when a killed process leaves others waiting
(`parallel_faulty`, `parallel_killed`), and once a process has ended
(`spec_tree`, `preview_then_run`).

## Where code and documentation disagree

Three are runs that end in a violation; `PROJECT.json` has the quotations.

- `parallel_killed`: the alive function asks `ProcessState.Exited()`, which is
  false for a process that a signal killed. It counts as alive for ever, and
  whoever waits for it does not come back.
- `leaked_node`: a leaked body that ends later drains the Failer of another node,
  whose failure is lost.
- `preview_then_run`: `Suite.Clone` starts a new tree, so specs and setup nodes at
  the top level are lost when a suite is previewed and then run.

Others, met while the models were written; the properties say where they stop:

- `internal/group.go:260`, `357`: a MustPassRepeatedly spec of an Ordered container
  that fails before its last attempt gets no other one, and the container's
  AfterAll, and what its BeforeAll deferred, never runs (`docs/index.md:2423`).
- `internal/group.go:256`: Skip in a OncePerOrdered BeforeEach of an Ordered
  container, run for a container within, runs the outer AfterAll before specs of
  the outer one (`docs/index.md:2299`).
- `ginkgo/watch/package_hash.go:55`: a file that is deleted, or moved in with an
  old time, changes the hash, but the time of the change is that of the newest
  file there is, and the suite is not run again (`docs/index.md:5324`).
- `internal/suite.go:479`: the error of the wait before the Serial specs is
  dropped; with a broken connection they run next to others (`docs/index.md:2226`).
  `SerialRunsAlone` is claimed while connections work.
- `internal/group.go:291`: a failure in AfterEach after a Skip leaves the spec
  skipped (`docs/index.md:1197`).
- `internal/output_interceptor.go:167`: after the bailout the segment's output is
  dropped, although the comment at 197 speaks of what was copied so far.
- `internal/focus.go`: a focused container loses its focus to a descendant that
  has only pending specs (`docs/index.md:2486`); `FocusExact` follows the code.
- A pending container without a body is accepted and panics in `BuildTree`.
- `ginkgo/run/run_command.go:120`: an interrupted command without a failure exits
  with 0, suites not run, binaries left behind.
- `ginkgo/watch/suite.go:77`: a suite whose package is removed and comes back is
  still tracked, but its hash is gone, and the watcher panics (`DeltaPanics`).
- `ginkgo/watch/dependencies.go:77`: an import that cannot be resolved is left out,
  and a package that appears later is not watched until the suite runs again.

Properties with exceptions that are the code's, and which the formulas name:

- `TornDown` and `CleanupsRun` are about groups that were not disturbed from
  outside: an interrupt, abort, fail-fast or deadline between two nodes makes the
  next one skipped rather than interrupted, and what is to run once is left to a
  last spec that is then skipped. Within a group `Forsaken` has the cases: a
  repeated spec that failed early, a spec that a reporter failed, and Skip in a
  node that runs once for a deeper container. A setup node around the container
  that ends a later attempt puts a deeper AfterAll out of reach, too.
- `TeardownIsLast`: not if a run-once node beside AfterAll, other than BeforeAll,
  did not pass: the code takes that for the end of the container (`group.go:256`).
- `ExitCodeExact`: not for a command whose loop an interrupt broke off; an abort
  inside the loop (`RunAborts`) leaves suites without a verdict and binaries on
  disk, and both kinds of abort exit with 1 whatever the verdicts are.
- `ChangesAreRun`: for suites found at every tick so far. That a suite's last
  build is made of the files that are there is claimed where files were only
  saved: a deletion or an old file moved in goes unnoticed, as
  does a dependency that appears later.
- `FiledUnderOwnSpec`: what a leaked body adds, and a report asked for with a
  signal, may end up with another spec.

## Proofs

`InterruptHandlerProofs` proves, for every bound on the signals and with or
without a parallel server, type correctness, `WakeupExact`, `AbortOnlyFirst`,
`NoDoubleClose` and the refinement of `Interrupts`. The only assumption is the
one on the constants. None of the properties is inductive as it stands; the
invariant is

- `TypeOK`;
- `ChannelIsLevel`: the current channel's number is the level, and the closed
  channels are exactly the ones before it (so a snapshot of level and channel
  taken at one moment stays consistent);
- `AbortIsFirst`: once the listener has taken any interrupt it no longer listens
  to the abort channel, and if its cause is an abort the level was 0;
- `ClosedOnce`: requestAbortCheck closed means that the caller is waiting, is about
  to ask again with a level above 0, or has an interrupted status in hand; the
  poller closes abortChannel only as its last act.

Each action is a step of the proof. The refinement follows from the same
invariant: `Escalate` is `Signal` or `Abort`, or does nothing visible, everything
else leaves level, cause and channel alone.

`ParallelSuiteProofs` proves, for every number of processes greater than one,
every set of suites and every bound on the faults: type correctness,
`Process1CleansUpLast`, `SpecsWaitForProcess1`, `ReportAfterSuiteComplete` and,
if no connection breaks, `SerialRunsAlone`. The assumptions are the two on the
constants. The invariant is

- `TypeOK`;
- `Barriers`: who is gone has exited, and process 1 is in one of its late bodies
  only when all others are gone; being gone is never taken back, which is what
  makes a barrier once passed stay passed;
- `SerialBarrier`: the same for the Serial groups, while all connections work;
- `PostedByProcess1`: only process 1 posts the states the others wait for, and it
  cannot get back to where it posts them, so a state that says passed stays;
- `OthersWait`: what another process must have seen, for every pc on its way to a
  spec. A Skip on process 1 lets it go on to the specs without the setup, with
  `skipAll` set, so that case is part of the invariant;
- `Counted`: the server's count of suite reports is the number of processes that
  sent one, each of which is about to exit. From N - 1 reports and process 1 not
  among the senders it follows that the others all are.

`Frame` and `OutsideFrame` say what a step leaves alone; then every part of the
invariant has one step per action.

`ParallelSuitePassProofs` adds what a passed suite has done, under the same
assumptions: `NothingHeldBack` and `PassIsComplete`. They need to know that no
report, and no group, falls through the cracks between the server's counters,
the processes and the holding area, with connections that break:

- `Begins`, `Ends`: the server's counts against the processes that have begun
  and ended. A broken connection loses a begin, so `numSuiteDidBegins` lies
  between the number of processes it heard from and the number that began; with
  all N suite reports in, every process was heard;
- `LoopDone`: a process that is past the loop over the groups and still succeeding
  has seen an index beyond the last one;
- `HandedOut`: an index of the server's counter is held by one process or reported
  once, never both, and is not lost while all are heard; `SerialCounted` says the
  same of the indices process 1 counts itself;
- `FailuresCount`: who reported a failure is failing, and exits so.

When the CLI reports a pass, all have exited with success and all were heard,
and the four parts leave each group exactly one report.

`NodeRunProofs` is about every plan of nodes, with any timeouts and any number of
interrupts: `OneGracePeriod`, `DeadlineKept` and `ResultIsOwn`. The invariant is

- `TypeOK`, and `InOrder`: the nodes before the current one have results, those
  after it have not been touched, and only the current one is in the select;
- `GraceFollowsCancel`: a cancelled node has the grace period as its only timer, a
  node that is not has at most a deadline;
- `TimersKept`: for every time by which the code promises to be through with the
  node, some timer that is running ends it by then (`EndsBy`): a cancel replaces
  the deadline by a grace period that ends no later;
- `FailerIsOwn`: while no earlier body is leaked, what the Failer holds is what the
  current body recorded, from its failure through the panic and the drain.

`GroupProofs` is about every group of specs, any outcomes, attempts, interrupts
and deferred nodes: `SetupOnce`, `OncePerAttempt` and `PassedIsPassed`. The
assumption, `FromTree`, is that the specs' nodes come from one tree: an ID stands
for one node, a spec has each of its nodes once and has a subject, and a BeforeAll
is in one container (`NewNode` numbers the nodes, `GenerateSpecsFromTreeRoot` makes
the specs, and the tree refuses BeforeAll anywhere else). First come the lists:
what filtering, sorting, reversing and joining make of a list without repetition
is one again, with the same nodes (`ArrangedOnce` counts positions for it). Then
the invariant:

- `Typed`, and `Made`: deferred nodes have IDs beyond those of the tree, so no node
  that is deferred is taken for one that was declared;
- `Queued`: what each loop still has to run: setup nodes only if their pair has not
  passed, teardown nodes only if they are not in `afterNodeWasRun`;
- `Logged`: what was run were nodes of the specs so far, or deferred ones, and
  none in an attempt after the current one;
- `Apart`: what is queued was not run in this attempt. When the teardown nodes are
  chosen again, it is `afterNodeWasRun` and the types of the setup nodes that say so;
- `Remembered`: the tracker has a BeforeAll that passed, under the pair it has in
  any spec of the container (`PairOfBeforeAll`: it is the same pair in all);
- `Passing`: as long as the state is passed, everything of the attempt has passed,
  and the subject has, or is still queued (`StillToRunList`: it is never left out).

Every step runs one node of the queue (`Runs`) or none (`NothingRun`).

`OutputInterceptorProofs` is about both implementations, any number of writes and
pauses, and every sequence of segments a code path of the suite makes: `Released`
and `OutputFiled`. The assumption, `CodePath`, is what `group.run`, `reportEach`,
`runSuiteNode` and `runReportSuiteNode` have in common: the writer is cleared
first and read last, a restart in between is about the same report, and only
`runReportSuiteNode`, which is one segment, returns early. TLC evaluates it on
the workloads of the run. For `Released`, `Shape` says at each point of an
interception what stdout is and who holds the pipe, and that every pipe but the
last is spent. `OutputFiled` needs, on top of it (`Filing`):

- `InOrder`: what is in the reports comes before what is accumulated, that before
  what is in the buffer, that before what is in the pipe, each in order;
- `Made`: all of it are writes that were made;
- `Attributed`: what a body wrote is on its way to its own report, or an early
  return has come in between;
- `Drained`, `Kept`: a copy that ended well has emptied the pipe, so that what a
  body wrote is in its report or still on its way, at every step.

Every step either moves no output (`Carry`) or is one of six that do
(`Classified`), and each of those has a lemma.

`SuiteReportProofs` is about any number of specs, any programs of calls and any
number of polls and progress signals, with timeouts, interrupts and leaks:
`SnapshotConsistent`, `FiledUnderOwnSpec` and
`CleanupsRunOnce`. For the first two the invariant is `Own`:

- `TypeOK`, and `Counted`: a body in a call has begun it and runs;
- `Position`: the specs are run one after the other, and at each point of
  `runNode` what `currentNode` is (the code clears it only in a deferred function);
- `Running`: a body that runs is the one the suite waits for, or leaked. This is
  what lets an entry or a step be filed under the spec that is current;
- `Taken`: the suite's goroutine takes a report only while it waits in the select,
  the one on leaving a node behind included, so what such a report shows is still
  true when it is filed;
- `Filed`: the report in the making is about its spec, as the finished ones are;
- `Exited`: only after a leak does DeferCleanup end the process.

`CleanupsRunOnce` needs `Later` (bodies of later specs have not been started) and,
unless a leaked body has made a cleanup node, `Cleaning`: nobody but the body the
suite waits for touches the list while it appends (`Deferring`), so the list rises
with the calls (`Listed`) and is empty when a spec begins and ends (`Fresh`); the
teardown takes from its reversal, whose rest is at each step exactly what is left
in the list (`Unwinding`); what was run is in order (`Ran`); and a cleanup node
asked for is about to be made, in the list, about to be run or was run, unless
there was a second interrupt (`Complete`). The assumption is the one on the constants.

`GinkgoProofs` is about the command line. Of `ginkgo run` it proves
`ExitCodeExact`, for any suites and configurations and any number of compiling
goroutines. The assumption is that FindSuites finds suites that are compiled
already or are to be compiled, and no package twice, which is so unless the
command line names one twice (the code does not look for that). The invariant is
`RunInv`:

- `RunTyped`, `Named`: every suite has a name and a count of its own; `Begun`: no
  suite without a compiled test was asked to run;
- `Placed`: a bundle that was handed out is in the channel, with one goroutine or
  done, and in one of these places only; the suites received are done;
- `Stopped`: outside of an interrupt the compiler is stopped only because the time
  is over, or for a failure before the current suite without --keep-going: both
  keep what it then passes on uncompiled from being run;
- `Answered`: what the compiler says of a suite not received yet: it has a binary,
  did not compile or is empty, unless the compiler was stopped;
- `OnDisk`: a binary is known to its suite, or to an answer that will be received,
  so that Cleanup finds it;
- `Counted`: a suite received has a verdict, it is skipped only after a failure,
  and its count of completed runs is that of the iterations;
- `Ended`: the loop ends after the last suite unless it was broken off or aborted,
  and the exit code is that of what the suites' states are then, or 1 for an abort.

Of `ginkgo watch` it proves `ChangesAreRun`, for any packages, imports, depth,
whatever the user does to the files and however often. The assumption is the one
on the types of the constants. The invariant, `WatchInv`, is in two halves. One is
about what the tracker knows:

- `WatchTyped`, and `Filed`: files, hashes and runs have times up to the clock, so
  a file that is saved now has a time nobody has seen;
- `HashesKept`: a suite that was found at every tick has its hash and those of its
  dependencies;
- `Noted`: the newest file behind a hash is no newer than the time of change noted
  for it, or than the suite's last run, or the suite is still to run. A deletion
  makes it no less true, and goes unnoticed;
- `Compared`: while hashes are compared, one that has been looked at is that of the
  files as they were seen;
- `Settled`: after the comparison the suite ran after what was seen, or is still
  to run.

The other is about packages in which files were only saved: what a suite watches
there is in its last build, the suite is due to be built, or a file is newer than
its last run (`Built`); and unless something it watches is, its dependencies are
the ones that chains of such packages lead to (`DepsKnown`, `SavedDependencies`):
a save that changes where a chain leads is made in a package on it, which the
suite watches. Between two ticks no suite is left to run, so by `Settled` nothing
that is as it was seen is newer than the run, and the second half says the rest.
That `Latest`, a CHOOSE, is a largest time rests on the least element of a set of
naturals (`LeastElement`, `LatestOf`).

Only model-checked: the liveness properties (`StatusReturns`,
`AbortReachesSuite`, `RunEnds`, `SignalEndsNode`, `CallsReturn`, `ReportsReturn`,
`CommandEnds`), which are out of the prover's reach; everything about the tree and
the filters, whose recursive operators the prover does not take; and `TornDown`,
`TeardownIsLast` and `CleanupsRun`, whose exceptions were found with TLC and are
stated for the groups of their run's size.

## Limits of the models

- `SpecTree`: regexps, file filters and the fit of table parameters are given as
  what they match. The shuffle is tried with the identity and the reversal. Two
  siblings at one location with equal texts are told apart by their IDs only.
- `OutputInterceptor`: the interceptor takes no lock; a leaked body that pauses or
  resumes it next to the suite's goroutine is left out. `TeeTo` is left out.
- `SuiteReport`: the order of the timeline, locations, and reporters that panic
  are left out; `currentByStep` may be that of a leaked body, as in the code. A
  cleanup node's body returns at once: no report is taken while it runs, but by
  the progress signal.
- `RunCommand`: which file could not be written or started is not said; a command
  may abort wherever the code checks for it. `config.collect` stands for the flags
  that leave something to collect.
- `Watch`: finding dependencies and building each see the files of one moment. A
  package is not renamed, and the size and name of a file go with its time.

## Not modelled, and what is next

Reporters, configuration and flags, generators, outline, labels and unfocus
format, parse and write files; they have no state worth a model. The testing.T
proxy forwards calls whose effects are modelled. The transports (net/rpc,
net/http) are external: a call arrives or fails.

What could come next: `TornDown`, `TeardownIsLast` and `CleanupsRun` proved for
every group; the tree without recursive operators, so that `OrderedStayTogether`
and `SerialStaysApart` can be proved; and liveness beyond the bounds of the runs.
