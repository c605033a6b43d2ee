---------------------------- MODULE SuiteReport -----------------------------
(***************************************************************************)
(* What the goroutines of a running suite share through the Suite struct   *)
(* (internal/suite.go), mostly under selectiveLock: the report of the      *)
(* current spec, the current node, step and SpecContext, and the list of   *)
(* cleanup nodes.  The suite's own goroutine goes from spec to spec and    *)
(* from node to node; the body of a node calls By, AddReportEntry,         *)
(* AttachProgressReporter and DeferCleanup and, once leaked, goes on doing *)
(* so while later nodes run; a progress report is generated by the suite's *)
(* goroutine (poll, timeout, interrupt, a node that is left behind) or, at *)
(* any moment, by the goroutine that waits for the progress signal.        *)
(*                                                                         *)
(* Spec n has one node, It(n); the cleanup node its body makes with its    *)
(* k-th call is <<n, k>>.                                                  *)
(***************************************************************************)
EXTENDS Naturals, Sequences, FiniteSets, SequencesExt

CONSTANTS
  Specs,      \* numbered from 1
  Programs,   \* what the bodies call: for each It, a sequence of calls
  \* bounds, for each of the programs, on progress polls and signals and interrupts
  MaxPolls, MaxSignals, MaxInterrupts,
  Reporters   \* what an attached progress reporter may do

Calls == {"By", "AddReportEntry", "AttachProgressReporter", "DeferCleanup"}

ASSUME SuiteReportAssumption ==
  /\ IsFiniteSet(Specs) /\ Specs # {} /\ Specs = 1..Cardinality(Specs)
  /\ \A p \in Programs: DOMAIN p = Specs /\ \A n \in Specs: p[n] \in Seq(Calls)
  /\ MaxPolls \in [Programs -> Nat] /\ MaxSignals \in [Programs -> Nat]
  /\ MaxInterrupts \in [Programs -> 0..3]
  /\ Reporters \subseteq {"answers", "reads", "hangs"}

VARIABLES
  \* The fields of the Suite struct: the report of the spec that is run and
  \* those of the specs before, the node, its step and its SpecContext, and
  \* the cleanup nodes to be run.
  currentSpecReport, reports, currentNode, currentByStep, currentSpecContext,
  cleanupNodes,
  attached,  \* the progress reporters of each SpecContext
  lock,      \* who holds selectiveLock
  main,      \* the suite's goroutine
  wait,      \* the locals of the loop in which it waits for a node
  status,    \* interruptHandler.Status()
  body,      \* the goroutine of each It
  gen,       \* the two places where progress reports are generated
  ran        \* history: the cleanup nodes that were run

current   == <<currentNode, currentByStep, currentSpecContext>>
suiteVars == <<currentSpecReport, reports, current, cleanupNodes, attached>>
vars      == <<suiteVars, lock, main, wait, status, body, gen, ran>>

Generators   == {"suite", "signal"}
None         == <<0, 0>>
It(n)        == <<n, 0>>
IsCleanup(c) == c[2] > 0
Report(n)    == [spec |-> n, events |-> <<>>, entries |-> <<>>, progress |-> <<>>]
NoSnapshot   == [spec |-> 0, node |-> None, step |-> 0]

\* node: what runNode runs; todo: the cleanup nodes to run after it; read:
\* cleanupNodes as runNode has read it; over: afterNodeWasRun.
NewMain(n, at) == [pc |-> at, node |-> It(n), todo |-> <<>>, read |-> <<>>, over |-> {}]

\* outcome; level: of interruptStatus; grace: gracePeriodChannel is set; over:
\* the node is left when the report that is being generated is finished.
NewWait(l) == [outcome |-> "none", level |-> l, grace |-> FALSE, over |-> FALSE]

\* calls: how many of its calls it has begun; call and stage: where it is in
\* the last one; late: it has made a cleanup node since it was leaked.
NewBody(program) ==
  [program |-> program, calls |-> 0, state |-> "none", call |-> "none", stage |-> 0,
   owner |-> None, read |-> <<>>, leaked |-> FALSE, late |-> FALSE]

NewGenerator == [pc |-> "idle", why |-> "signal", ask |-> <<>>, count |-> 0,
                 snap |-> NoSnapshot]

Init ==
  /\ currentSpecReport = Report(0) /\ reports = <<>>
  /\ currentNode = None /\ currentByStep = 0 /\ currentSpecContext = None
  /\ cleanupNodes = <<>> /\ attached = [n \in Specs |-> <<>>]
  /\ lock = "free" /\ main = NewMain(1, "spec")
  /\ status = [level |-> 0, shown |-> FALSE] /\ wait = NewWait(0)
  /\ \E p \in Programs: body = [n \in Specs |-> NewBody(p[n])]
  /\ gen = [g \in Generators |-> NewGenerator]
  /\ ran = <<>>

\* Which of the programs the bodies follow.
Program == [n \in Specs |-> body[n].program]

Ended == main.pc \in {"end", "exited"}

-----------------------------------------------------------------------------
(* The suite's goroutine: group.run, attemptSpec and runNode.              *)

Goto(from, to) == main.pc = from /\ main' = [main EXCEPT !.pc = to]
Locked(from, to) == lock = "free" /\ Goto(from, to)  \* a critical section

\* Once there is an interrupt, evaluateSkipStatus skips the spec.
NewSpec ==
  /\ Locked("spec", IF status.level > 0 THEN "process" ELSE "remove")
  /\ currentSpecReport' = Report(main.node[1])
  /\ UNCHANGED <<reports, current, cleanupNodes, attached, lock, wait, status, body, gen, ran>>

KeepCleanup ==
  /\ main.pc = "remove"
  /\ main' = [main EXCEPT !.pc = "assign", !.read = cleanupNodes]
  /\ UNCHANGED <<suiteVars, lock, wait, status, body, gen, ran>>

\* The places of a list that runNode's node has, and the first of them.
Places(list) == {i \in DOMAIN list: list[i].id = main.node}
First(S)     == {i \in S: \A j \in S: i <= j}

\* runNode takes a cleanup node off the list, WithoutNode: it reads the list
\* and assigns it, without the lock.
ReadCleanups ==
  /\ main.pc = "remove"
  /\ \/ /\ Places(cleanupNodes) = {}
        /\ main' = [main EXCEPT !.pc = "assign", !.read = cleanupNodes]
     \/ \E i \in First(Places(cleanupNodes)):
          main' = [main EXCEPT !.pc = "assign", !.read = RemoveAt(cleanupNodes, i)]
  /\ UNCHANGED <<suiteVars, lock, wait, status, body, gen, ran>>

AssignCleanups ==
  /\ Goto("assign", "start")
  /\ cleanupNodes' = IF IsCleanup(main.node) THEN main.read ELSE cleanupNodes
  /\ UNCHANGED <<currentSpecReport, reports, current, attached, lock, wait, status, body, gen, ran>>

\* runNode reads the interrupt status: after one interrupt only cleanup nodes
\* are run, after two they are not either (but they are off the list).
HeldBack == status.level > 1 \/ (status.level = 1 /\ ~IsCleanup(main.node))

SkipNode ==
  /\ HeldBack /\ Goto("start", "next")
  /\ UNCHANGED <<suiteVars, lock, wait, status, body, gen, ran>>

SetNode ==
  /\ ~HeldBack /\ Locked("start", "enter")
  /\ currentNode' = main.node /\ currentByStep' = 0
  /\ wait' = NewWait(status.level)
  /\ UNCHANGED <<currentSpecReport, reports, currentSpecContext, cleanupNodes, attached, lock,
                 status, body, gen, ran>>

\* handleSpecEvent, at the start of a node, and handleSpecEventEnd.
NodeEvent ==
  /\ Locked("enter", "context") \/ Locked("leave", "clear")
  /\ currentSpecReport' = [currentSpecReport EXCEPT !.events = Append(@, main.node)]
  /\ UNCHANGED <<reports, current, cleanupNodes, attached, lock, wait, status, body, gen, ran>>

\* A new SpecContext is the current one and the body is started.  The body of
\* a cleanup node returns at once.
SetContext ==
  /\ Locked("context", IF IsCleanup(main.node) THEN "leave" ELSE "select")
  /\ currentSpecContext' = main.node
  /\ IF IsCleanup(main.node)
     THEN ran' = Append(ran, main.node) /\ UNCHANGED body
     ELSE body' = [body EXCEPT ![main.node[1]].state = "running"] /\ UNCHANGED ran
  /\ UNCHANGED <<currentSpecReport, reports, currentNode, currentByStep, cleanupNodes, attached,
                 lock, wait, status, gen>>

SelectAnyTime == main.pc = "select"

\* The loop is at its select, or on its way out of it: no report is being
\* generated by the suite's goroutine.
AtSelect == main.pc = "select" /\ gen["suite"].pc = "idle"

BodyReturned ==
  /\ AtSelect /\ ~wait.over /\ body[main.node[1]].state = "returned"
  /\ Goto("select", "leave")
  /\ wait' = NewWait(0)
  /\ UNCHANGED <<suiteVars, lock, status, body, gen, ran>>

\* runNode returns without its body, which goes on in the background.
Leak ==
  /\ AtSelect /\ wait.over
  /\ Goto("select", "leave")
  /\ body' = [body EXCEPT ![main.node[1]].leaked = @ \/ body[main.node[1]].state = "running"]
  /\ wait' = NewWait(0)
  /\ UNCHANGED <<suiteVars, lock, status, gen, ran>>

KeepNode ==
  /\ Locked("clear", "next")
  /\ UNCHANGED <<suiteVars, lock, wait, status, body, gen, ran>>

\* The deferred functions: currentByStep and currentSpecContext stay.
ClearNode ==
  /\ Locked("clear", "next")
  /\ currentNode' = None
  /\ UNCHANGED <<currentSpecReport, reports, currentByStep, currentSpecContext, cleanupNodes,
                 attached, lock, wait, status, body, gen, ran>>

\* The cleanup nodes, the last one first; once they are through attemptSpec
\* looks for ones that were made in the meantime.
NextNode ==
  LET over    == main.over \union {main.node}
      Left(s) == {i \in DOMAIN s: s[i].id \notin over}
      nodes   == IF Left(main.todo) # {} THEN main.todo ELSE Reverse(cleanupNodes)
  IN /\ main.pc = "next"
     /\ \/ Left(nodes) = {} /\ main' = [main EXCEPT !.pc = "process"]
        \/ \E i \in First(Left(nodes)):
             main' = [main EXCEPT !.pc = "remove", !.node = nodes[i].id,
                                  !.todo = SubSeq(nodes, i + 1, Len(nodes)), !.over = over]
     /\ UNCHANGED <<suiteVars, lock, wait, status, body, gen, ran>>

\* processCurrentSpecReport copies the report, which is then replaced.
ProcessCurrentSpecReport ==
  /\ Goto("process", "reset")
  /\ reports' = Append(reports, currentSpecReport)
  /\ UNCHANGED <<currentSpecReport, current, cleanupNodes, attached, lock, wait, status, body, gen,
                 ran>>

ResetReport ==
  LET n == currentSpecReport.spec + 1
  IN /\ main.pc = "reset" /\ lock = "free"
     /\ main' = NewMain(n, IF n \in Specs THEN "spec" ELSE "end")
     /\ currentSpecReport' = Report(0)
     /\ UNCHANGED <<reports, current, cleanupNodes, attached, lock, wait, status, body, gen, ran>>

-----------------------------------------------------------------------------
(* generateProgressReport and emitProgressReport.                          *)

NoSuiteVars == UNCHANGED <<suiteVars, main, status, body, ran>>

\* A report is asked for; polls and signals are counted.
Asked(gn, why) ==
  [gn EXCEPT !.pc = "lock", !.why = why,
             !.count = IF why \in {"poll", "signal"} THEN @ + 1 ELSE @]

\* The cases of runNode's select that generate a report, while the node is to
\* be waited for.
Case(why) ==
  /\ AtSelect /\ ~wait.over
  /\ gen' = [gen EXCEPT !["suite"] = Asked(@, why)]
  /\ UNCHANGED lock /\ NoSuiteVars

\* emitProgressNow, before and during the grace period.
PollProgress ==
  /\ gen["suite"].count < MaxPolls[Program] /\ Case("poll")
  /\ UNCHANGED wait

\* deadlineChannel, which is nil once the node has timed out or was interrupted.
NodeTimesOut ==
  /\ wait.outcome = "none" /\ Case("timeout")
  /\ wait' = [wait EXCEPT !.outcome = "timedout", !.grace = TRUE]

\* interruptStatus.Channel: the first interrupt gives grace; one that comes
\* later, or the last one, ends the wait.
SeeInterrupt ==
  /\ status.level > wait.level
  /\ Case(IF status.shown THEN "interrupt" ELSE "unshown")
  /\ wait' = [outcome |-> IF wait.outcome = "none" THEN "interrupted" ELSE wait.outcome,
              level |-> status.level, grace |-> TRUE, over |-> wait.grace \/ status.level = 3]

\* gracePeriodChannel.  A node with a context that had timed out is reported.
ReportLeak ==
  /\ wait.grace /\ wait.outcome = "timedout" /\ Case("leak")
  /\ wait' = [wait EXCEPT !.over = TRUE]

EndGrace ==
  /\ AtSelect /\ ~wait.over /\ wait.grace
  /\ wait' = [wait EXCEPT !.over = TRUE]
  /\ UNCHANGED <<suiteVars, lock, main, status, body, gen, ran>>

\* The interrupt handler (InterruptHandler) reports the next level.  An abort
\* by another process is not shown with a progress report.
Interrupt(shown) ==
  /\ ~Ended /\ status.level < MaxInterrupts[Program]
  /\ status' = [level |-> status.level + 1, shown |-> shown]
  /\ UNCHANGED <<suiteVars, lock, main, wait, body, gen, ran>>

\* handleProgressSignal, one signal after the other.
HandleProgressSignal ==
  /\ gen["signal"].pc = "idle" /\ gen["signal"].count < MaxSignals[Program] /\ ~Ended
  /\ gen' = [gen EXCEPT !["signal"] = Asked(@, "signal")]
  /\ UNCHANGED <<lock, wait>> /\ NoSuiteVars

\* The lock is held while the attached reporters are asked.
Querying(gn) ==
  [gn EXCEPT !.pc = "query", !.snap = NoSnapshot,
     !.ask = IF currentSpecContext = None \/ IsCleanup(currentSpecContext) THEN <<>>
             ELSE attached[currentSpecContext[1]]]

Acquire(g) ==
  /\ gen[g].pc = "lock" /\ lock = "free"
  /\ lock' = g
  /\ gen' = [gen EXCEPT ![g] = Querying(@)]
  /\ UNCHANGED wait /\ NoSuiteVars

\* A reporter answers.  One that reads the current report waits for the lock
\* that is held until it has answered.
Answered(gn) == [gn EXCEPT !.ask = Tail(@)]

Answers(g) ==
  /\ gen[g].pc = "query" /\ gen[g].ask # <<>> /\ Head(gen[g].ask) = "answers"
  /\ gen' = [gen EXCEPT ![g] = Answered(@)]
  /\ UNCHANGED <<lock, wait>> /\ NoSuiteVars

WaitForReporter(g) == gen[g].pc = "query" /\ gen[g].ask # <<>> /\ UNCHANGED vars

\* PROGRESS_REPORTER_DEADLING is over: nobody else is asked.
ReporterDeadline(g) ==
  /\ gen[g].pc = "query" /\ gen[g].ask # <<>>
  /\ gen' = [gen EXCEPT ![g].ask = <<>>]
  /\ UNCHANGED <<lock, wait>> /\ NoSuiteVars

\* NewProgressReport, and the lock is released.
Snapshot(gn) ==
  [gn EXCEPT !.pc = "emit",
     !.snap = [spec |-> currentSpecReport.spec, node |-> currentNode, step |-> currentByStep]]

NewProgressReport(g) ==
  /\ gen[g].pc = "query" /\ gen[g].ask = <<>>
  /\ lock' = "free"
  /\ gen' = [gen EXCEPT ![g] = Snapshot(@)]
  /\ UNCHANGED wait /\ NoSuiteVars

\* The report of a timeout goes into the failure and is not emitted, nor is
\* that of an abort by another process.
Emitted(gn) == [gn EXCEPT !.pc = "idle", !.why = "signal", !.snap = NoSnapshot]

EmitProgressReport(g) ==
  /\ gen[g].pc = "emit" /\ lock = "free"
  /\ currentSpecReport' = IF gen[g].why \in {"timeout", "unshown"} THEN currentSpecReport
       ELSE [currentSpecReport EXCEPT !.progress = Append(@, [by |-> g, of |-> gen[g].snap])]
  /\ gen' = [gen EXCEPT ![g] = Emitted(@)]
  /\ UNCHANGED <<reports, current, cleanupNodes, attached, lock, main, wait, status, body, ran>>

-----------------------------------------------------------------------------
(* The body of an It, leaked or not.                                       *)

At(n, call, stage) ==
  body[n].state = "running" /\ ~Ended /\ body[n].call = call /\ body[n].stage = stage

Called(b) == [b EXCEPT !.call = b.program[b.calls + 1], !.calls = @ + 1]

Begin(n) ==
  /\ At(n, "none", 0) /\ body[n].calls < Len(body[n].program)
  /\ body' = [body EXCEPT ![n] = Called(@)]
  /\ UNCHANGED <<suiteVars, lock, main, wait, status, gen, ran>>

CallOver(b) == [b EXCEPT !.call = "none", !.stage = 0, !.owner = None, !.read = <<>>]
EndCall(n)  == body' = [body EXCEPT ![n] = CallOver(@)]

\* AddReportEntry and By append to the current report ...
AddReportEntry(n) ==
  /\ At(n, "AddReportEntry", 0) /\ lock = "free"
  /\ currentSpecReport' = [currentSpecReport EXCEPT !.entries = Append(@, n)]
  /\ EndCall(n)
  /\ UNCHANGED <<reports, current, cleanupNodes, attached, lock, main, wait, status, gen, ran>>

HandleByEvent(n) ==
  /\ At(n, "By", 0) /\ lock = "free"
  /\ currentSpecReport' = [currentSpecReport EXCEPT !.events = Append(@, It(n))]
  /\ body' = [body EXCEPT ![n].stage = 1]
  /\ UNCHANGED <<reports, current, cleanupNodes, attached, lock, main, wait, status, gen, ran>>

\* ... and By names the current step.
By(n) ==
  /\ At(n, "By", 1) /\ lock = "free"
  /\ currentByStep' = n
  /\ EndCall(n)
  /\ UNCHANGED <<currentSpecReport, reports, currentNode, currentSpecContext, cleanupNodes,
                 attached, lock, main, wait, status, gen, ran>>

AttachProgressReporter(n) ==
  /\ At(n, "AttachProgressReporter", 0)
  /\ \E r \in Reporters: attached' = [attached EXCEPT ![n] = Append(@, r)]
  /\ EndCall(n)
  /\ UNCHANGED <<currentSpecReport, reports, current, cleanupNodes, lock, main, wait, status, gen,
                 ran>>

\* pushCleanupNode reads currentNode without the lock: between nodes and in a
\* cleanup node DeferCleanup is an error, and the process exits.
Owned(b) == [b EXCEPT !.stage = 1, !.owner = currentNode]

ReadOwner(n) ==
  /\ At(n, "DeferCleanup", 0)
  /\ IF currentNode = None \/ IsCleanup(currentNode)
     THEN main' = [main EXCEPT !.pc = "exited"] /\ UNCHANGED body
     ELSE body' = [body EXCEPT ![n] = Owned(@)] /\ UNCHANGED main
  /\ UNCHANGED <<suiteVars, lock, wait, status, gen, ran>>

\* It appends to the list under the lock, but runNode does not wait for it.
Appending(b) == [b EXCEPT !.stage = 2, !.read = cleanupNodes]

ReadForAppend(n) ==
  /\ At(n, "DeferCleanup", 1) /\ lock = "free"
  /\ lock' = "body"
  /\ body' = [body EXCEPT ![n] = Appending(@)]
  /\ UNCHANGED <<suiteVars, main, wait, status, gen, ran>>

Pushed(b) == [CallOver(b) EXCEPT !.late = @ \/ b.leaked]

PushCleanupNode(n) ==
  /\ At(n, "DeferCleanup", 2)
  /\ lock' = "free"
  /\ cleanupNodes' = Append(body[n].read,
                            [id |-> <<n, body[n].calls>>, by |-> n, owner |-> body[n].owner])
  /\ body' = [body EXCEPT ![n] = Pushed(@)]
  /\ UNCHANGED <<currentSpecReport, reports, current, attached, main, wait, status, gen, ran>>

Return(n) ==
  /\ At(n, "none", 0)
  /\ body' = [body EXCEPT ![n].state = "returned"]
  /\ UNCHANGED <<suiteVars, lock, main, wait, status, gen, ran>>

-----------------------------------------------------------------------------
SuiteStep ==
  \/ NewSpec \/ ReadCleanups \/ AssignCleanups \/ SkipNode \/ SetNode \/ NodeEvent \/ SetContext
  \/ BodyReturned \/ Leak \/ ClearNode \/ NextNode \/ ProcessCurrentSpecReport \/ ResetReport

SelectStep ==
  PollProgress \/ NodeTimesOut \/ SeeInterrupt \/ ReportLeak \/ EndGrace

GeneratorStep(g) ==
  ~Ended /\ (Acquire(g) \/ Answers(g) \/ ReporterDeadline(g)
             \/ NewProgressReport(g) \/ EmitProgressReport(g))

BodyStep(n) ==
  \/ AddReportEntry(n) \/ HandleByEvent(n) \/ By(n)
  \/ AttachProgressReporter(n) \/ ReadOwner(n) \/ ReadForAppend(n) \/ PushCleanupNode(n)

Done == Ended /\ UNCHANGED vars

Next ==
  \/ SuiteStep \/ Done
  \/ SelectStep \/ HandleProgressSignal \/ Interrupt(TRUE) \/ Interrupt(FALSE)
  \/ \E g \in Generators: GeneratorStep(g)
  \/ \E n \in Specs: Begin(n) \/ BodyStep(n) \/ Return(n)

Spec == Init /\ [][Next]_vars

\* Goroutines that can run do, timers fire, calls of the suite go on; a body
\* need neither call anything nor return.
FairSpec == /\ Spec /\ WF_vars(SuiteStep)
            /\ \A g \in Generators: WF_vars(GeneratorStep(g))
            /\ \A n \in Specs: WF_vars(BodyStep(n))

-----------------------------------------------------------------------------
(* Properties.                                                             *)

\* A progress report never shows the node of one spec under the name of
\* another, whenever it is taken.
SnapshotConsistent ==
  \A g \in Generators: LET snap == gen[g].snap IN
    snap.node # None /\ ~IsCleanup(snap.node) => snap.node = It(snap.spec)

\* Every spec has one report, and what is in it is about that spec: the node
\* events, the entries and steps of its own body, and the progress reports the
\* suite took while its node ran, before and in the grace period, on interrupts
\* and on leaving the node behind.  Only what a leaked body adds, and a report
\* asked for with a signal, may end up with another spec.
FiledUnderOwnSpec ==
  \A i \in DOMAIN reports: LET r == reports[i] IN
    /\ r.spec = i
    /\ \A e \in Range(r.entries): e = i \/ body[e].leaked
    /\ \A e \in Range(r.events): ~IsCleanup(e) => e = It(i) \/ body[e[1]].leaked
    /\ \A p \in Range(r.progress): p.by = "suite" => p.of.spec = i /\ p.of.node = It(i)

LeakedPush == \E n \in Specs: body[n].late

\* DeferCleanup, as long as no leaked body makes a cleanup node: it never ends
\* the process, every cleanup node belongs to the node that asked for it, and is
\* run at most once, after the nodes of its spec and before the next spec.  It
\* is run, unless a second interrupt came before.
CleanupsRunOnce ==
  /\ main.pc = "exited" => \E n \in Specs: body[n].leaked
  /\ ~LeakedPush =>
       /\ IsInjective(ran)
       /\ \A c \in Range(cleanupNodes): c.owner = It(c.by) /\ c.by = currentSpecReport.spec
       /\ \A n \in DOMAIN reports: ~body[n].leaked /\ status.level < 2 =>
            \A k \in 1..body[n].calls: body[n].program[k] = "DeferCleanup" =>
              <<n, k>> \in Range(ran)
       /\ \A i, j \in DOMAIN ran: i < j /\ ran[i][1] = ran[j][1] => ran[i][2] > ran[j][2]

\* Every progress report that was asked for is finished, whatever the attached
\* reporters do: one that waits for the lock its own caller holds delays the
\* suite for no longer than the deadline.
ReportsReturn ==
  \A g \in Generators: gen[g].pc # "idle" ~> (gen[g].pc = "idle" \/ Ended)
=============================================================================
