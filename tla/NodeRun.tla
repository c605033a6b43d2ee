------------------------------ MODULE NodeRun -------------------------------
(***************************************************************************)
(* Suite.runNode (internal/suite.go) and the Failer: the suite's goroutine *)
(* runs one node after the other, each body in a goroutine of its own, and *)
(* waits for the body, a deadline, the end of a grace period or an         *)
(* interrupt.  A body that does not come back in time is leaked: it goes   *)
(* on running and shares the Failer with the bodies that follow.           *)
(*                                                                         *)
(* Time is a counter, and passes only while a timer is running.  A timer   *)
(* that is due fires, and an interrupt is taken note of, before time moves *)
(* on; among the cases of the select that are ready at the same time any   *)
(* one may be chosen.                                                      *)
(***************************************************************************)
EXTENDS Interrupts, Integers, Sequences

CONSTANTS
  Plans,     \* what is run: sequences of nodes and the deadlines over them
  Endings,   \* how a body may end (see BodyEnd)
  MaxLevel   \* bound on the interrupts

NodeKinds == {"main", "cleanup", "report"}
NodeType  == [kind: NodeKinds, hasContext: BOOLEAN, nodeTimeout: Nat,
              gracePeriod: Nat]
PlanType  == [nodes: Seq(NodeType), suiteDeadline: Nat, specDeadline: Nat]

ASSUME NodeRunAssumption ==
  /\ \A plan \in Plans: plan \in PlanType
  /\ Endings \subseteq {"passed", "failed", "skipped", "aborted", "panicked"}
  /\ MaxLevel \in Levels

NoTimer == -1
Failures == {"failed", "panicked", "aborted", "timedout", "interrupted"}

VARIABLES
  plan,        \* never changes; a deadline of 0 is time.Time{}: none
  now,
  k,           \* the node being run, or the next one
  main,        \* the suite's goroutine: between nodes or in the select
  outcome,     \* runNode's local variable
  deadline, grace,  \* when deadlineChannel and gracePeriodChannel fire
  seen,        \* level and channel of interruptStatus
  started,     \* when the node was started, and whether time was up by then
  cancelledAt, \* when the SpecContext was cancelled
  body,        \* the goroutine of each node
  own,         \* what the body of each node recorded first
  failer,      \* Failer.state
  sent,        \* what each goroutine drained from the Failer
  result,      \* what runNode returned
  additional   \* its AdditionalFailure

nodeVars == <<outcome, deadline, grace, seen, started, cancelledAt>>
bodyVars == <<body, own, failer, sent>>
vars     == <<ivars, plan, now, k, main, nodeVars, bodyVars, result, additional>>

Runs    == 1..Len(plan.nodes)
Node    == plan.nodes[k]
InPlan  == k <= Len(plan.nodes)

Init ==
  /\ InterruptsInit
  /\ plan \in Plans
  /\ now = 1 /\ k = 1 /\ main = "idle"
  /\ outcome = "invalid"
  /\ deadline = NoTimer /\ grace = NoTimer /\ cancelledAt = NoTimer
  /\ seen = [level |-> Uninterrupted, ch |-> 0]
  /\ started = [at |-> 0, outOfTime |-> FALSE]
  /\ body = [n \in Runs |-> "none"]
  /\ own = [n \in Runs |-> "passed"] /\ sent = [n \in Runs |-> "passed"]
  /\ failer = "passed"
  /\ result = [n \in Runs |-> "none"] /\ additional = [n \in Runs |-> "passed"]

-----------------------------------------------------------------------------
(* Starting a node                                                         *)

\* Which nodes the interrupt level forbids.
Gated(kind) ==
  \/ level = BailOut
  \/ level = ReportOnly /\ kind # "report"
  \/ level = CleanupAndReport /\ kind \notin {"report", "cleanup"}

\* Variant: the later of the two deadlines.
LaterDeadline ==
  IF plan.suiteDeadline = 0
     \/ (plan.specDeadline # 0 /\ plan.specDeadline > plan.suiteDeadline)
  THEN plan.specDeadline ELSE plan.suiteDeadline

\* The suite's deadline, the spec's if it comes first, the node's own timeout
\* if it comes before either; out of time or interrupted already, the node
\* gets its timeout or, if it has none, a grace period.
SpecOrSuiteDeadline ==
  IF plan.suiteDeadline = 0
     \/ (plan.specDeadline # 0 /\ plan.specDeadline < plan.suiteDeadline)
  THEN plan.specDeadline ELSE plan.suiteDeadline
FirstDeadline(node) ==
  LET d == SpecOrSuiteDeadline IN
  IF node.nodeTimeout > 0 /\ (d = 0 \/ d - now > node.nodeTimeout)
  THEN now + node.nodeTimeout ELSE d
OutOfTime(node) ==
  \/ FirstDeadline(node) # 0 /\ FirstDeadline(node) < now
  \/ level # Uninterrupted
Deadline(node) ==
  IF OutOfTime(node)
  THEN now + (IF node.nodeTimeout > 0 THEN node.nodeTimeout ELSE node.gracePeriod)
  ELSE IF FirstDeadline(node) = 0 THEN NoTimer ELSE FirstDeadline(node)

\* A body without a context cannot be asked to stop: no grace.
GracePeriod(node) == IF node.hasContext THEN node.gracePeriod ELSE 0

SkipNode ==
  /\ main = "idle" /\ InPlan /\ Gated(Node.kind)
  /\ result' = [result EXCEPT ![k] = "skipped"]
  /\ k' = k + 1
  /\ UNCHANGED <<ivars, plan, now, main, nodeVars, bodyVars, additional>>

StartNode ==
  /\ main = "idle" /\ InPlan /\ ~Gated(Node.kind)
  /\ main' = "select"
  /\ outcome' = "invalid"
  /\ deadline' = Deadline(Node)
  /\ grace' = NoTimer /\ cancelledAt' = NoTimer
  /\ seen' = [level |-> level, ch |-> c]
  /\ started' = [at |-> now, outOfTime |-> OutOfTime(Node)]
  /\ body' = [body EXCEPT ![k] = "running"]
  /\ UNCHANGED <<ivars, plan, now, k, own, failer, sent, result, additional>>

-----------------------------------------------------------------------------
(* The goroutine of a node and the Failer, which keeps the first report.   *)

Record(state) == failer' = IF failer = "passed" THEN state ELSE failer
Own(n, state) == own' = [own EXCEPT ![n] = IF @ = "passed" THEN state ELSE @]

\* A helper goroutine of the body calls Fail, under GinkgoRecover.
HelperFails(n) ==
  /\ body[n] = "running" /\ own[n] = "passed" /\ "failed" \in Endings
  /\ Record("failed") /\ Own(n, "failed")
  /\ UNCHANGED <<ivars, plan, now, k, main, nodeVars, body, sent, result,
                 additional>>

\* The body returns; or it calls Fail, Skip or AbortSuite, which record and
\* then panic; or it just panics.
BodyEnd(n, how) ==
  /\ body[n] = "running"
  /\ IF how \in {"passed", "panicked"} THEN UNCHANGED failer ELSE Record(how)
  /\ Own(n, how)
  /\ body' = [body EXCEPT ![n] = IF how = "passed" THEN "drain" ELSE "panicking"]
  /\ UNCHANGED <<ivars, plan, now, k, main, nodeVars, sent, result, additional>>

\* The deferred function: record the panic, if nothing else was, ...
Recover(n) ==
  /\ body[n] = "panicking"
  /\ Record("panicked")
  /\ body' = [body EXCEPT ![n] = "drain"]
  /\ UNCHANGED <<ivars, plan, now, k, main, nodeVars, own, sent, result,
                 additional>>

\* Variant of Drain: the Failer is not reset.
DrainNoReset(n) ==
  /\ body[n] = "drain"
  /\ sent' = [sent EXCEPT ![n] = failer]
  /\ body' = [body EXCEPT ![n] = "send"]
  /\ UNCHANGED <<ivars, plan, now, k, main, nodeVars, own, failer, result, additional>>

\* ... then take what the Failer holds, and reset it.
Drain(n) ==
  /\ body[n] = "drain"
  /\ sent' = [sent EXCEPT ![n] = failer]
  /\ failer' = "passed"
  /\ body' = [body EXCEPT ![n] = "send"]
  /\ UNCHANGED <<ivars, plan, now, k, main, nodeVars, own, result, additional>>

-----------------------------------------------------------------------------
(* The select loop                                                         *)

\* runNode returns; a body that has not delivered is leaked.
Return(state) ==
  /\ result' = [result EXCEPT ![k] = state]
  /\ main' = "idle"
  /\ k' = k + 1
  /\ UNCHANGED nodeVars

\* outcomeC and failureC: a timeout or an interrupt stands, and what the body
\* recorded is attached to it.
Deliver ==
  /\ main = "select" /\ body[k] = "send"
  /\ body' = [body EXCEPT ![k] = "gone"]
  /\ IF outcome # "invalid"
       THEN /\ additional' = [additional EXCEPT ![k] = sent[k]]
            /\ Return(outcome)
       ELSE /\ Return(sent[k])
            /\ UNCHANGED additional
  /\ UNCHANGED <<ivars, plan, now, own, failer, sent>>

GraceElapsed ==
  /\ main = "select" /\ grace # NoTimer /\ now >= grace
  /\ Return(outcome)
  /\ UNCHANGED <<ivars, plan, now, bodyVars, additional>>

DeadlineElapsed ==
  /\ main = "select" /\ deadline # NoTimer /\ now >= deadline
  /\ outcome' = "timedout"
  /\ deadline' = NoTimer
  /\ cancelledAt' = IF cancelledAt = NoTimer THEN now ELSE cancelledAt
  /\ grace' = now + GracePeriod(Node)
  /\ UNCHANGED <<ivars, plan, now, k, main, seen, started, bodyVars, result,
                 additional>>

\* Cleanup and reporting are not disturbed by an abort of another process.
\* (Variant: nor by a signal.)
UndisturbedBySignals == Node.kind \in {"cleanup", "report"}
Undisturbed == cause = "abort" /\ Node.kind \in {"cleanup", "report"}

\* A body has one grace period in all, and none after the last interrupt.
\* (Variant: every interrupt but the last starts one.)
NoGraceAtLast == level = BailOut
NoGraceLeft   == level = BailOut \/ grace # NoTimer

\* The channel of the status is closed: take a new status and act on it.
InterruptSeen ==
  /\ main = "select" /\ IsClosed(seen.ch)
  /\ seen' = [level |-> level, ch |-> c]
  /\ IF Undisturbed
     THEN UNCHANGED <<k, main, outcome, deadline, grace, cancelledAt, result>>
     ELSE LET state == IF outcome = "invalid" THEN "interrupted" ELSE outcome IN
          /\ deadline' = NoTimer
          /\ outcome' = state
          /\ cancelledAt' = IF cancelledAt = NoTimer THEN now ELSE cancelledAt
          /\ IF NoGraceLeft
             THEN /\ result' = [result EXCEPT ![k] = state]
                  /\ main' = "idle"
                  /\ k' = k + 1
                  /\ UNCHANGED grace
             ELSE /\ grace' = now + GracePeriod(Node)
                  /\ UNCHANGED <<k, main, result>>
  /\ UNCHANGED <<ivars, plan, now, started, bodyVars, additional>>

-----------------------------------------------------------------------------
(* The environment                                                         *)

SendSignal ==
  /\ InPlan /\ level < MaxLevel
  /\ Signal
  /\ UNCHANGED <<plan, now, k, main, nodeVars, bodyVars, result, additional>>

OtherProcessAborts ==
  /\ InPlan /\ level < MaxLevel
  /\ Abort
  /\ UNCHANGED <<plan, now, k, main, nodeVars, bodyVars, result, additional>>

Urgent ==
  /\ main = "select"
  /\ \/ grace # NoTimer /\ now >= grace
     \/ deadline # NoTimer /\ now >= deadline
     \/ IsClosed(seen.ch)

Tick ==
  /\ main = "select" /\ ~Urgent
  /\ grace # NoTimer \/ deadline # NoTimer
  /\ now' = now + 1
  /\ UNCHANGED <<ivars, plan, k, main, nodeVars, bodyVars, result, additional>>

\* The plan is done; leaked bodies do not matter any more.
Done == ~InPlan /\ UNCHANGED vars

-----------------------------------------------------------------------------
Suite == SkipNode \/ StartNode \/ Deliver \/ GraceElapsed \/ DeadlineElapsed
         \/ InterruptSeen

Next ==
  \/ SkipNode
  \/ StartNode
  \/ Deliver
  \/ GraceElapsed
  \/ DeadlineElapsed
  \/ InterruptSeen
  \/ \E n \in Runs:
       \/ HelperFails(n)
       \/ \E how \in Endings: BodyEnd(n, how)
       \/ Recover(n)
       \/ Drain(n)
  \/ SendSignal
  \/ OtherProcessAborts
  \/ Tick
  \/ Done

Spec == Init /\ [][Next]_vars

\* The suite's goroutine is scheduled and time passes; bodies may hang.
FairSpec == Spec /\ WF_vars(Suite) /\ WF_vars(Tick)

-----------------------------------------------------------------------------
(* Properties                                                              *)

Leaked(n) == result[n] # "none" /\ body[n] \notin {"none", "gone"}

\* As long as no node has leaked, what runNode returns is what the body
\* recorded first, or a timeout or an interrupt with it attached: nothing a
\* body reports gets lost or lands in another node, whatever fired first.
ResultIsOwn ==
  \A n \in Runs:
    result[n] # "none" /\ body[n] = "gone" /\ (\A m \in 1..(n - 1): ~Leaked(m))
      => \/ result[n] = own[n]
         \/ result[n] \in {"timedout", "interrupted"} /\ additional[n] = own[n]

\* A body that was told to stop gets its grace period once, however timeouts
\* and interrupts mix, and then the suite moves on.
OneGracePeriod ==
  main = "select" /\ cancelledAt # NoTimer
    => now <= cancelledAt + GracePeriod(Node)

\* How long a node may keep the suite waiting according to docs/index.md
\* ("The Life-cycle of Interruptions"): its first deadline and a grace period;
\* out of time already, its NodeTimeout (or else a grace period) and a grace
\* period, the latter only if it is interruptible.
LongestRun(node) ==
  LET extra == IF node.hasContext THEN node.gracePeriod ELSE 0
      own_  == IF node.nodeTimeout > 0 THEN {started.at + node.nodeTimeout} ELSE {}
      outer == {plan.suiteDeadline, plan.specDeadline} \ {0}
  IN IF started.outOfTime
       THEN {started.at + extra + (IF node.nodeTimeout > 0
                                   THEN node.nodeTimeout ELSE node.gracePeriod)}
       ELSE {d + extra: d \in own_ \union outer}

\* No deadline is overrun: of the suite's, the spec's and the node's own the
\* earliest one counts, and it is never put off by an interrupt.
DeadlineKept == main = "select" => \A t \in LongestRun(Node): now <= t

\* A signal ends the running node, also one whose body hangs.
SignalEndsNode ==
  \A n \in 1..2:
    (main = "select" /\ k = n /\ IsClosed(seen.ch) /\ cause = "signal")
      ~> (k # n)

\* A body that calls Fail fails its node (core_dsl.go: "Fail notifies Ginkgo
\* that the current spec has failed").
FailIsReported ==
  \A n \in Runs:
    result[n] # "none" /\ body[n] = "gone" /\ own[n] = "failed"
      => result[n] \in Failures
=============================================================================
