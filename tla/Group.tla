------------------------------- MODULE Group --------------------------------
(***************************************************************************)
(* internal/group.go: a group of specs, which is one spec or the specs of  *)
(* an outermost Ordered container, is run by one process in order.  A spec *)
(* is attempted once or several times; an attempt runs the setup nodes,    *)
(* the subject and then the cleanup nodes.  A node may be tied to a        *)
(* container, in which it is to run once only ("run-once pair"): whether   *)
(* it runs now is decided anew for every spec, from the outcome so far.    *)
(*                                                                         *)
(* Running a node is one step here (NodeRun has its details): it is held   *)
(* back by the interrupt level or ends in one of Outcomes, where "failed"  *)
(* stands for Failed, Panicked and Timedout, which group.go treats alike.  *)
(***************************************************************************)
EXTENDS Integers, Sequences, FiniteSets, TLC, SequencesExt

CONSTANTS
  Groups,     \* what is run: the specs and the configuration (see GroupType)
  CalmGroups, \* those that are neither interrupted nor aborted nor timed out
  Outcomes,   \* how a body may end
  MaxSignals, \* bound on the interrupts
  Deadline,   \* whether the suite has a deadline that may pass
  FirstCleanupID  \* UniqueNodeID, once the tree has been built

Setup    == {"BeforeAll", "BeforeEach", "JustBeforeEach"}
Teardown == {"JustAfterEach", "AfterEach", "AfterAll"}
Cleanups == {"CleanupAfterEach", "CleanupAfterAll"}
Reports  == {"ReportBeforeEach", "ReportAfterEach"}
NodeType == Setup \union Teardown \union Cleanups \union Reports
            \union {"Container", "It"}

\* once: MarkedOncePerOrdered; defers: the body may call DeferCleanup; from:
\* NodeIDWhereCleanupWasGenerated; ordered, continueOnFailure: of containers.
Node  == [id: Nat, type: NodeType, level: Nat, once: BOOLEAN, defers: BOOLEAN,
          from: Nat, ordered: BOOLEAN, continueOnFailure: BOOLEAN]
\* flakes, repeats: the innermost FlakeAttempts and MustPassRepeatedly.
Spec_ == [nodes: Seq(Node), skip: BOOLEAN, pending: BOOLEAN, flakes: Nat,
          repeats: Nat]
GroupType == [specs: Seq(Spec_), flakes: Nat, repeats: Nat, failFast: BOOLEAN,
              dryRun: BOOLEAN]

NodesOf(spec)    == {spec.nodes[x]: x \in DOMAIN spec.nodes}
Containers(spec) == {n \in NodesOf(spec): n.type = "Container"}

\* The nodes of the specs are those of a tree: an ID stands for one node, a
\* spec has its nodes once and a subject, BeforeAll is in one container.
FromTree(g) ==
  /\ \A j \in DOMAIN g.specs:
       /\ IsInjective(g.specs[j].nodes)
       /\ \E n \in NodesOf(g.specs[j]): n.type = "It"
       /\ \A n \in NodesOf(g.specs[j]):
            /\ n.id > 0 /\ n.id < FirstCleanupID /\ n.type \notin Cleanups
            /\ n.type = "BeforeAll" =>
                 \E cont \in Containers(g.specs[j]): cont.level = n.level - 1
  /\ \A j, k \in DOMAIN g.specs: \A m \in NodesOf(g.specs[j]), n \in NodesOf(g.specs[k]):
       /\ m.id = n.id => m = n
       /\ m.type = "BeforeAll" /\ m = n =>
            \A c \in Containers(g.specs[j]), d \in Containers(g.specs[k]):
              c.level = m.level - 1 /\ d.level = m.level - 1 => c = d

\* A pending spec is marked as skipped (focus.go).
ASSUME GroupAssumption ==
  /\ \A g \in Groups:
       /\ g \in GroupType /\ FromTree(g)
       /\ \A j \in DOMAIN g.specs: g.specs[j].pending => g.specs[j].skip
  /\ FirstCleanupID \in Nat
  /\ Outcomes \subseteq {"passed", "failed", "skipped", "aborted", "interrupted"}
  /\ CalmGroups \subseteq Groups /\ MaxSignals \in Nat /\ Deadline \in BOOLEAN

NoNode  == [id |-> 0]
NoPair  == <<0, 0>>
Failures == {"failed", "aborted", "interrupted"}
States   == Failures \union {"passed", "skipped", "pending", "invalid"}

VARIABLES
  group,      \* never changes
  i,          \* the spec being run
  pc,
  queue,      \* the nodes the current loop still has to run
  state,      \* currentSpecReport.State
  attempt,
  terminating,          \* the setup node or subject that ended the attempt
  onceBeforeFailed,     \* the local failedInARunOnceBefore
  afterNodeWasRun,
  tracker,    \* runOnceTracker
  cleanupNodes,
  succeeded, failedInARunOnceBefore, skipAll,
  level, outOfTime,     \* the interrupt level, the suite's deadline
  reports,    \* the final state of each spec
  log         \* the bodies that ran, in order

loopVars  == <<queue, terminating, onceBeforeFailed, afterNodeWasRun>>
groupVars == <<succeeded, failedInARunOnceBefore, skipAll, reports>>
envVars   == <<level, outOfTime>>
vars == <<group, i, pc, state, attempt, loopVars, tracker, cleanupNodes,
          groupVars, envVars, log>>

-----------------------------------------------------------------------------
(* Nodes of a spec                                                         *)

\* The elements of s at the positions P, in the order whose pairs are R: the
\* k-th is the one that has k positions up to its own.
Arranged(s, P, R) ==
  [k \in 1..Cardinality(P) |-> s[CHOOSE x \in P: Cardinality({y \in P: <<y, x>> \in R}) = k]]

\* The elements of s at the positions P, as they are in s.
Kept(s, P) == Arranged(s, P, {r \in P \X P: r[1] <= r[2]})
WithType(nodes, types) == Kept(nodes, {x \in DOMAIN nodes: nodes[x].type \in types})

\* Sorted by level; nodes of a level stay as they are.
Pairs(nodes) == (DOMAIN nodes) \X (DOMAIN nodes)
InLevel(nodes, r) == nodes[r[1]].level = nodes[r[2]].level /\ r[1] <= r[2]
Ascending(nodes) ==
  Arranged(nodes, DOMAIN nodes,
    {r \in Pairs(nodes): nodes[r[1]].level < nodes[r[2]].level \/ InLevel(nodes, r)})
Descending(nodes) ==
  Arranged(nodes, DOMAIN nodes,
    {r \in Pairs(nodes): nodes[r[1]].level > nodes[r[2]].level \/ InLevel(nodes, r)})

Subject(spec) == CHOOSE n \in NodesOf(spec): n.type = "It"

SetupNodes(spec) ==
  Ascending(WithType(spec.nodes, {"BeforeAll"}) \o WithType(spec.nodes, {"BeforeEach"}))
  \o Ascending(WithType(spec.nodes, {"JustBeforeEach"}))
  \o <<Subject(spec)>>
TeardownNodes(spec) ==
  Descending(WithType(spec.nodes, {"JustAfterEach"}))
  \o Descending(WithType(spec.nodes, {"AfterEach"}) \o WithType(spec.nodes, {"AfterAll"}))

-----------------------------------------------------------------------------
(* Run-once pairs: a node and the container it runs once for               *)

\* The containers of a spec that a OncePerOrdered node runs once for: those at
\* its level or deeper that are ordered or lie in an ordered one.
OrderedBelow(spec, node) ==
  {cont \in Containers(spec):
     /\ cont.level >= node.level
     /\ \E o \in Containers(spec): o.ordered /\ o.level <= cont.level}

IsRunOnce(spec, node) ==
  \/ node.type \in {"BeforeAll", "AfterAll"}
  \/ /\ node.type \in {"BeforeEach", "JustBeforeEach", "AfterEach", "JustAfterEach"}
     /\ node.once /\ OrderedBelow(spec, node) # {}

RunOncePairForNode(spec, node) ==
  LET conts == IF node.type \in {"BeforeAll", "AfterAll"}
               THEN {cont \in Containers(spec): cont.level = node.level - 1}
               ELSE OrderedBelow(spec, node)
      first == CHOOSE cont \in conts: \A d \in conts: cont.level <= d.level
  IN <<node.id, first.id>>

RunOncePairsForSpec(spec) ==
  {RunOncePairForNode(spec, n): n \in {m \in NodesOf(spec): IsRunOnce(spec, m)}}

RunOncePairFor(spec, id) ==
  LET found == {p \in RunOncePairsForSpec(spec): p[1] = id}
  IN IF found = {} THEN NoPair ELSE CHOOSE p \in found: TRUE

AllPairs == UNION {RunOncePairsForSpec(group.specs[j]): j \in DOMAIN group.specs}

Current == group.specs[i]
ContinueOnFailure ==
  \E cont \in Containers(group.specs[1]):
    /\ cont.ordered /\ cont.continueOnFailure
    /\ \A o \in Containers(group.specs[1]): o.ordered => cont.level <= o.level

\* Is spec i the last one that is not skipped and has the pair?
\* (Variant: skipped specs count.)
IsLastCountingSkipped(pair) ==
  \A j \in DOMAIN group.specs:
    pair \in RunOncePairsForSpec(group.specs[j]) => j <= i
IsLastSpecWithPair(pair) ==
  \A j \in DOMAIN group.specs:
    ~group.specs[j].skip /\ pair \in RunOncePairsForSpec(group.specs[j]) => j <= i

-----------------------------------------------------------------------------
Init ==
  /\ group \in Groups
  /\ i = 1 /\ pc = "next" /\ queue = <<>>
  /\ state = "invalid" /\ attempt = 0
  /\ terminating = NoNode /\ onceBeforeFailed = FALSE /\ afterNodeWasRun = {}
  /\ tracker = [p \in AllPairs |-> "invalid"]
  /\ cleanupNodes = <<>>
  /\ succeeded = TRUE /\ failedInARunOnceBefore = FALSE /\ skipAll = FALSE
  /\ level = 0 /\ outOfTime = FALSE
  /\ reports = [j \in DOMAIN group.specs |-> "invalid"]
  /\ log = <<>>

-----------------------------------------------------------------------------
(* Suite.runNode, as far as the group sees it                              *)

\* Nodes the interrupt level forbids are skipped (types.go).
Held(node) ==
  \/ level = 3
  \/ level = 2 /\ node.type \notin Reports
  \/ level = 1 /\ node.type \notin Reports \union Teardown \union Cleanups

\* Suite.pushCleanupNode: a cleanup inherits the place of the running node.
PushCleanupNode(node) ==
  [id |-> FirstCleanupID + Len(log), level |-> node.level, from |-> node.id,
   type |-> IF node.type \in {"BeforeAll", "AfterAll"}
            THEN "CleanupAfterAll" ELSE "CleanupAfterEach",
   once |-> FALSE, defers |-> FALSE, ordered |-> FALSE, continueOnFailure |-> FALSE]

RunNode(node, how, defer) ==
  LET left == Kept(cleanupNodes, {x \in DOMAIN cleanupNodes: cleanupNodes[x].id # node.id}) IN
  IF Held(node)
  THEN /\ how = "skipped" /\ ~defer
       /\ cleanupNodes' = left
       /\ UNCHANGED <<level, log>>
  ELSE /\ how \in Outcomes
       /\ how \in {"aborted", "interrupted"} => group \notin CalmGroups
       /\ how = "interrupted" => level < MaxSignals
       /\ defer => node.defers
       /\ cleanupNodes' = IF defer THEN Append(left, PushCleanupNode(node)) ELSE left
       /\ level' = IF how = "interrupted" THEN level + 1 ELSE level
       /\ log' = Append(log, [id |-> node.id, type |-> node.type, spec |-> i,
                              attempt |-> attempt, state |-> how])

-----------------------------------------------------------------------------
(* group.run: the specs one by one                                         *)

EvaluateSkipStatus(spec) ==
  LET beforeOnce == {RunOncePairForNode(spec, n): n \in
                       {m \in NodesOf(spec): m.type \in Setup /\ IsRunOnce(spec, m)}}
  IN IF spec.pending THEN "pending"
     ELSE IF \/ spec.skip
             \/ level > 0 \/ skipAll
             \/ outOfTime
             \/ ~succeeded /\ ~ContinueOnFailure
             \/ failedInARunOnceBefore /\ ContinueOnFailure
             \/ \E p \in beforeOnce: tracker[p] = "skipped"
     THEN "skipped"
     ELSE IF group.dryRun THEN "passed" ELSE "invalid"

BeginSpec ==
  /\ pc = "next" /\ i <= Len(group.specs)
  /\ state' = EvaluateSkipStatus(Current)
  /\ attempt' = 0
  /\ queue' = Ascending(WithType(Current.nodes, {"ReportBeforeEach"}))
  /\ onceBeforeFailed' = FALSE
  /\ pc' = "reportBefore"
  /\ UNCHANGED <<group, i, terminating, afterNodeWasRun, tracker, cleanupNodes,
                 groupVars, envVars, log>>

\* Suite.reportEach: a failing reporter fails the spec, unless it has failed.
ReportNode(how) ==
  /\ pc \in {"reportBefore", "reportAfter"} /\ queue # <<>>
  /\ RunNode(Head(queue), how, FALSE)
  /\ state' = IF (state \notin Failures /\ how \in Failures) \/ how = "aborted"
              THEN how ELSE state
  /\ queue' = Tail(queue)
  /\ UNCHANGED <<group, i, pc, attempt, terminating, onceBeforeFailed,
                 afterNodeWasRun, tracker, groupVars, outOfTime>>

ReportAfter ==
  /\ pc' = "reportAfter"
  /\ queue' = Descending(WithType(Current.nodes, {"ReportAfterEach"}))

RunOrSkip ==
  /\ pc = "reportBefore" /\ queue = <<>>
  /\ IF group.dryRun \/ state \in Failures \union {"skipped", "pending"}
     THEN ReportAfter
     ELSE pc' = "attempt" /\ UNCHANGED queue
  /\ UNCHANGED <<group, i, state, attempt, terminating, onceBeforeFailed,
                 afterNodeWasRun, tracker, cleanupNodes, groupVars, envVars, log>>

\* currentSpecReport.MaxMustPassRepeatedly and MaxFlakeAttempts
MaxMustPassRepeatedly ==
  IF group.repeats > 0 THEN group.repeats ELSE Current.repeats
MaxFlakeAttempts ==
  IF MaxMustPassRepeatedly = 0 /\ group.flakes > 0
  THEN group.flakes ELSE Current.flakes
MaxAttempts ==
  IF MaxMustPassRepeatedly > 0 THEN MaxMustPassRepeatedly
  ELSE IF MaxFlakeAttempts > 0 THEN MaxFlakeAttempts ELSE 1

EnoughAttempts ==
  \/ attempt = MaxAttempts
  \/ MaxMustPassRepeatedly > 0 /\ state \in Failures \union {"skipped"}
  \/ MaxFlakeAttempts > 0 /\ state \in {"passed", "skipped", "aborted", "interrupted"}

EndAttempt ==
  /\ pc = "endAttempt"
  /\ IF EnoughAttempts THEN ReportAfter ELSE pc' = "attempt" /\ UNCHANGED queue
  /\ UNCHANGED <<group, i, state, attempt, terminating, onceBeforeFailed,
                 afterNodeWasRun, tracker, cleanupNodes, groupVars, envVars, log>>

\* Suite.processCurrentSpecReport, and what the group remembers.
EndSpec ==
  /\ pc = "reportAfter" /\ queue = <<>>
  /\ reports' = [reports EXCEPT ![i] = state]
  /\ skipAll' = (skipAll \/ (state \in Failures /\ (group.failFast \/ state = "aborted")))
  /\ succeeded' = (succeeded /\ state \notin Failures)
  /\ failedInARunOnceBefore' =
       (failedInARunOnceBefore \/ (state \in Failures /\ onceBeforeFailed))
  /\ i' = i + 1
  /\ pc' = "next"
  /\ UNCHANGED <<group, state, attempt, loopVars, tracker, cleanupNodes, envVars, log>>

-----------------------------------------------------------------------------
(* group.attemptSpec                                                       *)

\* A setup node that has passed for its container is not run again.
\* (Variant: it is.)
StillToRunAll(spec) == SetupNodes(spec)
StillToRun(spec) ==
  LET nodes   == SetupNodes(spec)
      Due(n)  == LET p == RunOncePairFor(spec, n.id) IN p = NoPair \/ tracker[p] # "passed"
  IN Kept(nodes, {x \in DOMAIN nodes: Due(nodes[x])})

StartAttempt ==
  /\ pc = "attempt"
  /\ attempt' = attempt + 1
  /\ queue' = StillToRun(Current)
  /\ terminating' = NoNode /\ onceBeforeFailed' = FALSE /\ afterNodeWasRun' = {}
  /\ pc' = "setup"
  /\ UNCHANGED <<group, i, state, tracker, cleanupNodes, groupVars, envVars, log>>

SetupNode(how, defer) ==
  /\ pc = "setup" /\ queue # <<>>
  /\ LET node == Head(queue)
         pair == RunOncePairFor(Current, node.id)
     IN /\ RunNode(node, how, defer)
        /\ state' = how
        /\ tracker' = IF pair = NoPair THEN tracker ELSE [tracker EXCEPT ![pair] = how]
        /\ IF how = "passed"
           THEN queue' = Tail(queue) /\ UNCHANGED <<terminating, onceBeforeFailed>>
           ELSE /\ queue' = <<>>
                /\ terminating' = node
                /\ onceBeforeFailed' = (pair # NoPair)
  /\ UNCHANGED <<group, i, pc, attempt, afterNodeWasRun, groupVars, outOfTime>>

TerminatingPair ==
  IF terminating = NoNode THEN NoPair ELSE RunOncePairFor(Current, terminating.id)

\* The pair that governs a teardown node; a cleanup goes with the node that
\* deferred it.
GoverningPair(node) ==
  RunOncePairFor(Current, IF node.type \in Cleanups THEN node.from ELSE node.id)

\* After a failure: at the last attempt, unless other specs follow; before a
\* setup node that failed is run again, what undoes it.
\* (Variant: ContinueOnFailure makes no difference.)
RunAfterFailureAtOnce(node) == attempt = MaxAttempts
RunAfterFailure(node) ==
  IF attempt = MaxAttempts
  THEN \/ ~ContinueOnFailure
       \/ IsLastSpecWithPair(GoverningPair(node)) \/ onceBeforeFailed
  ELSE /\ TerminatingPair # NoPair
       /\ IF node.type \in Cleanups THEN terminating.id = node.from
          ELSE terminating.level = node.level

\* Does a node of a run-once pair run now?
LastChance(node) ==
  CASE state = "passed" -> IsLastSpecWithPair(GoverningPair(node))
    [] state = "skipped" ->
         \/ IsLastSpecWithPair(GoverningPair(node))
         \/ TerminatingPair # NoPair /\ terminating.level = node.level
    [] state = "failed" -> RunAfterFailure(node)
    [] state \in {"interrupted", "aborted"} -> TRUE
    [] OTHER -> FALSE

\* (Variant: a node that has run in this attempt is not left out.)
ShouldRunAgain(node) ==
  \/ node.type \in Cleanups /\ node.from \in afterNodeWasRun
  \/ GoverningPair(node) = NoPair
  \/ LastChance(node)
ShouldRun(node) ==
  /\ node.id \notin afterNodeWasRun
  /\ \/ node.type \in Cleanups /\ node.from \in afterNodeWasRun
     \/ GoverningPair(node) = NoPair
     \/ LastChance(node)

\* The teardown nodes that are no deeper than the node that ended the attempt.
InReach ==
  LET nodes == TeardownNodes(Current)
  IN Kept(nodes, {x \in DOMAIN nodes: terminating = NoNode
                                      \/ nodes[x].level <= terminating.level})

\* Variant of NodesToRun: cleanups deferred by the nodes of an attempt only.
NodesToRunOfAttempt(includeDeferCleanups) ==
  LET deferred == {x \in DOMAIN cleanupNodes: GoverningPair(cleanupNodes[x]) = NoPair}
      nodes    == IF includeDeferCleanups THEN InReach \o Reverse(Kept(cleanupNodes, deferred))
                  ELSE InReach
  IN Kept(nodes, {x \in DOMAIN nodes: ShouldRun(nodes[x])})

\* The nodes of a pass of the loop: the teardown nodes at first, and until
\* there are none left whatever has been deferred.
NodesToRun(includeDeferCleanups) ==
  LET deferred == Reverse(WithType(cleanupNodes, {"CleanupAfterEach"}))
                  \o Reverse(WithType(cleanupNodes, {"CleanupAfterAll"}))
      nodes    == IF includeDeferCleanups THEN InReach \o deferred ELSE InReach
  IN Kept(nodes, {x \in DOMAIN nodes: ShouldRun(nodes[x])})

SelectTeardown ==
  /\ pc \in {"setup", "teardown"} /\ queue = <<>>
  /\ LET nodes == NodesToRun(pc = "teardown") IN
     /\ queue' = nodes
     /\ pc' = IF nodes = <<>> /\ pc = "teardown" THEN "endAttempt" ELSE "teardown"
  /\ UNCHANGED <<group, i, state, attempt, terminating, onceBeforeFailed,
                 afterNodeWasRun, tracker, cleanupNodes, groupVars, envVars, log>>

\* A teardown node decides the state of a spec that has passed so far, and an
\* abort always does. (Variant: only an abort does.)
StateAfterTeardownAbortOnly(how) == IF how = "aborted" THEN how ELSE state
StateAfterTeardown(how) == IF state = "passed" \/ how = "aborted" THEN how ELSE state

TeardownNode(how, defer) ==
  /\ pc = "teardown" /\ queue # <<>>
  /\ RunNode(Head(queue), how, defer)
  /\ afterNodeWasRun' = afterNodeWasRun \union {Head(queue).id}
  /\ state' = StateAfterTeardown(how)
  /\ queue' = Tail(queue)
  /\ UNCHANGED <<group, i, pc, attempt, terminating, onceBeforeFailed, tracker,
                 groupVars, outOfTime>>

-----------------------------------------------------------------------------
(* The environment                                                         *)

Running == i <= Len(group.specs)

\* A signal between two nodes; one during a node is an outcome of RunNode.
Signal ==
  /\ Running /\ level < MaxSignals /\ group \notin CalmGroups
  /\ level' = level + 1
  /\ UNCHANGED <<group, i, pc, state, attempt, loopVars, tracker, cleanupNodes,
                 groupVars, outOfTime, log>>

DeadlinePasses ==
  /\ Running /\ Deadline /\ ~outOfTime /\ group \notin CalmGroups
  /\ outOfTime' = TRUE
  /\ UNCHANGED <<group, i, pc, state, attempt, loopVars, tracker, cleanupNodes,
                 groupVars, level, log>>

Done == ~Running /\ UNCHANGED vars

Next ==
  \/ BeginSpec
  \/ RunOrSkip
  \/ StartAttempt
  \/ SelectTeardown
  \/ EndAttempt
  \/ EndSpec
  \/ \E how \in Outcomes \union {"skipped"}:
       \/ ReportNode(how)
       \/ \E defer \in BOOLEAN: SetupNode(how, defer) \/ TeardownNode(how, defer)
  \/ Signal
  \/ DeadlinePasses
  \/ Done

Spec == Init /\ [][Next]_vars

-----------------------------------------------------------------------------
(* Properties                                                              *)

\* The specs of the container that an AfterAll node belongs to
SpecsAround(after) ==
  {j \in DOMAIN group.specs: after \in NodesOf(group.specs[j])}
AfterAlls == {n \in UNION {NodesOf(group.specs[j]): j \in DOMAIN group.specs}:
                n.type = "AfterAll"}
BeforeAllsOf(after) ==
  {n \in UNION {NodesOf(group.specs[j]): j \in SpecsAround(after)}:
     n.type = "BeforeAll" /\ n.level = after.level}

\* Nothing from outside the group made it skip the specs that were left.
Undisturbed == ~skipAll /\ level = 0 /\ ~outOfTime

\* The node of the tree behind an entry of the log (not a cleanup)
NodeAt(x) == CHOOSE n \in NodesOf(group.specs[log[x].spec]): n.id = log[x].id
BrokeAt(x) == log[x].type \in Setup /\ log[x].state # "passed"

\* A MustPassRepeatedly spec that failed before its last attempt: there is no
\* other attempt, but the one that failed did not count as the last.
RepeatsOf(j) == IF group.repeats > 0 THEN group.repeats ELSE group.specs[j].repeats
FailedEarly(j) ==
  /\ reports[j] \in Failures /\ RepeatsOf(j) > 0
  /\ \A x \in DOMAIN log: log[x].spec = j => log[x].attempt < RepeatsOf(j)

\* Why group.go does not get to what is to run once, after the specs, for a
\* container whose nodes have the level lvl:  the specs that follow are skipped,
\* although the one that ran did not count as the last, since it failed early,
\* since a reporter failed it after the attempt or instead of one, or since
\* Skip was called in a node that runs once for a deeper container.
Forsaken(lvl) ==
  \/ \E j \in DOMAIN group.specs: FailedEarly(j)
  \/ \E z \in DOMAIN log:
       \/ log[z].type \in Reports /\ log[z].state \in Failures
       \/ /\ BrokeAt(z) /\ log[z].state = "skipped" /\ NodeAt(z).level > lvl
          /\ IsRunOnce(group.specs[log[z].spec], NodeAt(z))

\* Whatever fails, is skipped or is retried, what was set up in an Ordered
\* container is torn down: once its BeforeAll or one of its specs ran, its
\* AfterAll runs later (docs/index.md, Ordered containers).  Not so if the suite
\* stops running specs before the container's last one, if the container is
\* forsaken, or if a setup node around it ends a later attempt: what is deeper
\* than that node is then not run.
TornDown ==
  ~Running /\ Undisturbed =>
    \A after \in AfterAlls: \A x \in DOMAIN log:
      \/ log[x].id \in {n.id: n \in BeforeAllsOf(after)}
      \/ log[x].type = "It" /\ log[x].spec \in SpecsAround(after)
      => \/ \E y \in DOMAIN log: y > x /\ log[y].id = after.id
         \/ Forsaken(after.level)
         \/ \E z \in DOMAIN log: z > x /\ BrokeAt(z) /\ NodeAt(z).level < after.level

\* AfterAll comes after the last spec: no later spec of its container runs
\* after it, unless a BeforeAll that had failed sets things up again, or a node
\* beside it that runs once for an inner container did not pass: group.go takes
\* that for the end of the AfterAll's container.
TeardownIsLast ==
  \A after \in AfterAlls: \A x, y \in DOMAIN log:
    /\ log[x].id = after.id /\ x < y
    /\ log[y].type = "It" /\ log[y].spec \in SpecsAround(after)
    => \/ log[y].spec = log[x].spec
       \/ \E z \in x..y: log[z].id \in {n.id: n \in BeforeAllsOf(after)}
       \/ \E z \in 1..x:
            /\ log[z].spec = log[x].spec /\ log[z].attempt = log[x].attempt
            /\ BrokeAt(z) /\ log[z].type # "BeforeAll"
            /\ NodeAt(z).level = after.level
            /\ IsRunOnce(group.specs[log[z].spec], NodeAt(z))

\* BeforeAll runs again only if it did not pass: not for another spec of its
\* container, nor when a flaky or repeated spec is attempted again.
SetupOnce ==
  \A x, y \in DOMAIN log:
    log[x].type = "BeforeAll" /\ log[y].id = log[x].id /\ x < y
      => log[x].state # "passed"

\* No node runs twice in an attempt, however often the loop over the teardown
\* nodes comes round.
OncePerAttempt ==
  \A x, y \in DOMAIN log:
    x < y /\ log[x].id = log[y].id => log[x].spec # log[y].spec
                                      \/ log[x].attempt # log[y].attempt

\* All that is deferred is run, and run by the group that deferred it, unless
\* the suite stops running specs before the container's last one or the container
\* of the node that deferred it is forsaken.
CleanupsRun ==
  ~Running /\ Undisturbed =>
    \A x \in DOMAIN cleanupNodes: Forsaken(cleanupNodes[x].level)

\* A spec that is reported as passed ran its subject, and in the last attempt
\* every node of it passed.
PassedIsPassed ==
  \A j \in 1..(i - 1): reports[j] = "passed" /\ ~group.dryRun =>
    \E x \in DOMAIN log:
      /\ log[x].spec = j /\ log[x].type = "It" /\ log[x].state = "passed"
      /\ \A y \in DOMAIN log: log[y].spec = j /\ log[y].attempt = log[x].attempt
           => log[y].state = "passed"
              \/ (log[y].type \in Reports /\ log[y].state \notin Failures)
      /\ ~\E y \in DOMAIN log: log[y].spec = j /\ log[y].attempt > log[x].attempt
=============================================================================
