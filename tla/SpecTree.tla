------------------------------ MODULE SpecTree ------------------------------
(***************************************************************************)
(* From declarations to the groups of specs a process runs: the phases of  *)
(* a Suite (internal/suite.go), the tree (tree.go), focus and filters      *)
(* (focus.go, file_filter.go, LabelFilter) and the order (ordering.go),    *)
(* driven by RunSpecs and PreviewSpecs (core_dsl.go, global/init.go).      *)
(*                                                                         *)
(* The user's code declares what it likes, in the order it likes, at the   *)
(* top level, in the body of a container, or while specs run.  Any error   *)
(* ends the process.                                                       *)
(***************************************************************************)
EXTENDS SpecOrder

CONSTANTS Programs,   \* what the user's code may do: see MCSpecTree
          Labels,     \* the labels in use
          Tokens      \* the tokens of label filters

VARIABLES
  program,  \* the program at hand
  suite,    \* global.Suite: see NewSuite
  backup,   \* global.backupSuite
  mode,     \* the call under way: "none", "preview" or "run"
  didRun,   \* suiteDidRun
  query,    \* the label filter read so far
  parse,    \* and its parse
  plan,     \* what a run depends on: see Plans
  previews, \* how often PreviewSpecs was called
  declared  \* history: locations of the specs and setup nodes at the top level

vars == <<program, suite, backup, mode, didRun, query, parse, plan, previews, declared>>

\* NewSuite.  nodes are the nodes of the tree in the order they are pushed:
\* the position stands for Node.ID, and parent is a position, or 0 for the
\* root.  open are the containers whose bodies run, outermost first: suite.tree
\* and its ancestors.  entered counts the top-level containers BuildTree pushed.
\* "vet" is the part of RunSpecs that reads the configuration.
NewSuite == [phase |-> "top", topLevel |-> << >>, suiteNodes |-> << >>,
             nodes |-> << >>, entered |-> 0, open |-> << >>, err |-> {}]

Phases == {"top", "vet", "tree", "run", "exit"}

\* Names of the errors (types/errors.go): of tree building,
BuildErrors ==
  {"RerunningSuite", "PushingNodeInRunPhase", "CaughtPanicDuringABuildPhase",
   "SuiteNodeInNestedContext", "SuiteNodeDuringRunPhase",
   "MultipleBeforeSuiteNodes", "MultipleAfterSuiteNodes"}

\* of a declaration,
DeclarationErrors ==
  {"InvalidDecoratorForNodeType", "InvalidDeclarationOfFocusedAndPending",
   "InvalidDeclarationOfFlakeAttemptsAndMustPassRepeatedly", "UnknownDecorator",
   "InvalidBodyType", "MultipleBodyFunctions", "MissingBodyFunction",
   "InvalidTimeoutOrGracePeriodForNonContextNode",
   "InvalidSerialNodeInNonSerialOrderedContainer", "SetupNodeNotInOrderedContainer",
   "InvalidContinueOnFailureDecoration", "PushingCleanupNodeDuringTreeConstruction"}

\* of labels and label filters, and of Suite.Clone,
FilterErrors == {"InvalidLabel", "SyntaxErrorParsingLabelFilter", "CannotClone"}

\* and of tables.
TableErrors ==
  {"MultipleEntryBodyFunctionsForTable", "MissingParametersForTableFunction",
   "ContextsCannotBeUsedInSubtreeTables"}

Exit(s, errors) == [s EXCEPT !.phase = "exit", !.err = errors]

-----------------------------------------------------------------------------
(* Pushing a node *)

\* AncestorNodeChain().FirstNodeMarkedOrdered() of the node being built.
OrderedAncestors(s) ==
  SelectSeq([i \in DOMAIN s.open |-> s.nodes[s.open[i].node]],
            LAMBDA n : Marked(n, "Ordered"))

\* A check the code makes, in its order, and the error it returns.
Check(holds, name) == [holds |-> holds, name |-> name]

FirstError(checks) ==
  LET failed == SelectSeq(checks, LAMBDA c : c.holds) IN
  IF failed = << >> THEN {} ELSE {Head(failed).name}

\* pushSuiteNode
SuiteNodeChecks(s, node) ==
  LET clash(types) == /\ node.type \in types
                      /\ \E i \in DOMAIN s.suiteNodes : s.suiteNodes[i].type \in types
  IN  <<Check(s.phase = "tree", "SuiteNodeInNestedContext"),
        Check(s.phase = "run", "SuiteNodeDuringRunPhase"),
        Check(clash(BeforeSuites), "MultipleBeforeSuiteNodes"),
        Check(clash(AfterSuites), "MultipleAfterSuiteNodes")>>

\* PushNode's checks.  A cleanup declared while a node runs is part of NodeRun
\* and Group.
NodeChecks(s, node) ==
  LET ordered == OrderedAncestors(s) IN
  <<Check(node.type = "Cleanup", "PushingCleanupNodeDuringTreeConstruction"),
    Check(s.phase = "run", "PushingNodeInRunPhase"),
    Check(/\ Marked(node, "Serial")
          /\ ordered # << >>
          /\ ~Marked(Head(ordered), "Serial"),
          "InvalidSerialNodeInNonSerialOrderedContainer"),
    Check(node.type \in AllTypes /\ ordered = << >>, "SetupNodeNotInOrderedContainer"),
    Check(Marked(node, "ContinueOnFailure") /\ ordered # << >>,
          "InvalidContinueOnFailureDecoration")>>

PushErrorsBut(s, node, name) ==
  FirstError(SelectSeq(IF node.type \in SuiteTypes THEN SuiteNodeChecks(s, node)
                                                   ELSE NodeChecks(s, node),
                       LAMBDA c : c.name # name))

PushErrorsSerialAnywhere(s, node) ==
  PushErrorsBut(s, node, "InvalidSerialNodeInNonSerialOrderedContainer")

PushErrorsTwoBeforeSuites(s, node) == PushErrorsBut(s, node, "MultipleBeforeSuiteNodes")

PushErrors(s, node) == PushErrorsBut(s, node, "none")

\* tree.AppendChild, below the innermost open container.
AppendChild(s, node) ==
  LET parent == IF s.open = << >> THEN 0 ELSE Last(s.open).node IN
  [s EXCEPT !.nodes = Append(@, node @@ [parent |-> parent])]

\* Running a container's body.  A table's body declares its entries.  A
\* pending container without a body is accepted by NewNode and panics here.
EnterBody(s, node) ==
  IF ~node.hasBody \/ node.panics
  THEN Exit(s, {"CaughtPanicDuringABuildPhase"})
  ELSE [AppendChild(s, node) EXCEPT
          !.open = Append(@, [node |-> Len(s.nodes) + 1, todo |-> node.entries,
                              isTable |-> node.entries # << >>])]

\* Suite.PushNode: a top-level container is only noted before BuildTree.
PushNode(s, node) ==
  IF PushErrors(s, node) # {} THEN Exit(s, PushErrors(s, node))
  ELSE IF node.type \in SuiteTypes THEN [s EXCEPT !.suiteNodes = Append(@, node)]
  ELSE IF node.type # "Container" THEN AppendChild(s, node)
  ELSE IF s.phase = "top" THEN [s EXCEPT !.topLevel = Append(@, node)]
  ELSE EnterBody(s, node)

-----------------------------------------------------------------------------
(* The DSL functions *)

Fns == ContainerFns @@ SubjectFns @@ SuiteFns @@ SynchronizedFns @@ SetupFns
         @@ ReportFns @@ CleanupFns @@ TableFns @@ SubtreeFns

\* pushNode(NewNode(...)): errors of either end the process.
Declare(s, type, call) ==
  IF NodeErrors(type, call) # {} THEN Exit(s, NodeErrors(type, call))
  ELSE PushNode(s, NewNode(type, call))

\* generateTable: the container; its body declares the entries, which are
\* noted with the type and the function that each of them gets.
TableCall(call) ==
  LET subtree == call.fn \in DOMAIN SubtreeFns IN
  [call EXCEPT !.bodies  = <<"()">>,
               !.panics  = call.entries # << >> /\ call.bodies = << >>,
               !.entries = [i \in DOMAIN call.entries |->
                 [call.entries[i] EXCEPT
                    !.fn     = IF subtree THEN "Container" ELSE "It",
                    !.decs   = @ \cup EntryFns[call.entries[i].fn],
                    !.bodies = call.bodies,
                    !.panics = subtree /\ ~call.entries[i].fits]]]

DeclareTable(s, call) ==
  IF Len(call.bodies) + Len(call.entries) + Cardinality(call.decs) = 1
  THEN Exit(s, {"MissingParametersForTableFunction"})
  ELSE IF Len(call.bodies) > 1 THEN Exit(s, {"MultipleEntryBodyFunctionsForTable"})
  ELSE Declare(s, "Container", TableCall(call))

\* The next entry of the innermost container, which is a table.
DeclareEntry(s) ==
  LET top   == Len(s.open)
      entry == Head(s.open[top].todo)
      rest  == [s EXCEPT !.open[top].todo = Tail(@)]
  IN  IF entry.fn = "Container" /\ entry.bodies = <<"(ctx)">>
      THEN Exit(s, {"ContextsCannotBeUsedInSubtreeTables"})
      ELSE Declare(rest, entry.fn, entry)

DSL(s, call) ==
  LET decorated == [call EXCEPT !.decs = @ \cup Fns[call.fn].adds] IN
  IF call.fn \in DOMAIN (TableFns @@ SubtreeFns) THEN DeclareTable(s, decorated)
  ELSE Declare(s, Fns[call.fn].type, decorated)

-----------------------------------------------------------------------------
(* The life of a suite *)

LabelSets == SUBSET Labels
NoPlan == [built |-> << >>]

Init ==
  /\ program \in Programs
  /\ suite = NewSuite /\ backup = NewSuite
  /\ mode = "none" /\ didRun = FALSE /\ previews = 0
  /\ query = << >> /\ parse = EmptyParse /\ plan = NoPlan
  /\ declared = {}

InTableBody == suite.open # << >> /\ Last(suite.open).isTable

\* The user's code runs: at the top level, in a container, in a spec.
UserCode ==
  \/ suite.phase = "top"
  \/ suite.phase = "tree" /\ suite.open # << >> /\ ~InTableBody
  \/ suite.phase = "run" /\ program.late

\* The bound on the size of a tree.
Declarations == Len(suite.nodes) + Len(suite.suiteNodes)
                  + Len(suite.topLevel) - suite.entered

UserDeclares(call) ==
  /\ UserCode
  /\ Declarations < program.maxNodes
  /\ suite.phase = "run" => call.fn # "DeferCleanup"
  /\ suite' = DSL(suite, call)
  /\ declared' = IF suite.phase = "top" /\ Len(suite'.nodes) > Len(suite.nodes)
                 THEN declared \cup {call.loc} ELSE declared
  /\ UNCHANGED <<program, backup, mode, didRun, query, parse, plan, previews>>

\* Suite.Clone: the new suite gets the containers and the suite nodes, and an
\* empty tree.
Clone(s) == [NewSuite EXCEPT !.topLevel = s.topLevel, !.suiteNodes = s.suiteNodes]

\* global.PushClone, then the configuration is read.
PushClone(call) ==
  IF suite.phase # "top"
  THEN /\ suite' = Exit(suite, {"CannotClone"})
       /\ UNCHANGED <<backup, mode>>
  ELSE /\ backup' = Clone(suite)
       /\ suite' = [suite EXCEPT !.phase = "vet"]
       /\ mode' = call

RunSpecs ==
  /\ UserCode
  /\ didRun' = TRUE
  /\ IF didRun THEN suite' = Exit(suite, {"RerunningSuite"}) /\ UNCHANGED <<backup, mode>>
     ELSE PushClone("run")
  /\ UNCHANGED <<program, query, parse, plan, previews, declared>>

PreviewSpecs ==
  /\ UserCode
  /\ previews < program.maxPreviews
  /\ previews' = previews + 1
  /\ PushClone("preview")
  /\ UNCHANGED <<program, didRun, query, parse, plan, declared>>

\* VetConfig parses the label filter; this is one turn of the parser's loop.
ReadToken(t) ==
  /\ suite.phase = "vet"
  /\ Len(query) < program.maxTokens
  /\ parse.ok
  /\ query' = Append(query, t)
  /\ parse' = ParseToken(parse, t)
  /\ UNCHANGED <<program, suite, backup, mode, didRun, plan, previews, declared>>

Filter == LabelFilter(parse, query, LabelSets)

\* The end of the filter, the node that writes reports, and on to BuildTree.
\* PreviewSpecs writes no report.
StartBuildTree ==
  /\ suite.phase = "vet"
  /\ LET report == [type |-> "ReportAfterSuite"] IN
     suite' = IF ~Filter.ok THEN Exit(suite, {"SyntaxErrorParsingLabelFilter"})
              ELSE [suite EXCEPT !.phase = "tree",
                                 !.suiteNodes = IF program.report /\ mode = "run"
                                                THEN Append(@, report) ELSE @]
  /\ UNCHANGED <<program, backup, mode, didRun, query, parse, plan, previews, declared>>

\* BuildTree's loop.
PushTopLevelContainer ==
  /\ suite.phase = "tree" /\ suite.open = << >> /\ suite.entered < Len(suite.topLevel)
  /\ suite' = LET k == suite.entered + 1 IN
              PushNode([suite EXCEPT !.entered = k], suite.topLevel[k])
  /\ UNCHANGED <<program, backup, mode, didRun, query, parse, plan, previews, declared>>

TableDeclaresEntry ==
  /\ suite.phase = "tree" /\ InTableBody /\ Last(suite.open).todo # << >>
  /\ suite' = DeclareEntry(suite)
  /\ UNCHANGED <<program, backup, mode, didRun, query, parse, plan, previews, declared>>

BodyReturns ==
  /\ suite.phase = "tree" /\ suite.open # << >> /\ Last(suite.open).todo = << >>
  /\ suite' = [suite EXCEPT !.open = Front(@)]
  /\ UNCHANGED <<program, backup, mode, didRun, query, parse, plan, previews, declared>>

BodyPanics ==
  /\ suite.phase = "tree" /\ UserCode
  /\ suite' = Exit(suite, {"CaughtPanicDuringABuildPhase"})
  /\ UNCHANGED <<program, backup, mode, didRun, query, parse, plan, previews, declared>>

-----------------------------------------------------------------------------
(* Another process *)

\* A program that ranges over a map declares the same nodes in another order
\* on another process.  The children of one body that come from one location
\* and differ in their text may change places, with all that is below them.
RECURSIVE Ancestry(_, _)
Ancestry(nodes, p) == IF p = 0 THEN << >> ELSE Append(Ancestry(nodes, nodes[p].parent), p)

MayTrade(nodes, a, b) == /\ nodes[a].parent = nodes[b].parent
                         /\ nodes[a].loc = nodes[b].loc
                         /\ nodes[a].text # nodes[b].text

Renumberings(nodes) ==
  LET all == DOMAIN nodes
      ancestry == [p \in all |-> Ancestry(nodes, p)]
      \* the ancestors, or a and b themselves, at which two nodes part
      fork(a, b) == LET x == ancestry[a]
                        y == ancestry[b]
                        d == Min({i \in DOMAIN x \cap DOMAIN y : x[i] # y[i]} \cup {99})
                    IN  IF d = 99 THEN <<a, b>> ELSE <<x[d], y[d]>>
      keeps(r, a, b) == LET f == fork(a, b) IN
                        IF MayTrade(nodes, f[1], f[2])
                        THEN r[a] < r[b] <=> r[f[1]] < r[f[2]]
                        ELSE r[a] < r[b]
  IN  IF \E a, b \in all : MayTrade(nodes, a, b)
      THEN {r \in Permutations(all) : \A a, b \in all : a < b => keeps(r, a, b)}
      ELSE {[p \in all |-> p]}

\* The tree of the other process, where node p is at now[p].
Renumbered(nodes, now) ==
  [q \in DOMAIN nodes |->
     [nodes[CHOOSE p \in DOMAIN nodes : now[p] = q]
        EXCEPT !.parent = IF @ = 0 THEN 0 ELSE now[@]]]

-----------------------------------------------------------------------------
(* Running *)

\* The random permutations tried: none, and the reversal.
Shuffles(n) == {[i \in 1..n |-> i]} \cup
               (IF program.shuffle THEN {[i \in 1..n |-> n + 1 - i]} ELSE {})

\* Suite.Run up to runSpecs: what a run depends on besides the tree.  The
\* focus policy changes the tree.
StartRun ==
  /\ suite.phase = "tree" /\ suite.open = << >> /\ suite.entered = Len(suite.topLevel)
  /\ LET nodes == ApplyNestedFocusPolicyToTree(suite.nodes)
         specs == GenerateSpecsFromTreeRoot(nodes)
         groups == ExecutionGroups(nodes, specs)
     IN
     /\ suite' = [suite EXCEPT !.phase = "run", !.nodes = nodes]
     /\ \E filter \in program.filters, all \in program.randomizeAll,
           other \in Renumberings(nodes) :
          \E shuffle \in Shuffles(Len(ShufflableGroupings(nodes, specs, groups, all))) :
             plan' = [built |-> suite.nodes, specs |-> specs, randomizeAll |-> all,
                      groups |-> OrderSpecs(nodes, specs, all, shuffle),
                      shuffle |-> shuffle, other |-> other,
                      filter |-> filter @@ [labels |-> Filter.sat]]
  /\ UNCHANGED <<program, backup, mode, didRun, query, parse, previews, declared>>

\* The call returns: global.PopClone.  A run that passes with focused specs
\* ends the process instead.
CallReturns ==
  /\ suite.phase = "run"
  /\ suite' = backup
  /\ mode' = "none" /\ plan' = NoPlan /\ query' = << >> /\ parse' = EmptyParse
  /\ UNCHANGED <<program, backup, didRun, previews, declared>>

FocusedExit ==
  /\ suite.phase = "run" /\ mode = "run"
  /\ HasProgrammaticFocus(suite.nodes, plan.specs)
  /\ suite' = Exit(suite, {})
  /\ UNCHANGED <<program, backup, mode, didRun, query, parse, plan, previews, declared>>

Next ==
  \/ \E call \in program.calls : UserDeclares(call)
  \/ RunSpecs
  \/ PreviewSpecs
  \/ \E t \in Tokens : ReadToken(t)
  \/ StartBuildTree
  \/ PushTopLevelContainer
  \/ TableDeclaresEntry
  \/ BodyReturns
  \/ BodyPanics
  \/ StartRun
  \/ CallReturns
  \/ FocusedExit

Spec == Init /\ [][Next]_vars

-----------------------------------------------------------------------------
(* Properties *)

Running == suite.phase = "run"
Specs   == plan.specs
Groups  == plan.groups

\* Every It is one spec, made of its containers and of the setup nodes of
\* each of them and of the top level, in the order of declaration, whatever
\* was declared before, after or beside it (GenerateSpecsFromTreeRoot).
SpecsComplete ==
  Running =>
    LET nodes   == suite.nodes
        chain(p) == Range(Ancestry(nodes, p))
        made(p) == {n \in DOMAIN nodes :
                      \/ n \in chain(p)
                      \/ /\ nodes[n].type \notin ContainerAndIt
                         /\ nodes[n].parent \in (chain(p) \ {p}) \cup {0}}
        its     == {p \in DOMAIN nodes : nodes[p].type = "It"}
    IN  /\ Len(Specs) = Cardinality(its)
        /\ Range(Specs) = {SetToSortSeq(made(p), <) : p \in its}

\* A spec runs exactly if nothing about it is pending, the filters let it
\* through, and it is in focus: below a focused node under which no node is
\* focused in turn.  Without a spec in focus, all are (ApplyFocusToSpecs).
FocusExact ==
  Running =>
    LET nodes == plan.built
        below(m, n) == m # n /\ n \in Range(Ancestry(nodes, m))
        \* the nodes from n, exclusive, down to m
        way(m, n) == {k \in Range(Ancestry(nodes, m)) : below(k, n)}
        pending(ns) == \E k \in ns : Marked(nodes[k], "Pending")
        inFocus(n) == /\ Marked(nodes[n], "Focus")
                      /\ \/ UnderPending(nodes, n)
                         \/ ~\E m \in DOMAIN nodes : /\ below(m, n)
                                                     /\ Marked(nodes[m], "Focus")
                                                     /\ ~pending(way(m, n))
        focused(p) == \E n \in Range(Ancestry(nodes, p)) : inFocus(n)
        live == {p \in DOMAIN nodes : nodes[p].type = "It" /\ ~UnderPending(nodes, p)}
        chosen == IF \E p \in live : focused(p) THEN {p \in live : focused(p)} ELSE live
        labelled == {p \in chosen : plan.filter.suiteLabels \cup
                       UNION {nodes[k].labels : k \in Range(Ancestry(nodes, p))}
                         \in Meaning("or", query, LabelSets).sat}
    IN  plan.filter.focusFiles = {} /\ plan.filter.skipTexts = {} =>
          {FirstOf(suite.nodes, s, {"It"}) :
             s \in {x \in Range(Specs) : ~Skip(suite.nodes, Specs, x, plan.filter)}}
            = IF query = << >> THEN chosen ELSE labelled

\* The parser accepts the documented language, no more and no less, and the
\* filter it builds means what the text says (ParseLabelFilter).
FilterMeansWhatItSays ==
  suite.phase = "vet" /\ query # << >> => Filter = Meaning("or", query, LabelSets)

\* Every spec is in one group.  The specs of an outermost Ordered container
\* are one group, in the order of declaration, whatever is shuffled; every
\* other spec is a group of its own (OrderSpecs).
OrderedStayTogether ==
  Running =>
    LET it(i) == FirstOf(suite.nodes, Specs[i], {"It"})
        outer(i) == SelectInSeq(Ancestry(suite.nodes, it(i)),
                                LAMBDA p : Marked(suite.nodes[p], "Ordered"))
        home(i) == IF outer(i) = 0 THEN it(i) ELSE Ancestry(suite.nodes, it(i))[outer(i)]
    IN  /\ \A i \in DOMAIN Specs :
             Cardinality({<<g, k>> \in (DOMAIN Groups) \X (DOMAIN Specs) :
                            k \in DOMAIN Groups[g] /\ Groups[g][k] = i}) = 1
        /\ \A g \in DOMAIN Groups :
             /\ Range(Groups[g]) = {i \in DOMAIN Specs : home(i) = home(Groups[g][1])}
             /\ \A j, k \in DOMAIN Groups[g] : j < k => it(Groups[g][j]) < it(Groups[g][k])

\* A spec with a Serial node never runs beside another process, and only such
\* specs wait for the end: the first spec of a group can speak for all of it,
\* because PushNode refuses Serial inside an Ordered container that is not.
SerialStaysApart ==
  Running =>
    LET serial(g) == {i \in Range(g) : HasMark(suite.nodes, Specs[i], "Serial")} IN
    /\ \A g \in Range(ParallelizableGroups(suite.nodes, Specs, Groups)) : serial(g) = {}
    /\ \A g \in Range(SerialGroups(suite.nodes, Specs, Groups)) : serial(g) = Range(g)

\* other is the tree of another process, specs and groups are what it made of it.
SameSpecs(other, specs, groups) ==
  /\ Len(groups) = Len(Groups)
  /\ \A g \in DOMAIN Groups :
       {plan.other[FirstOf(suite.nodes, Specs[i], {"It"})] : i \in Range(Groups[g])}
         = {FirstOf(other, specs[i], {"It"}) : i \in Range(groups[g])}

SameGroups(other) ==
  LET specs == GenerateSpecsFromTreeRoot(other) IN
  SameSpecs(other, specs, OrderSpecs(other, specs, plan.randomizeAll, plan.shuffle))

\* The group behind an index is the same on every process, although each
\* builds and sorts its own tree, perhaps in another order (OrderSpecs).
SameGroupsEverywhere ==
  Running => SameGroups(Renumbered(suite.nodes, plan.other))

\* What runs can be run: a spec that is not skipped has a body, a timeout
\* comes with a context to cancel, BeforeAll and AfterAll have an Ordered
\* container, and there is one BeforeSuite and one AfterSuite at most.  What
\* does not run was refused for a reason Ginkgo has a name for.
RunnableSuite ==
  /\ suite.phase \in Phases
  /\ suite.err \subseteq BuildErrors \cup DeclarationErrors \cup FilterErrors \cup TableErrors
  /\ Running =>
    /\ \A s \in Range(Specs) : \A p \in Range(s) :
         LET node == suite.nodes[p] IN
         /\ node.type \in AllTypes =>
              \E q \in Range(Ancestry(suite.nodes, p)) : Marked(suite.nodes[q], "Ordered")
         /\ ~Skip(suite.nodes, Specs, s, plan.filter) =>
              /\ node.hasBody
              /\ node.decs \cap Timeouts # {} => node.hasCtx
    /\ \A types \in {BeforeSuites, AfterSuites} :
         Cardinality({i \in DOMAIN suite.suiteNodes : suite.suiteNodes[i].type \in types}) <= 1

\* What was declared at the top level is still there when the specs run, also
\* if PreviewSpecs was called in between (Suite.Clone).
TopLevelKept ==
  Running => declared \subseteq {suite.nodes[p].loc : p \in DOMAIN suite.nodes}
=============================================================================
