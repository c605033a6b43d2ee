-------------------------------- MODULE Node --------------------------------
(***************************************************************************)
(* Declaring a node: the DSL functions (core_dsl.go, table_dsl.go,         *)
(* reporting_dsl.go) and NewNode (internal/node.go), which turns a         *)
(* function's arguments into a Node or into errors.                        *)
(*                                                                         *)
(* A call is [fn, decs, labels, bodies, unknown, loc, text] and, for       *)
(* tables, [entries, fits, panics]: the decorators are a set of names, a   *)
(* function argument is its shape, "unknown" says that some argument is    *)
(* neither.  A location and a text are numbers.                            *)
(***************************************************************************)
EXTENDS Integers, Sequences, FiniteSets, SequencesExt

ContainerAndIt == {"Container", "It"}
EachTypes      == {"BeforeEach", "JustBeforeEach", "AfterEach", "JustAfterEach"}
AllTypes       == {"BeforeAll", "AfterAll"}
BeforeSuites   == {"BeforeSuite", "SynchronizedBeforeSuite"}
AfterSuites    == {"AfterSuite", "SynchronizedAfterSuite"}
ReportEach     == {"ReportBeforeEach", "ReportAfterEach"}
ReportSuite    == {"ReportBeforeSuite", "ReportAfterSuite"}
Synchronized   == {"SynchronizedBeforeSuite", "SynchronizedAfterSuite"}
SuiteTypes     == BeforeSuites \cup AfterSuites \cup ReportSuite
NodeTypes      == ContainerAndIt \cup EachTypes \cup AllTypes \cup ReportEach
                    \cup SuiteTypes \cup {"Cleanup"}

\* The decorator is legal on these node types only (NewNode's switch).
ValidFor ==
  LET everywhereButContainer == NodeTypes \ {"Container"} IN
  [Focus                |-> ContainerAndIt,
   Pending              |-> ContainerAndIt,
   Serial               |-> ContainerAndIt,
   Ordered              |-> {"Container"},
   ContinueOnFailure    |-> {"Container"},
   OncePerOrdered       |-> EachTypes,
   FlakeAttempts        |-> ContainerAndIt,
   MustPassRepeatedly   |-> ContainerAndIt,
   PollProgressAfter    |-> everywhereButContainer,
   PollProgressInterval |-> everywhereButContainer,
   NodeTimeout          |-> everywhereButContainer,
   SpecTimeout          |-> {"It"},
   GracePeriod          |-> everywhereButContainer,
   Label                |-> ContainerAndIt]

Timeouts == {"NodeTimeout", "SpecTimeout", "GracePeriod"}

\* Function arguments that take a context.
ContextShapes == {"(ctx)", "(ctx)bytes", "(ctx,bytes)"}

\* extractBodyFunction
PlainShapes == {"()", "(ctx)", "(done)"}

\* extractSynchronizedBeforeSuiteProc1Body
Proc1Shapes == {"()", "(ctx)", "()bytes", "(ctx)bytes"}

\* extractSynchronizedBeforeSuiteAllProcsBody
AllProcsShapes == {"()", "(ctx)", "(bytes)", "(ctx,bytes)"}

Shapes == PlainShapes \cup Proc1Shapes \cup AllProcsShapes \cup {"(report)", "(other)"}

\* How many functions a node of the type takes, and the shapes of the k-th.
Capacity(type) == IF type \in Synchronized THEN 2 ELSE 1

Accepted(type, k) ==
  CASE type = "Container"                             -> {"()"}
    [] type \in ReportEach \cup ReportSuite           -> {"(report)"}
    [] type = "SynchronizedBeforeSuite" /\ k = 1      -> Proc1Shapes
    [] type = "SynchronizedBeforeSuite" /\ k = 2      -> AllProcsShapes
    [] OTHER                                          -> PlainShapes

\* One function argument: a surplus one and one of a wrong shape are errors
\* (either sets trackedFunctionError), and a wrong one does not fill the place.
TakeBody(type, acc, shape) ==
  IF Len(acc.bodies) = Capacity(type)
  THEN [acc EXCEPT !.errs = @ \cup {"MultipleBodyFunctions"}]
  ELSE IF shape \in Accepted(type, Len(acc.bodies) + 1)
       THEN [acc EXCEPT !.bodies = Append(@, shape)]
       ELSE [acc EXCEPT !.errs = @ \cup {"InvalidBodyType"}]

TakeBodies(type, bodies) ==
  FoldLeft(LAMBDA acc, shape : TakeBody(type, acc, shape),
           [bodies |-> << >>, errs |-> {}], bodies)

\* ValidateAndCleanupLabel: a label is neither empty nor made of filter syntax.
LabelErrors(labels) == IF "bad" \in labels THEN {"InvalidLabel"} ELSE {}

\* The errors of a declaration; "early" are those found while the arguments
\* are read, which the check for a useless timeout gives way to.
NodeErrors(type, call) ==
  LET taken   == TakeBodies(type, call.bodies)
      early   == taken.errs
                   \cup (IF \E d \in call.decs : type \notin ValidFor[d]
                         THEN {"InvalidDecoratorForNodeType"} ELSE {})
                   \cup LabelErrors(call.labels)
                   \cup (IF {"Focus", "Pending"} \subseteq call.decs
                         THEN {"InvalidDeclarationOfFocusedAndPending"} ELSE {})
                   \cup (IF "ContinueOnFailure" \in call.decs /\ "Ordered" \notin call.decs
                         THEN {"InvalidContinueOnFailureDecoration"} ELSE {})
      timeout == /\ early = {}
                 /\ call.decs \cap Timeouts # {}
                 /\ Range(taken.bodies) \cap ContextShapes = {}
      missing == /\ taken.errs = {}
                 /\ Len(taken.bodies) < Capacity(type)
                 /\ type \notin ReportEach \cup ReportSuite
                 /\ type \in Synchronized \/ "Pending" \notin call.decs
  IN  early
        \cup (IF timeout THEN {"InvalidTimeoutOrGracePeriodForNonContextNode"} ELSE {})
        \cup (IF missing THEN {"MissingBodyFunction"} ELSE {})
        \cup (IF call.unknown THEN {"UnknownDecorator"} ELSE {})
        \cup (IF {"FlakeAttempts", "MustPassRepeatedly"} \subseteq call.decs
              THEN {"InvalidDeclarationOfFlakeAttemptsAndMustPassRepeatedly"} ELSE {})

\* The node: what later stages read of it.
NewNode(type, call) ==
  LET bodies == TakeBodies(type, call.bodies).bodies IN
  [type    |-> type,
   decs    |-> call.decs,
   hasBody |-> bodies # << >>,
   hasCtx  |-> Range(bodies) \cap ContextShapes # {},
   loc     |-> call.loc,
   text    |-> call.text,
   labels  |-> call.labels,
   entries |-> call.entries,
   panics  |-> call.panics]

-----------------------------------------------------------------------------
\* The DSL functions: the node type each declares and the decorator it adds.
Declares(type, adds) == [type |-> type, adds |-> adds]

ContainerFns == [Describe  |-> Declares("Container", {}),
                 FDescribe |-> Declares("Container", {"Focus"}),
                 PDescribe |-> Declares("Container", {"Pending"})]

SubjectFns == [It  |-> Declares("It", {}),
               FIt |-> Declares("It", {"Focus"}),
               PIt |-> Declares("It", {"Pending"})]

SuiteFns == [BeforeSuite |-> Declares("BeforeSuite", {}),
             AfterSuite  |-> Declares("AfterSuite", {})]

SynchronizedFns == [SynchronizedBeforeSuite |-> Declares("SynchronizedBeforeSuite", {}),
                    SynchronizedAfterSuite  |-> Declares("SynchronizedAfterSuite", {})]

SetupFns == [BeforeEach     |-> Declares("BeforeEach", {}),
             JustBeforeEach |-> Declares("JustBeforeEach", {}),
             AfterEach      |-> Declares("AfterEach", {}),
             JustAfterEach  |-> Declares("JustAfterEach", {}),
             BeforeAll      |-> Declares("BeforeAll", {}),
             AfterAll       |-> Declares("AfterAll", {})]

ReportFns == [ReportBeforeEach  |-> Declares("ReportBeforeEach", {}),
              ReportAfterEach   |-> Declares("ReportAfterEach", {}),
              ReportBeforeSuite |-> Declares("ReportBeforeSuite", {}),
              ReportAfterSuite  |-> Declares("ReportAfterSuite", {})]

\* DeferCleanup: NewCleanupNode wraps the callback, so that only the presence
\* of a context matters to NewNode.
CleanupFns == [DeferCleanup |-> Declares("Cleanup", {})]

\* A table is a container whose body declares one node for each entry: a
\* spec, or in a subtree table a container.
TableFns == [DescribeTable  |-> Declares("Container", {}),
             FDescribeTable |-> Declares("Container", {"Focus"}),
             PDescribeTable |-> Declares("Container", {"Pending"})]

SubtreeFns == [DescribeTableSubtree  |-> Declares("Container", {}),
               FDescribeTableSubtree |-> Declares("Container", {"Focus"}),
               PDescribeTableSubtree |-> Declares("Container", {"Pending"})]

EntryFns == [Entry |-> {}, FEntry |-> {"Focus"}, PEntry |-> {"Pending"}]
=============================================================================
