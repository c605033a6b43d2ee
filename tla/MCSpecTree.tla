----------------------------- MODULE MCSpecTree -----------------------------
(* Programs for the runs of SpecTree.  A program is a set of calls its code   *)
(* may make, in any order and nesting, with bounds; each asks another         *)
(* question.                                                                  *)
EXTENDS SpecTree

MCLabels == {"a", "b"}
MCTokens == {[token |-> "label", value |-> l] : l \in MCLabels}
              \cup {[token |-> t, value |-> "-"] : t \in {"!", "&&", "||", "(", ")", "&"}}

BasicCall == [fn |-> "It", decs |-> {}, labels |-> {}, bodies |-> <<"()">>,
              unknown |-> FALSE, loc |-> 1, text |-> 1,
              entries |-> << >>, fits |-> TRUE, panics |-> FALSE]
Call(fn, decs, loc, text) ==
  [BasicCall EXCEPT !.fn = fn, !.decs = decs, !.loc = loc, !.text = text]

NoFilters == [suiteLabels |-> {}, focusFiles |-> {}, skipFiles |-> {},
              focusTexts |-> {}, skipTexts |-> {}]

BasicProgram == [calls |-> {}, maxNodes |-> 4, maxPreviews |-> 0, maxTokens |-> 0,
                 late |-> FALSE, report |-> FALSE, filters |-> {NoFilters},
                 randomizeAll |-> {FALSE}, shuffle |-> FALSE]

\* Order: two locations, each of which may come round twice with another text.
OrderProgram ==
  [BasicProgram EXCEPT
     !.calls = {Call("Describe", {"Ordered"}, 2, t) : t \in 1..2}
                 \cup {Call("Describe", {}, 1, 1)}
                 \cup {Call("It", {}, 3, t) : t \in 1..2},
     !.randomizeAll = BOOLEAN, !.shuffle = TRUE]

\* Two Ordered containers from one location, each with specs, inside a third.
NestedProgram ==
  [BasicProgram EXCEPT
     !.calls = {Call("Describe", {"Ordered"}, 2, t) : t \in 1..2}
                 \cup {Call("Describe", {}, 1, 1), Call("It", {}, 3, 1)},
     !.maxNodes = 5]

\* Serial and Ordered in every nesting.
SerialProgram ==
  [BasicProgram EXCEPT
     !.calls = {Call("Describe", d, 1, 1) : d \in SUBSET {"Ordered", "Serial"}}
                 \cup {Call("It", d, 2, 1) : d \in SUBSET {"Serial"}}]

\* Focus and pending in every nesting.
FocusProgram ==
  [BasicProgram EXCEPT
     !.calls = {Call(fn, {}, 1, 1) : fn \in {"Describe", "FDescribe", "PDescribe",
                                             "It", "FIt", "PIt"}}]

\* Labels and short label filters, other filters.
LabelProgram ==
  [BasicProgram EXCEPT
     !.calls = {[Call(fn, {"Label"}, 1, 1) EXCEPT !.labels = L] :
                  fn \in {"Describe", "It"}, L \in {{"a"}, {"b"}}},
     !.maxNodes = 2, !.maxTokens = 3,
     !.filters = {NoFilters, [NoFilters EXCEPT !.suiteLabels = {"b"}],
                  [NoFilters EXCEPT !.focusFiles = {1}, !.skipTexts = {2}]}]

\* Long label filters.
FilterProgram == [BasicProgram EXCEPT !.maxNodes = 0, !.maxTokens = 6]

\* Setup nodes, suite nodes, late declarations, previews.
SetupProgram ==
  [BasicProgram EXCEPT
     !.calls = {Call(fn, {}, 1, 1) : fn \in {"BeforeEach", "AfterEach", "BeforeAll", "It",
                                             "BeforeSuite", "AfterSuite", "DeferCleanup"}}
                 \cup {Call("Describe", d, 1, 1) : d \in {{}, {"Ordered"},
                          {"Ordered", "ContinueOnFailure"}}},
     !.late = TRUE, !.report = TRUE, !.maxPreviews = 1, !.maxNodes = 3]

\* Setup nodes before, between and after nested containers and specs.
DeepProgram ==
  [BasicProgram EXCEPT
     !.calls = {Call(fn, {}, 1, 1) : fn \in {"Describe", "BeforeEach", "AfterEach", "It"}},
     !.maxNodes = 5]

\* Every kind of function, body and decorator on its own.
Bodies == {<< >>} \cup {<<x>> : x \in Shapes}
            \cup {<<x, y>> : x \in {"()", "(ctx)bytes", "(other)"},
                             y \in {"()", "(ctx,bytes)", "(other)"}}
BodyProgram ==
  [BasicProgram EXCEPT
     !.calls = {[BasicCall EXCEPT !.fn = fn, !.decs = d, !.bodies = b] :
                  fn \in {"It", "PIt", "PDescribe", "BeforeEach", "SynchronizedBeforeSuite",
                          "SynchronizedAfterSuite"},
                  d \in {{}, {"NodeTimeout"}, {"SpecTimeout"}}, b \in Bodies}
               \cup {[BasicCall EXCEPT !.fn = fn, !.decs = d] :
                       fn \in {"It", "PIt", "Describe", "BeforeEach", "DeferCleanup"},
                       d \in {{x} : x \in DOMAIN ValidFor}
                               \cup {{"FlakeAttempts", "MustPassRepeatedly"}, {"Focus"}}}
               \cup {[BasicCall EXCEPT !.unknown = TRUE],
                     [BasicCall EXCEPT !.labels = {"bad"}, !.decs = {"Label"}],
                     [BasicCall EXCEPT !.fn = "ReportAfterEach", !.bodies = <<"(report)">>]},
     !.maxNodes = 1]

\* Tables.
BasicEntry == Call("Entry", {}, 3, 1)
Entries == {BasicEntry, Call("FEntry", {}, 3, 1), Call("PEntry", {}, 3, 1),
            [BasicEntry EXCEPT !.fits = FALSE]}
Table(fn, bodies, entries) ==
  [BasicCall EXCEPT !.fn = fn, !.bodies = bodies, !.entries = entries]
TableProgram ==
  [BasicProgram EXCEPT
     !.calls = {Table(fn, <<"()">>, <<e>>) : fn \in {"DescribeTable", "DescribeTableSubtree"},
                                             e \in Entries}
               \cup {Table(fn, b, <<BasicEntry>>) : fn \in {"DescribeTable", "DescribeTableSubtree"},
                                                   b \in {<< >>, <<"(ctx)">>, <<"()", "()">>}}
               \cup {Table("FDescribeTable", <<"()">>, << >>),
                     Table("DescribeTable", <<"()">>, << >>),
                     Table("PDescribeTableSubtree", <<"()">>, <<BasicEntry, BasicEntry>>),
                     BasicCall},
     !.maxNodes = 3]

MCPrograms == {OrderProgram, NestedProgram, SerialProgram, FocusProgram, LabelProgram, FilterProgram,
               SetupProgram, DeepProgram, BodyProgram, TableProgram}
PreviewPrograms == {SetupProgram}
=============================================================================
