----------------------------- MODULE SpecOrder ------------------------------
(***************************************************************************)
(* What a process makes of its tree of nodes, before it runs anything: the *)
(* specs (tree.go, spec.go), which of them are skipped (focus.go,          *)
(* file_filter.go), and the groups they run in (ordering.go).              *)
(*                                                                         *)
(* nodes is the tree: the sequence of its nodes in the order they were     *)
(* pushed, each with the position of its parent.  A spec is a sequence of  *)
(* positions, outermost node first.                                        *)
(***************************************************************************)
EXTENDS Node, LabelFilter, FiniteSetsExt, TLC

Marked(node, dec) == dec \in node.decs

Children(nodes, p) == SelectSeq([i \in DOMAIN nodes |-> i], LAMBDA i : nodes[i].parent = p)

OfType(nodes, spec, types) == SelectSeq(spec, LAMBDA i : nodes[i].type \in types)
NotOfType(nodes, spec, types) == SelectSeq(spec, LAMBDA i : nodes[i].type \notin types)

HasMark(nodes, spec, dec) == \E i \in Range(spec) : Marked(nodes[i], dec)

\* GenerateSpecsFromTreeRoot: below p, with the nodes collected on the way.
RECURSIVE WalkTree(_, _, _, _)
WalkTree(nodes, p, left, right) ==
  LET children == Children(nodes, p)
      specsOf(k) ==
        LET c      == children[k]
            before == NotOfType(nodes, SubSeq(children, 1, k - 1), ContainerAndIt)
            after  == NotOfType(nodes, SubSeq(children, k + 1, Len(children)), ContainerAndIt)
        IN  CASE nodes[c].type = "It" -> <<left \o before \o <<c>> \o after \o right>>
              [] nodes[c].type = "Container" ->
                   WalkTree(nodes, c, left \o before \o <<c>>, after \o right)
              [] OTHER -> << >>
  IN  FlattenSeq([k \in DOMAIN children |-> specsOf(k)])

\* (Variant: without the setup nodes that follow a container of the spec,
\* those WalkTree hands down as its last argument.)
GenerateSpecsForgetful(nodes) ==
  LET specs == WalkTree(nodes, 0, << >>, << >>)
      it(s) == SelectInSeq(s, LAMBDA k : nodes[k].type = "It")
      kept(s) == {k \in DOMAIN s : k <= it(s) \/ nodes[s[k]].parent = nodes[s[it(s)]].parent}
  IN  [i \in DOMAIN specs |->
         SelectSeq(specs[i], LAMBDA n : \E k \in kept(specs[i]) : specs[i][k] = n)]
GenerateSpecsFromTreeRoot(nodes) == WalkTree(nodes, 0, << >>, << >>)

-----------------------------------------------------------------------------
(* Focus and filters *)

\* walkTree of ApplyNestedFocusPolicyToTree: a focused node at or below p,
\* with nothing pending on the way.
RECURSIVE HasFocus(_, _)
HasFocus(nodes, p) ==
  /\ ~Marked(nodes[p], "Pending")
  /\ Marked(nodes[p], "Focus") \/ \E c \in Range(Children(nodes, p)) : HasFocus(nodes, c)

RECURSIVE UnderPending(_, _)
UnderPending(nodes, p) ==
  p # 0 /\ (Marked(nodes[p], "Pending") \/ UnderPending(nodes, nodes[p].parent))

\* A focused child alone takes the focus off, one level up.
ApplyNestedFocusPolicyShallow(nodes) ==
  [p \in DOMAIN nodes |->
     IF /\ ~UnderPending(nodes, p)
        /\ \E c \in Range(Children(nodes, p)) :
             Marked(nodes[c], "Focus") /\ ~Marked(nodes[c], "Pending")
     THEN [nodes[p] EXCEPT !.decs = @ \ {"Focus"}]
     ELSE nodes[p]]

\* ApplyNestedFocusPolicyToTree: a focused descendant takes the focus off a
\* container; the walk does not go below a pending node.
ApplyNestedFocusPolicyToTree(nodes) ==
  [p \in DOMAIN nodes |->
     IF /\ ~UnderPending(nodes, p)
        /\ \E c \in Range(Children(nodes, p)) : HasFocus(nodes, c)
     THEN [nodes[p] EXCEPT !.decs = @ \ {"Focus"}]
     ELSE nodes[p]]

HasProgrammaticFocus(nodes, specs) ==
  \E i \in DOMAIN specs : /\ HasMark(nodes, specs[i], "Focus")
                          /\ ~HasMark(nodes, specs[i], "Pending")

\* FileFilters.Matches: one of the spec's locations is in the filter.
FileFilterMatches(nodes, spec, filter) == \E i \in Range(spec) : nodes[i].loc \in filter

\* A regular expression stands for the texts it matches.
TextMatches(nodes, spec, texts) == \E i \in Range(spec) : nodes[i].text \in texts

LabelsOf(nodes, spec) == UNION {nodes[i].labels : i \in Range(spec)}

\* ApplyFocusToSpecs: is the spec skipped?  An empty filter is no filter.
\* filter.labels are the label sets the label filter accepts.
Skip(nodes, specs, spec, filter) ==
  \/ HasMark(nodes, spec, "Pending")
  \/ HasProgrammaticFocus(nodes, specs) /\ ~HasMark(nodes, spec, "Focus")
  \/ filter.suiteLabels \cup LabelsOf(nodes, spec) \notin filter.labels
  \/ filter.focusFiles # {} /\ ~FileFilterMatches(nodes, spec, filter.focusFiles)
  \/ FileFilterMatches(nodes, spec, filter.skipFiles)
  \/ filter.focusTexts # {} /\ ~TextMatches(nodes, spec, filter.focusTexts)
  \/ TextMatches(nodes, spec, filter.skipTexts)

-----------------------------------------------------------------------------
(* The order *)

\* IndexOfFirstNodeMarkedOrdered and the like: 0 if there is none.
FirstIndex(nodes, spec, dec) == SelectInSeq(spec, LAMBDA i : Marked(nodes[i], dec))

\* Of two sequences of numbers: does the first differing place say less?
LessAt(a, b) == \E i \in DOMAIN a \cap DOMAIN b :
                  a[i] < b[i] /\ \A j \in 1..(i - 1) : a[j] = b[j]

\* What Less compares of the nodes of a spec.
LocsOf(nodes, s)  == [i \in DOMAIN s |-> nodes[s[i]].loc]
NoTextsOf(nodes, s) == [i \in DOMAIN s |-> 0]
TextsOf(nodes, s) == [i \in DOMAIN s |-> nodes[s[i]].text]

\* What Less looks at: a spec of an Ordered container counts as the container.
SortKey(nodes, spec) ==
  LET chain   == OfType(nodes, spec, ContainerAndIt)
      ordered == FirstIndex(nodes, chain, "Ordered")
      upTo    == IF ordered = 0 THEN chain ELSE SubSeq(chain, 1, ordered)
  IN  [ordered |-> ordered # 0, id |-> Last(chain), home |-> Last(upTo),
       locs |-> LocsOf(nodes, upTo), texts |-> TextsOf(nodes, upTo)]

\* SortableSpecs.Less: by location, then depth, then text, then ID; within one
\* Ordered container by ID alone.
Less(a, b) ==
  LET common == DOMAIN a.locs \cap DOMAIN b.locs IN
  IF a.ordered /\ b.ordered /\ a.home = b.home THEN a.id < b.id
  ELSE IF \E i \in common : a.locs[i] # b.locs[i] THEN LessAt(a.locs, b.locs)
  ELSE IF Len(a.locs) # Len(b.locs) THEN Len(a.locs) < Len(b.locs)
  ELSE IF a.texts # b.texts THEN LessAt(a.texts, b.texts)
  ELSE a.home < b.home

\* Items that come with keys, grouped by key: groups in the order in which
\* their keys first occur, and within a group in order.
GroupByKey(items, keys) ==
  LET all == [i \in DOMAIN keys |-> i]
      firsts == SelectSeq(all, LAMBDA i : \A j \in 1..(i - 1) : keys[j] # keys[i])
      sameAs(f) == SelectSeq(all, LAMBDA i : keys[i] = keys[f])
  IN  [g \in DOMAIN firsts |-> LET members == sameAs(firsts[g]) IN
                               [k \in DOMAIN members |-> items[members[k]]]]

FirstOf(nodes, spec, types) == Head(OfType(nodes, spec, types))

InnermostGroupNode(nodes, spec) ==
  IF HasMark(nodes, spec, "Ordered")
  THEN Last(SelectSeq(spec, LAMBDA i : Marked(nodes[i], "Ordered")))
  ELSE FirstOf(nodes, spec, {"It"})

\* An execution group is a spec, or the specs of an outermost Ordered container.
GroupNode(nodes, spec) ==
  IF HasMark(nodes, spec, "Ordered") THEN spec[FirstIndex(nodes, spec, "Ordered")]
  ELSE FirstOf(nodes, spec, {"It"})

Sorted(keys) == SortSeq([i \in DOMAIN keys |-> i], LAMBDA i, j : Less(keys[i], keys[j]))

Grouped(nodes, specs, sorted) ==
  GroupByKey(sorted, [i \in DOMAIN sorted |-> GroupNode(nodes, specs[sorted[i]])])

ExecutionGroups(nodes, specs) ==
  Grouped(nodes, specs, Sorted([i \in DOMAIN specs |-> SortKey(nodes, specs[i])]))

\* What is shuffled: every execution group, or the outermost containers.
ShufflableGroupings(nodes, specs, groups, randomizeAll) ==
  LET types == IF randomizeAll THEN {"It"} ELSE ContainerAndIt IN
  GroupByKey(groups, [g \in DOMAIN groups |-> FirstOf(nodes, specs[groups[g][1]], types)])

\* OrderSpecs: the random permutation is the same on every process, which all
\* start from the same seed.
Shuffled(groupings, permutation) ==
  FlattenSeq([i \in DOMAIN groupings |-> groupings[permutation[i]]])

OrderSpecs(nodes, specs, randomizeAll, permutation) ==
  Shuffled(ShufflableGroupings(nodes, specs, ExecutionGroups(nodes, specs), randomizeAll),
           permutation)

\* The groups that run in parallel, and those process 1 runs last: the first
\* spec of a group speaks for the group.
ParallelizableGroups(nodes, specs, groups) ==
  SelectSeq(groups, LAMBDA g : ~HasMark(nodes, specs[g[1]], "Serial"))

SerialGroups(nodes, specs, groups) ==
  SelectSeq(groups, LAMBDA g : HasMark(nodes, specs[g[1]], "Serial"))
=============================================================================
