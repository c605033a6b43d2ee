----------------------------- MODULE LabelFilter -----------------------------
(***************************************************************************)
(* The label filter language (types/label_filter.go): the parser that      *)
(* grafts one token after the other into a tree, and the filter the tree   *)
(* stands for.                                                             *)
(*                                                                         *)
(* A tree node is [token, value, parent, left, right]; node 1 is the root, *)
(* 0 is nil.  A label or regexp token is [token |-> "label", value |-> l]: *)
(* the label it matches.                                                   *)
(***************************************************************************)
EXTENDS Integers, Sequences, FiniteSets

Operators == {"&&", "||"}

\* Token.Precedence; a label and a closed group bind tighter than any operator
\* asks for, so that they stop the search for an ancestor.
Precedence(token) ==
  CASE token \in {"ROOT", "("} -> 0
    [] token = "||"            -> 1
    [] token = "&&"            -> 2
    [] token = "!"             -> 3
    [] OTHER                   -> -1

TreeNode(t, parent) == [token |-> t.token, value |-> t.value,
                        parent |-> parent, left |-> 0, right |-> 0]

EmptyParse == [tree    |-> <<TreeNode([token |-> "ROOT", value |-> "-"], 0)>>,
               current |-> 1,
               ok      |-> TRUE]

RECURSIVE FirstAncestorWithPrecedenceLEQ(_, _, _)
FirstAncestorWithPrecedenceLEQ(tree, n, p) ==
  IF Precedence(tree[n].token) <= p THEN n
  ELSE FirstAncestorWithPrecedenceLEQ(tree, tree[n].parent, p)

RECURSIVE FirstUnmatchedOpenNode(_, _)
FirstUnmatchedOpenNode(tree, n) ==
  IF n = 0 \/ tree[n].token = "(" THEN n
  ELSE FirstUnmatchedOpenNode(tree, tree[n].parent)

SyntaxError(parse) == [parse EXCEPT !.ok = FALSE]

\* The new node n becomes the right operand of the node at hand.
SetRightNode(parse, n, t) ==
  [parse EXCEPT !.tree = [Append(@, TreeNode(t, parse.current))
                            EXCEPT ![parse.current].right = n]]

\* Without regard to precedence.
StealTight(parse, n, t) ==
  LET stolen == parse.tree[parse.current].right
      grown  == Append(parse.tree, [TreeNode(t, parse.current) EXCEPT !.left = stolen])
  IN  [parse EXCEPT !.tree = [grown EXCEPT ![stolen].parent = n, ![parse.current].right = n],
                    !.current = n]

\* The new operator n takes over the right operand of the first ancestor
\* that binds no tighter, and becomes that ancestor's right operand.
Steal(parse, n, t) ==
  LET from   == FirstAncestorWithPrecedenceLEQ(parse.tree, parse.current, Precedence(t.token))
      stolen == parse.tree[from].right
      grown  == Append(parse.tree, [TreeNode(t, from) EXCEPT !.left = stolen])
  IN  [parse EXCEPT !.tree = [grown EXCEPT ![stolen].parent = n, ![from].right = n],
                    !.current = n]

\* One turn of ParseLabelFilter's loop.
ParseToken(parse, t) ==
  LET n        == Len(parse.tree) + 1
      occupied == parse.tree[parse.current].right # 0
      group    == FirstUnmatchedOpenNode(parse.tree, parse.current)
  IN
  CASE t.token = "label" ->
         IF occupied THEN SyntaxError(parse) ELSE SetRightNode(parse, n, t)
    [] t.token \in {"!", "("} ->
         IF occupied THEN SyntaxError(parse)
         ELSE [SetRightNode(parse, n, t) EXCEPT !.current = n]
    [] t.token \in Operators ->
         IF occupied THEN Steal(parse, n, t) ELSE SyntaxError(parse)
    [] t.token = ")" ->
         IF group = 0 \/ (group = parse.current /\ ~occupied) THEN SyntaxError(parse)
         ELSE [parse EXCEPT !.tree[group].token = ")",
                            !.current = parse.tree[group].parent]
    [] OTHER -> SyntaxError(parse)

NoFilter == [ok |-> FALSE, sat |-> {}]

\* constructLabelFilter: the label sets the filter accepts, or an error.
RECURSIVE ConstructLabelFilter(_, _, _)
ConstructLabelFilter(tree, n, labelSets) ==
  LET tn    == tree[n]
      right == ConstructLabelFilter(tree, tn.right, labelSets)
      left  == ConstructLabelFilter(tree, tn.left, labelSets)
  IN
  CASE tn.token = "("       -> NoFilter
    [] tn.token = "label"   -> [ok |-> TRUE, sat |-> {L \in labelSets : tn.value \in L}]
    [] tn.token \notin {"(", "label"} /\ (tn.right = 0 \/ ~right.ok) -> NoFilter
    [] tn.token \in {"ROOT", ")"} /\ tn.right # 0 /\ right.ok -> right
    [] tn.token = "!" /\ tn.right # 0 /\ right.ok ->
         [ok |-> TRUE, sat |-> labelSets \ right.sat]
    [] OTHER ->
         IF tn.left = 0 \/ ~left.ok THEN NoFilter
         ELSE [ok  |-> TRUE,
               sat |-> IF tn.token = "&&" THEN left.sat \cap right.sat
                                          ELSE left.sat \cup right.sat]

\* ParseLabelFilter at the end of the input; the empty input accepts all.
LabelFilter(parse, input, labelSets) ==
  IF input = << >> THEN [ok |-> TRUE, sat |-> labelSets]
  ELSE IF ~parse.ok THEN NoFilter
  ELSE ConstructLabelFilter(parse.tree, 1, labelSets)

-----------------------------------------------------------------------------
\* The documented language, for reference: || binds looser than &&, which
\* binds looser than !; parentheses group.
RECURSIVE Meaning(_, _, _)
Meaning(level, input, labelSets) ==
  LET len    == Len(input)
      before(k) == SubSeq(input, 1, k - 1)
      after(k)  == SubSeq(input, k + 1, len)
      op     == IF level = "or" THEN "||" ELSE "&&"
      tight  == IF level = "or" THEN "and" ELSE "not"
      splits == {k \in 1..len : /\ input[k].token = op
                                /\ Meaning(level, before(k), labelSets).ok
                                /\ Meaning(tight, after(k), labelSets).ok}
      whole  == Meaning(tight, input, labelSets)
      k      == CHOOSE j \in splits : TRUE
      l      == Meaning(level, before(k), labelSets)
      r      == Meaning(tight, after(k), labelSets)
  IN
  IF len = 0 THEN NoFilter
  ELSE IF level # "not"
  THEN IF splits = {} THEN whole
       ELSE [ok |-> TRUE, sat |-> IF level = "or" THEN l.sat \cup r.sat
                                                  ELSE l.sat \cap r.sat]
  ELSE CASE input[1].token = "!" ->
              LET m == Meaning("not", Tail(input), labelSets) IN
              IF m.ok THEN [ok |-> TRUE, sat |-> labelSets \ m.sat] ELSE NoFilter
         [] input[1].token = "(" /\ len > 1 /\ input[len].token = ")" ->
              Meaning("or", SubSeq(input, 2, len - 1), labelSets)
         [] input[1].token = "label" /\ len = 1 ->
              [ok |-> TRUE, sat |-> {L \in labelSets : input[1].value \in L}]
         [] OTHER -> NoFilter
=============================================================================
