----------------------------- MODULE GroupProofs ----------------------------
(***************************************************************************)
(* Proofs about a group of specs, for every group: setup is not repeated,  *)
(* no node runs twice in an attempt, and a spec that is reported as passed *)
(* has passed.                                                             *)
(***************************************************************************)
EXTENDS Group, FiniteSetTheorems, TLAPS

-----------------------------------------------------------------------------
(* The invariant                                                           *)

\* A sequence of nodes that has every node once.
List(s) == s \in Seq(Node) /\ \A x, y \in DOMAIN s: s[x].id = s[y].id => x = y

LogType == [id: Nat, type: NodeType, spec: Nat, attempt: Nat, state: States]
PCs     == {"next", "reportBefore", "attempt", "setup", "teardown", "endAttempt", "reportAfter"}

Typed ==
  /\ group \in Groups /\ i \in Nat \ {0} /\ pc \in PCs
  /\ pc # "next" => i \in DOMAIN group.specs
  /\ state \in States /\ attempt \in Nat
  /\ List(queue) /\ List(cleanupNodes)
  /\ tracker \in [AllPairs -> States] /\ reports \in [DOMAIN group.specs -> States]
  /\ log \in Seq(LogType)

\* Deferred nodes have IDs of their own.
Deferred(n) == n.type \in Cleanups /\ n.id >= FirstCleanupID /\ n.id < FirstCleanupID + Len(log)
Made == \A n \in Range(cleanupNodes): Deferred(n)

\* A setup node is run unless it has passed for its container.
Due(n) == LET p == RunOncePairFor(Current, n.id) IN p = NoPair \/ tracker[p] # "passed"

\* What each of the loops runs.
SetupTypes == Setup \union {"It"}
Queued ==
  /\ pc = "reportBefore" => \A n \in Range(queue):
       n \in NodesOf(Current) /\ n.type = "ReportBeforeEach"
  /\ pc = "setup" => \A n \in Range(queue):
       n \in NodesOf(Current) /\ n.type \in SetupTypes /\ Due(n)
  /\ pc = "teardown" => \A n \in Range(queue):
       /\ n.id \notin afterNodeWasRun
       /\ (n \in NodesOf(Current) /\ n.type \in Teardown) \/ Deferred(n)
  /\ pc = "reportAfter" => \A n \in Range(queue):
       n \in NodesOf(Current) /\ n.type = "ReportAfterEach"

\* What has been run are nodes of the specs so far, and deferred ones.
Logged ==
  \A x \in DOMAIN log: LET e == log[x] IN
    /\ e.spec \in DOMAIN group.specs /\ e.spec <= i
    /\ e.spec = i => pc # "next" /\ e.attempt <= attempt
    /\ \/ Deferred(e)
       \/ \E n \in NodesOf(group.specs[e.spec]): n.id = e.id /\ n.type = e.type

\* In the attempt that is being made.
Mine(x) == log[x].spec = i /\ log[x].attempt = attempt

\* What is still to be run has not been run in this attempt.
Apart ==
  \A x \in DOMAIN log: Mine(x) =>
    /\ pc \notin {"next", "attempt", "endAttempt"} => \A n \in Range(queue): n.id # log[x].id
    /\ pc = "setup" => log[x].type \in SetupTypes
    /\ pc = "teardown" => log[x].type \in SetupTypes \/ log[x].id \in afterNodeWasRun
    /\ pc # "reportAfter" => log[x].type # "ReportAfterEach"

\* The tracker remembers a BeforeAll that has passed, for all the specs around.
Remembered ==
  \A x \in DOMAIN log: log[x].type = "BeforeAll" /\ log[x].state = "passed" =>
    \A j \in DOMAIN group.specs: \A n \in NodesOf(group.specs[j]):
      n.id = log[x].id => tracker[RunOncePairFor(group.specs[j], n.id)] = "passed"

SubjectPassed == \E x \in DOMAIN log: Mine(x) /\ log[x].type = "It" /\ log[x].state = "passed"
AllPassed     == \A x \in DOMAIN log: Mine(x) => log[x].state = "passed"

\* As long as the spec passes, all of the attempt has passed.
Passing ==
  /\ pc = "setup" /\ (queue # <<>> \/ state = "passed") =>
         AllPassed /\ (SubjectPassed \/ \E n \in Range(queue): n.type = "It")
  /\ pc \in {"teardown", "endAttempt"} /\ state = "passed" => SubjectPassed /\ AllPassed
  /\ pc = "reportAfter" /\ state = "passed" /\ ~group.dryRun =>
       /\ SubjectPassed
       /\ \A x \in DOMAIN log: Mine(x) =>
            log[x].state = "passed" \/ (log[x].type \in Reports /\ log[x].state \notin Failures)

Inv == /\ Typed /\ Made /\ Queued /\ Logged /\ Apart /\ Remembered /\ Passing
       /\ SetupOnce /\ OncePerAttempt /\ PassedIsPassed

-----------------------------------------------------------------------------
(* Lists of nodes                                                          *)

\* R is a total order of P.
Orders(R, P) ==
  /\ \A x \in P: <<x, x>> \in R
  /\ \A x, y \in P: x # y => (<<x, y>> \in R <=> <<y, x>> \notin R)
  /\ \A x, y, z \in P: <<x, y>> \in R /\ <<y, z>> \in R => <<x, z>> \in R

\* Arranged has every position once: the number of positions up to one is
\* different for each of them.
LEMMA ArrangedOnce ==
  ASSUME NEW S, NEW s \in Seq(S), NEW P \in SUBSET DOMAIN s, NEW R, Orders(R, P)
  PROVE  /\ Cardinality(P) \in Nat
         /\ Arranged(s, P, R) \in Seq(S) /\ Len(Arranged(s, P, R)) = Cardinality(P)
         /\ \E p \in [1..Cardinality(P) -> P]:
              /\ \A k \in 1..Cardinality(P): Arranged(s, P, R)[k] = s[p[k]]
              /\ \A k, l \in 1..Cardinality(P): p[k] = p[l] => k = l
              /\ \A x \in P: \E k \in 1..Cardinality(P): p[k] = x
<1> DEFINE n == Cardinality(P)
           Below(x) == {y \in P: <<y, x>> \in R}
           rank == [x \in P |-> Cardinality(Below(x))]
<1>1. IsFiniteSet(P) /\ n \in Nat
  <2>1. DOMAIN s = 1..Len(s) /\ Len(s) \in Nat
    OBVIOUS
  <2>2. IsFiniteSet(DOMAIN s)
    BY <2>1, FS_Interval
  <2>3. IsFiniteSet(P)
    BY <2>2, FS_Subset
  <2> QED
    BY <2>3, FS_CardinalityType
<1>2. ASSUME NEW x \in P
      PROVE  /\ IsFiniteSet(Below(x)) /\ Cardinality(Below(x)) \in 1..n
  <2>1. IsFiniteSet(Below(x)) /\ Cardinality(Below(x)) <= n
    BY <1>1, FS_Subset
  <2>2. x \in Below(x)
    BY DEF Orders
  <2>3. Cardinality(Below(x)) \in Nat /\ Cardinality(Below(x)) # 0
    BY <2>1, <2>2, FS_CardinalityType, FS_EmptySet
  <2> QED
    BY <1>1, <2>1, <2>3
<1>3. ASSUME NEW x \in P, NEW y \in P, <<x, y>> \in R, x # y
      PROVE  Cardinality(Below(x)) # Cardinality(Below(y))
  <2>1. Below(x) \subseteq Below(y)
    BY <1>3 DEF Orders
  <2>2. y \in Below(y) /\ y \notin Below(x)
    BY <1>3 DEF Orders
  <2> QED
    BY <1>2, <2>1, <2>2, FS_Subset
<1>4. rank \in Injection(P, 1..n)
  <2>1. rank \in [P -> 1..n]
    BY <1>2
  <2>2. ASSUME NEW x \in P, NEW y \in P, rank[x] = rank[y]
        PROVE  x = y
    <3>1. Cardinality(Below(x)) = Cardinality(Below(y))
      BY <2>2
    <3>2. x # y => <<x, y>> \in R \/ <<y, x>> \in R
      BY DEF Orders
    <3> HIDE DEF Below
    <3> QED
      BY <1>3, <3>1, <3>2
  <2> QED
    BY <2>1, <2>2 DEF Injection, IsInjective
<1>5. \A k \in 1..n: \E x \in P: rank[x] = k
  <2>1. IsFiniteSet(1..n) /\ Cardinality(1..n) = n
    BY <1>1, FS_Interval
  <2>2. rank \in Surjection(P, 1..n)
    BY <1>4, <2>1, FS_Injection
  <2> QED
    BY <2>2 DEF Surjection
<1> DEFINE p == [k \in 1..n |-> CHOOSE x \in P: Cardinality({y \in P: <<y, x>> \in R}) = k]
<1>6. \A k \in 1..n: p[k] \in P /\ rank[p[k]] = k
  BY <1>5
<1>7. \A x \in P: \E k \in 1..n: p[k] = x
  <2> SUFFICES ASSUME NEW x \in P
               PROVE  p[rank[x]] = x /\ rank[x] \in 1..n
    OBVIOUS
  <2>1. rank[x] \in 1..n
    BY <1>2
  <2>2. p[rank[x]] \in P /\ rank[p[rank[x]]] = rank[x]
    BY <1>6, <2>1
  <2> QED
    BY <1>4, <2>1, <2>2 DEF Injection, IsInjective
<1>8. \A k \in 1..n: Arranged(s, P, R)[k] = s[p[k]]
  BY DEF Arranged
<1>9. Arranged(s, P, R) = [k \in 1..n |-> s[p[k]]]
  BY DEF Arranged
<1>10. \A k \in 1..n: s[p[k]] \in S
  <2>1. \A x \in DOMAIN s: s[x] \in S
    OBVIOUS
  <2>2. \A k \in 1..n: p[k] \in DOMAIN s
    BY <1>6
  <2> HIDE DEF p, n
  <2> QED
    BY <2>1, <2>2
<1> HIDE DEF n, p, rank
<1>11. Arranged(s, P, R) \in Seq(S) /\ Len(Arranged(s, P, R)) = n
  BY <1>1, <1>9, <1>10
<1>12. p \in [1..n -> P]
  BY <1>6 DEF p
<1>13. \A k, l \in 1..n: p[k] = p[l] => k = l
  BY <1>6
<1>14. \E q \in [1..n -> P]:
         /\ \A k \in 1..n: Arranged(s, P, R)[k] = s[q[k]]
         /\ \A k, l \in 1..n: q[k] = q[l] => k = l
         /\ \A x \in P: \E k \in 1..n: q[k] = x
  BY <1>7, <1>8, <1>12, <1>13
<1> QED
  BY <1>1, <1>11, <1>14, Zenon DEF n

\* What is kept of a list is a list, and a list in another order is one.
LEMMA ArrangedList ==
  ASSUME NEW s, List(s), NEW P \in SUBSET DOMAIN s, NEW R, Orders(R, P)
  PROVE  List(Arranged(s, P, R)) /\ Range(Arranged(s, P, R)) = {s[x]: x \in P}
<1> DEFINE t == Arranged(s, P, R)
           n == Cardinality(P)
<1>1. s \in Seq(Node)
  BY DEF List
<1>2. /\ n \in Nat /\ t \in Seq(Node) /\ Len(t) = n
      /\ \E p \in [1..n -> P]:
           /\ \A k \in 1..n: t[k] = s[p[k]]
           /\ \A k, l \in 1..n: p[k] = p[l] => k = l
           /\ \A x \in P: \E k \in 1..n: p[k] = x
  BY <1>1, ArrangedOnce
<1> HIDE DEF t, n
<1>3. PICK p \in [1..n -> P]:
        /\ \A k \in 1..n: t[k] = s[p[k]]
        /\ \A k, l \in 1..n: p[k] = p[l] => k = l
        /\ \A x \in P: \E k \in 1..n: p[k] = x
  BY <1>2
<1>4. DOMAIN t = 1..n
  BY <1>2
<1>5. List(t)
  <2>1. ASSUME NEW k \in 1..n, NEW l \in 1..n, t[k].id = t[l].id
        PROVE  k = l
    <3>1. p[k] \in DOMAIN s /\ p[l] \in DOMAIN s /\ s[p[k]].id = s[p[l]].id
      BY <1>3, <2>1
    <3>2. p[k] = p[l]
      BY <3>1 DEF List
    <3> QED
      BY <1>3, <3>2
  <2> QED
    BY <1>2, <1>4, <2>1 DEF List
<1>6. Range(t) = {s[x]: x \in P}
  <2>1. ASSUME NEW e \in Range(t)
        PROVE  \E x \in P: e = s[x]
    BY <1>3, <1>4 DEF Range
  <2>2. ASSUME NEW x \in P
        PROVE  s[x] \in Range(t)
    <3>1. PICK k \in 1..n: p[k] = x
      BY <1>3
    <3> QED
      BY <1>3, <1>4, <3>1 DEF Range
  <2> QED
    BY <2>1, <2>2
<1> QED
  BY <1>5, <1>6 DEF t

\* What is kept of a list is a list of the elements at those positions.
LEMMA KeptList ==
  ASSUME NEW s, List(s), NEW P \in SUBSET DOMAIN s
  PROVE  List(Kept(s, P)) /\ Range(Kept(s, P)) = {s[x]: x \in P}
<1>1. P \subseteq Nat
  BY DEF List
<1>2. Orders({r \in P \X P: r[1] <= r[2]}, P)
  BY <1>1 DEF Orders
<1> QED
  BY <1>2, ArrangedList DEF Kept

\* WithType keeps the nodes that have one of the types.
LEMMA WithTypeList ==
  ASSUME NEW s, List(s), NEW types
  PROVE  /\ List(WithType(s, types))
         /\ Range(WithType(s, types)) = {n \in Range(s): n.type \in types}
<1> DEFINE P == {x \in DOMAIN s: s[x].type \in types}
<1>1. List(Kept(s, P)) /\ Range(Kept(s, P)) = {s[x]: x \in P}
  BY KeptList
<1>2. {s[x]: x \in P} = {n \in Range(s): n.type \in types}
  BY DEF Range
<1> QED
  BY <1>1, <1>2 DEF WithType

\* Sorting a list by level, either way, neither loses nor repeats a node.
LEMMA SortedList ==
  ASSUME NEW s, List(s)
  PROVE  /\ List(Ascending(s)) /\ Range(Ascending(s)) = Range(s)
         /\ List(Descending(s)) /\ Range(Descending(s)) = Range(s)
<1> DEFINE P == DOMAIN s
           A == {r \in Pairs(s): s[r[1]].level < s[r[2]].level \/ InLevel(s, r)}
           D == {r \in Pairs(s): s[r[1]].level > s[r[2]].level \/ InLevel(s, r)}
<1>1. P \subseteq Nat /\ \A x \in P: s[x].level \in Nat
  <2>1. s \in Seq(Node) /\ \A n \in Node: n.level \in Nat
    BY DEF List, Node
  <2> QED
    BY <2>1
<1>2. Orders(A, P)
  BY <1>1 DEF Orders, Pairs, InLevel
<1>3. Orders(D, P)
  BY <1>1 DEF Orders, Pairs, InLevel
<1>4. {s[x]: x \in P} = Range(s)
  BY DEF Range
<1> QED
  BY <1>2, <1>3, <1>4, ArrangedList DEF Ascending, Descending

\* A list has the same nodes when it is reversed.
LEMMA ReversedList ==
  ASSUME NEW s, List(s)
  PROVE  List(Reverse(s)) /\ Range(Reverse(s)) = Range(s)
<1>1. s \in Seq(Node) /\ DOMAIN s = 1..Len(s) /\ Len(s) \in Nat
  BY DEF List
<1>2. /\ Reverse(s) \in Seq(Node) /\ DOMAIN Reverse(s) = 1..Len(s)
      /\ \A x \in 1..Len(s): Reverse(s)[x] = s[Len(s) - x + 1] /\ Len(s) - x + 1 \in DOMAIN s
  BY <1>1 DEF Reverse
<1>3. List(Reverse(s))
  BY <1>1, <1>2 DEF List
<1>4. ASSUME NEW x \in DOMAIN s
      PROVE  s[x] = Reverse(s)[Len(s) - x + 1] /\ Len(s) - x + 1 \in 1..Len(s)
  BY <1>1, <1>2
<1> QED
  BY <1>2, <1>3, <1>4 DEF Range

\* Two lists that have no ID in common make up a list.
LEMMA JoinedList ==
  ASSUME NEW s, NEW t, List(s), List(t), \A m \in Range(s), n \in Range(t): m.id # n.id
  PROVE  List(s \o t) /\ Range(s \o t) = Range(s) \union Range(t)
<1>1. /\ s \in Seq(Node) /\ DOMAIN s = 1..Len(s) /\ Len(s) \in Nat
      /\ t \in Seq(Node) /\ DOMAIN t = 1..Len(t) /\ Len(t) \in Nat
  BY DEF List
<1>2. /\ s \o t \in Seq(Node) /\ DOMAIN (s \o t) = 1..(Len(s) + Len(t))
      /\ \A x \in 1..Len(s): (s \o t)[x] = s[x]
      /\ \A x \in 1..Len(t): (s \o t)[Len(s) + x] = t[x]
  BY <1>1
<1> DEFINE u == s \o t
<1>3. ASSUME NEW x \in DOMAIN u
      PROVE  \/ x \in DOMAIN s /\ u[x] = s[x] /\ u[x] \in Range(s)
             \/ x - Len(s) \in DOMAIN t /\ u[x] = t[x - Len(s)] /\ u[x] \in Range(t)
  <2>1. CASE x \in DOMAIN s
    BY <1>2, <1>1, <2>1 DEF Range
  <2>2. CASE x \notin DOMAIN s
    <3>1. x - Len(s) \in 1..Len(t) /\ x = Len(s) + (x - Len(s))
      BY <1>1, <1>2, <2>2
    <3> QED
      BY <1>1, <1>2, <3>1 DEF Range
  <2> QED
    BY <2>1, <2>2
<1>4. ASSUME NEW x \in DOMAIN u, NEW y \in DOMAIN u, u[x].id = u[y].id
      PROVE  x = y
  <2>1. CASE x \in DOMAIN s /\ y \in DOMAIN s
    BY <1>1, <1>2, <1>4, <2>1 DEF List
  <2>2. CASE x \in DOMAIN s /\ y \notin DOMAIN s
    BY <1>3, <1>4, <2>2 DEF Range
  <2>3. CASE x \notin DOMAIN s /\ y \in DOMAIN s
    BY <1>3, <1>4, <2>3 DEF Range
  <2>4. CASE x \notin DOMAIN s /\ y \notin DOMAIN s
    <3>1. /\ x - Len(s) \in DOMAIN t /\ u[x] = t[x - Len(s)]
          /\ y - Len(s) \in DOMAIN t /\ u[y] = t[y - Len(s)]
      BY <1>3, <2>4
    <3>2. x - Len(s) = y - Len(s)
      BY <1>4, <3>1 DEF List
    <3> QED
      BY <1>1, <1>2, <3>2
  <2> QED
    BY <2>1, <2>2, <2>3, <2>4
<1>5. Range(u) \subseteq Range(s) \union Range(t)
  BY <1>3 DEF Range
<1>6. ASSUME NEW x \in DOMAIN t
      PROVE  t[x] = u[Len(s) + x] /\ Len(s) + x \in DOMAIN u
  BY <1>1, <1>2
<1>7. ASSUME NEW x \in DOMAIN s
      PROVE  s[x] = u[x] /\ x \in DOMAIN u
  BY <1>1, <1>2
<1> HIDE DEF u
<1>8. Range(s) \subseteq Range(u) /\ Range(t) \subseteq Range(u)
  BY <1>6, <1>7 DEF Range
<1>9. List(u)
  BY <1>2, <1>4 DEF List, u
<1> QED
  BY <1>5, <1>8, <1>9 DEF u

\* The first node of a list is not in the rest of it.
LEMMA TailOfList ==
  ASSUME NEW s, List(s), s # <<>>
  PROVE  /\ List(Tail(s)) /\ Head(s) \in Range(s) /\ Head(s) \in Node
         /\ Range(s) = {Head(s)} \union Range(Tail(s))
         /\ \A n \in Range(Tail(s)): n.id # Head(s).id
<1>1. s \in Seq(Node) /\ DOMAIN s = 1..Len(s) /\ Len(s) \in Nat /\ Len(s) > 0
  BY DEF List
<1>2. /\ Head(s) = s[1] /\ Tail(s) \in Seq(Node) /\ DOMAIN Tail(s) = 1..(Len(s) - 1)
      /\ \A x \in 1..(Len(s) - 1): Tail(s)[x] = s[x + 1]
  BY <1>1
<1>3. List(Tail(s))
  BY <1>1, <1>2 DEF List
<1>4. \A x \in 1..Len(s): x # 1 => x - 1 \in 1..(Len(s) - 1) /\ s[x] = Tail(s)[x - 1]
  BY <1>1, <1>2
<1>5. Range(s) \subseteq {Head(s)} \union Range(Tail(s))
  <2> SUFFICES ASSUME NEW x \in 1..Len(s), x # 1
               PROVE  s[x] \in Range(Tail(s))
    BY <1>1, <1>2 DEF Range
  <2> QED
    BY <1>2, <1>4 DEF Range
<1>6. \A x \in DOMAIN Tail(s): Tail(s)[x] = s[x + 1] /\ x + 1 \in DOMAIN s /\ x + 1 # 1
  BY <1>1, <1>2
<1>7. Range(Tail(s)) \subseteq Range(s)
  BY <1>6 DEF Range
<1>8. \A n \in Range(Tail(s)): n.id # Head(s).id
  BY <1>1, <1>2, <1>6 DEF Range, List
<1> QED
  BY <1>1, <1>2, <1>3, <1>5, <1>7, <1>8 DEF Range

-----------------------------------------------------------------------------
(* The nodes of a spec                                                     *)

\* What the assumption says of the group that is run.
LEMMA GroupTyped ==
  ASSUME NEW g \in Groups
  PROVE  /\ g.specs \in Seq(Spec_) /\ FromTree(g)
         /\ \A j \in DOMAIN g.specs: g.specs[j].nodes \in Seq(Node)
         /\ FirstCleanupID \in Nat
<1>1. g \in GroupType /\ FromTree(g) /\ FirstCleanupID \in Nat
  BY GroupAssumption
<1>2. g.specs \in Seq(Spec_)
  BY <1>1 DEF GroupType
<1>3. \A s \in Spec_: s.nodes \in Seq(Node)
  BY DEF Spec_
<1> QED
  BY <1>1, <1>2, <1>3

\* A spec has each of its nodes once, and none with the ID of a deferred node.
LEMMA SpecNodes ==
  ASSUME NEW g \in Groups, NEW j \in DOMAIN g.specs
  PROVE  /\ List(g.specs[j].nodes) /\ Range(g.specs[j].nodes) = NodesOf(g.specs[j])
         /\ NodesOf(g.specs[j]) \subseteq Node
         /\ \A n \in NodesOf(g.specs[j]):
              n.id \in Nat /\ n.id > 0 /\ n.id < FirstCleanupID /\ n.type \notin Cleanups
<1> DEFINE s == g.specs[j].nodes
<1>1. s \in Seq(Node) /\ FromTree(g)
  BY GroupTyped
<1>2. Range(s) = NodesOf(g.specs[j])
  BY DEF Range, NodesOf
<1>3. \A x \in DOMAIN s: s[x] \in NodesOf(g.specs[j])
  BY DEF NodesOf
<1>4. ASSUME NEW x \in DOMAIN s, NEW y \in DOMAIN s, s[x].id = s[y].id
      PROVE  x = y
  <2>1. s[x] = s[y]
    BY <1>1, <1>3, <1>4 DEF FromTree
  <2>2. IsInjective(s)
    BY <1>1 DEF FromTree
  <2> QED
    BY <2>1, <2>2 DEF IsInjective
<1>5. List(s)
  BY <1>1, <1>4 DEF List
<1>6. \A x \in DOMAIN s: s[x] \in Node
  BY <1>1
<1>7. NodesOf(g.specs[j]) \subseteq Node
  BY <1>6 DEF NodesOf
<1>8. \A n \in Node: n.id \in Nat
  BY DEF Node
<1>9. \A n \in NodesOf(g.specs[j]): n.id > 0 /\ n.id < FirstCleanupID /\ n.type \notin Cleanups
  BY <1>1 DEF FromTree
<1> QED
  BY <1>2, <1>5, <1>7, <1>8, <1>9

\* An ID stands for one node.
LEMMA OneNode ==
  ASSUME NEW g \in Groups, NEW j \in DOMAIN g.specs, NEW k \in DOMAIN g.specs,
         NEW m \in NodesOf(g.specs[j]), NEW n \in NodesOf(g.specs[k]), m.id = n.id
  PROVE  m = n
BY GroupTyped DEF FromTree

\* The subject of a spec is its It node.
LEMMA SubjectIsIt ==
  ASSUME NEW g \in Groups, NEW j \in DOMAIN g.specs
  PROVE  Subject(g.specs[j]) \in NodesOf(g.specs[j]) /\ Subject(g.specs[j]).type = "It"
<1>1. \E n \in NodesOf(g.specs[j]): n.type = "It"
  BY GroupTyped DEF FromTree
<1> QED
  BY <1>1 DEF Subject

\* A list of the nodes with the given types, and nothing else.
LEMMA TypedNodes ==
  ASSUME NEW g \in Groups, NEW j \in DOMAIN g.specs, NEW types
  PROVE  /\ List(WithType(g.specs[j].nodes, types))
         /\ Range(WithType(g.specs[j].nodes, types))
              = {n \in NodesOf(g.specs[j]): n.type \in types}
BY SpecNodes, WithTypeList

\* Lists of a spec's nodes make up a list if they differ in type.
LEMMA JoinedNodes ==
  ASSUME NEW g \in Groups, NEW j \in DOMAIN g.specs, NEW s, NEW t, List(s), List(t),
         Range(s) \subseteq NodesOf(g.specs[j]), Range(t) \subseteq NodesOf(g.specs[j]),
         \A m \in Range(s), n \in Range(t): m.type # n.type
  PROVE  List(s \o t) /\ Range(s \o t) = Range(s) \union Range(t)
<1>1. \A m \in Range(s), n \in Range(t): m.id # n.id
  BY OneNode
<1> QED
  BY <1>1, JoinedList

\* SetupNodes has setup nodes of the spec and its subject, each once.
LEMMA SetupList ==
  ASSUME NEW g \in Groups, NEW j \in DOMAIN g.specs
  PROVE  /\ List(SetupNodes(g.specs[j]))
         /\ \A n \in Range(SetupNodes(g.specs[j])):
              n \in NodesOf(g.specs[j]) /\ n.type \in SetupTypes
         /\ Subject(g.specs[j]) \in Range(SetupNodes(g.specs[j]))
<1> DEFINE spec == g.specs[j]
           all  == WithType(spec.nodes, {"BeforeAll"})
           each == WithType(spec.nodes, {"BeforeEach"})
           just == WithType(spec.nodes, {"JustBeforeEach"})
           Of(types) == {n \in NodesOf(spec): n.type \in types}
<1>1. /\ List(all) /\ Range(all) = Of({"BeforeAll"})
      /\ List(each) /\ Range(each) = Of({"BeforeEach"})
      /\ List(just) /\ Range(just) = Of({"JustBeforeEach"})
  BY TypedNodes
<1> HIDE DEF all, each, just
<1>2. List(all \o each) /\ Range(all \o each) = Of({"BeforeAll"}) \union Of({"BeforeEach"})
  BY <1>1, JoinedNodes
<1> DEFINE a == Ascending(all \o each)
           b == Ascending(just)
           c == <<Subject(spec)>>
<1>3. /\ List(a) /\ Range(a) = Of({"BeforeAll"}) \union Of({"BeforeEach"})
      /\ List(b) /\ Range(b) = Of({"JustBeforeEach"})
  BY <1>1, <1>2, SortedList
<1>4. Subject(spec) \in NodesOf(spec) /\ Subject(spec).type = "It" /\ Subject(spec) \in Node
  BY SubjectIsIt, SpecNodes
<1>5. List(c) /\ Range(c) = {Subject(spec)}
  BY <1>4 DEF List, Range
<1> HIDE DEF a, b, c
<1>6. List(a \o b) /\ Range(a \o b) = Range(a) \union Range(b)
  BY <1>3, JoinedNodes
<1>7. List((a \o b) \o c) /\ Range((a \o b) \o c) = Range(a) \union Range(b) \union Range(c)
  BY <1>3, <1>4, <1>5, <1>6, JoinedNodes
<1>8. SetupNodes(spec) = (a \o b) \o c
  BY DEF SetupNodes, a, b, c, all, each, just
<1> QED
  BY <1>3, <1>4, <1>5, <1>7, <1>8 DEF SetupTypes, Setup

\* TeardownNodes has teardown nodes of the spec, each once.
LEMMA TeardownList ==
  ASSUME NEW g \in Groups, NEW j \in DOMAIN g.specs
  PROVE  /\ List(TeardownNodes(g.specs[j]))
         /\ \A n \in Range(TeardownNodes(g.specs[j])):
              n \in NodesOf(g.specs[j]) /\ n.type \in Teardown
<1> DEFINE spec == g.specs[j]
           all  == WithType(spec.nodes, {"AfterAll"})
           each == WithType(spec.nodes, {"AfterEach"})
           just == WithType(spec.nodes, {"JustAfterEach"})
           Of(types) == {n \in NodesOf(spec): n.type \in types}
<1>1. /\ List(all) /\ Range(all) = Of({"AfterAll"})
      /\ List(each) /\ Range(each) = Of({"AfterEach"})
      /\ List(just) /\ Range(just) = Of({"JustAfterEach"})
  BY TypedNodes
<1> HIDE DEF all, each, just
<1>2. List(each \o all) /\ Range(each \o all) = Of({"AfterEach"}) \union Of({"AfterAll"})
  BY <1>1, JoinedNodes
<1> DEFINE a == Descending(just)
           b == Descending(each \o all)
<1>3. /\ List(a) /\ Range(a) = Of({"JustAfterEach"})
      /\ List(b) /\ Range(b) = Of({"AfterEach"}) \union Of({"AfterAll"})
  BY <1>1, <1>2, SortedList
<1> HIDE DEF a, b
<1>4. List(a \o b) /\ Range(a \o b) = Range(a) \union Range(b)
  BY <1>3, JoinedNodes
<1>5. TeardownNodes(spec) = a \o b
  BY DEF TeardownNodes, a, b, all, each, just
<1> QED
  BY <1>3, <1>4, <1>5 DEF Teardown

\* The reporting nodes that BeginSpec and ReportAfter put into the queue.
LEMMA ReportList ==
  ASSUME NEW g \in Groups, NEW j \in DOMAIN g.specs
  PROVE  LET before == Ascending(WithType(g.specs[j].nodes, {"ReportBeforeEach"}))
             after  == Descending(WithType(g.specs[j].nodes, {"ReportAfterEach"}))
         IN /\ List(before)
            /\ \A n \in Range(before): n \in NodesOf(g.specs[j]) /\ n.type = "ReportBeforeEach"
            /\ List(after)
            /\ \A n \in Range(after): n \in NodesOf(g.specs[j]) /\ n.type = "ReportAfterEach"
<1> DEFINE b == WithType(g.specs[j].nodes, {"ReportBeforeEach"})
           a == WithType(g.specs[j].nodes, {"ReportAfterEach"})
<1>1. /\ List(b) /\ Range(b) = {n \in NodesOf(g.specs[j]): n.type \in {"ReportBeforeEach"}}
      /\ List(a) /\ Range(a) = {n \in NodesOf(g.specs[j]): n.type \in {"ReportAfterEach"}}
  BY TypedNodes
<1> HIDE DEF b, a
<1>2. /\ List(Ascending(b)) /\ Range(Ascending(b)) = Range(b)
      /\ List(Descending(a)) /\ Range(Descending(a)) = Range(a)
  BY <1>1, SortedList
<1> QED
  BY <1>1, <1>2 DEF b, a

-----------------------------------------------------------------------------
(* Run-once pairs                                                          *)

\* The pair of a node that is run once is found by its ID.
LEMMA PairOfNode ==
  ASSUME NEW g \in Groups, NEW j \in DOMAIN g.specs, NEW n \in NodesOf(g.specs[j])
  PROVE  LET p == RunOncePairFor(g.specs[j], n.id) IN
         /\ ~IsRunOnce(g.specs[j], n) => p = NoPair
         /\ IsRunOnce(g.specs[j], n) =>
              /\ p = RunOncePairForNode(g.specs[j], n) /\ p # NoPair
              /\ p \in RunOncePairsForSpec(g.specs[j]) /\ p[1] = n.id
<1> DEFINE spec  == g.specs[j]
           once  == {m \in NodesOf(spec): IsRunOnce(spec, m)}
           found == {p \in RunOncePairsForSpec(spec): p[1] = n.id}
<1>1. \A m: RunOncePairForNode(spec, m)[1] = m.id
  BY DEF RunOncePairForNode
<1>2. RunOncePairsForSpec(spec) = {RunOncePairForNode(spec, m): m \in once}
  BY DEF RunOncePairsForSpec
<1>3. \A m \in once: m.id = n.id => m = n
  BY OneNode
<1>4. RunOncePairFor(spec, n.id) = IF found = {} THEN NoPair ELSE CHOOSE p \in found: TRUE
  BY DEF RunOncePairFor
<1>5. n.id \in Nat /\ n.id > 0
  BY SpecNodes
<1>6. CASE ~IsRunOnce(spec, n)
  <2>1. found = {}
    BY <1>1, <1>2, <1>3, <1>6
  <2> QED
    BY <1>4, <1>6, <2>1
<1>7. CASE IsRunOnce(spec, n)
  <2> DEFINE p == RunOncePairForNode(spec, n)
  <2>1. n \in once
    BY <1>7
  <2>2. p \in found
    BY <1>1, <1>2, <2>1
  <2>3. \A q \in found: q = p
    BY <1>1, <1>2, <1>3
  <2>4. RunOncePairFor(spec, n.id) = p
    BY <1>4, <2>2, <2>3
  <2>5. p # NoPair
    BY <1>1, <1>5 DEF NoPair
  <2> QED
    BY <1>1, <1>2, <1>7, <2>2, <2>4, <2>5
<1> QED
  BY <1>6, <1>7

\* A BeforeAll node has the same pair in all specs of its container.
LEMMA PairOfBeforeAll ==
  ASSUME NEW g \in Groups, NEW j \in DOMAIN g.specs, NEW k \in DOMAIN g.specs, NEW n,
         n \in NodesOf(g.specs[j]), n \in NodesOf(g.specs[k]), n.type = "BeforeAll"
  PROVE  RunOncePairFor(g.specs[j], n.id) = RunOncePairFor(g.specs[k], n.id)
<1> DEFINE Around(l) == {c \in Containers(g.specs[l]): c.level = n.level - 1}
           Chosen(l) == CHOOSE c \in Around(l): \A d \in Around(l): c.level <= d.level
<1>1. IsRunOnce(g.specs[j], n) /\ IsRunOnce(g.specs[k], n)
  BY DEF IsRunOnce
<1>2. ASSUME NEW l \in {j, k}
      PROVE  /\ RunOncePairFor(g.specs[l], n.id) = <<n.id, Chosen(l).id>>
             /\ Chosen(l) \in Around(l)
  <2>1. RunOncePairFor(g.specs[l], n.id) = RunOncePairForNode(g.specs[l], n)
    BY <1>1, PairOfNode
  <2>2. RunOncePairForNode(g.specs[l], n) = <<n.id, Chosen(l).id>>
    BY DEF RunOncePairForNode
  <2>3. Around(l) # {}
    BY GroupTyped DEF FromTree
  <2>4. \A c \in Containers(g.specs[l]): c.level \in Nat
    <3>1. \A c \in Node: c.level \in Nat
      BY DEF Node
    <3> QED
      BY <3>1, SpecNodes DEF Containers
  <2>5. \A c, d \in Around(l): c.level <= d.level
    BY <2>4
  <2> QED
    BY <2>1, <2>2, <2>3, <2>5
<1>3. \A c \in Around(j), d \in Around(k): c = d
  BY GroupTyped DEF FromTree
<1> HIDE DEF Chosen
<1>4. Chosen(j) = Chosen(k)
  BY <1>2, <1>3
<1> QED
  BY <1>2, <1>4

\* Setup nodes that are left out are run-once nodes: the subject never is.
LEMMA StillToRunList ==
  ASSUME Typed, i \in DOMAIN group.specs
  PROVE  /\ List(StillToRun(Current))
         /\ \A n \in Range(StillToRun(Current)):
              n \in NodesOf(Current) /\ n.type \in SetupTypes /\ Due(n)
         /\ \E n \in Range(StillToRun(Current)): n.type = "It"
<1> DEFINE s == SetupNodes(Current)
           P == {x \in DOMAIN s: Due(s[x])}
<1>0. group \in Groups
  BY DEF Typed
<1>1. /\ List(s) /\ \A n \in Range(s): n \in NodesOf(Current) /\ n.type \in SetupTypes
      /\ Subject(Current) \in Range(s)
  BY <1>0, SetupList DEF Current
<1>2. StillToRun(Current) = Kept(s, P)
  BY DEF StillToRun, Due
<1>3. List(Kept(s, P)) /\ Range(Kept(s, P)) = {s[x]: x \in P}
  BY <1>1, KeptList
<1>4. \A x \in P: s[x] \in Range(s) /\ Due(s[x])
  BY DEF Range
<1>5. Subject(Current) \in NodesOf(Current) /\ Subject(Current).type = "It"
  BY <1>0, SubjectIsIt DEF Current
<1>6. Due(Subject(Current))
  <2>1. ~IsRunOnce(Current, Subject(Current))
    BY <1>5 DEF IsRunOnce
  <2> QED
    BY <1>0, <1>5, <2>1, PairOfNode DEF Due, Current
<1>7. PICK x \in DOMAIN s: s[x] = Subject(Current)
  BY <1>1 DEF Range
<1>8. x \in P
  BY <1>6, <1>7
<1> HIDE DEF s, P
<1> QED
  BY <1>1, <1>2, <1>3, <1>4, <1>5, <1>7, <1>8

-----------------------------------------------------------------------------
(* Running a node                                                          *)

\* How a node ends is one of the states of a spec.
LEMMA OutcomesTyped ==
  Outcomes \union {"skipped"} \subseteq States /\ FirstCleanupID \in Nat
BY GroupAssumption DEF States, Failures

\* The log grows by entry e.
Grown(e) ==
  /\ e \in LogType /\ log' \in Seq(LogType)
  /\ DOMAIN log' = (DOMAIN log) \union {Len(log) + 1} /\ Len(log') = Len(log) + 1
  /\ Len(log) + 1 \notin DOMAIN log /\ \A x \in DOMAIN log: x < Len(log) + 1
  /\ \A x \in DOMAIN log: log'[x] = log[x]
  /\ log'[Len(log) + 1] = e

\* Entry e is about node n, in the attempt that is being made.
EntryOf(e, n, how) ==
  e.id = n.id /\ e.type = n.type /\ e.spec = i /\ e.attempt = attempt /\ e.state = how

\* Appending to the log leaves what it holds in place.
LEMMA LogGrows ==
  ASSUME log \in Seq(LogType), NEW e \in LogType, log' = Append(log, e)
  PROVE  Grown(e)
<1>1. PICK s \in Seq(LogType): s = log
  OBVIOUS
<1>2. PICK t \in Seq(LogType): t = log' /\ t = Append(s, e)
  BY <1>1
<1>3. DOMAIN s = 1..Len(s) /\ Len(s) \in Nat /\ DOMAIN t = 1..Len(t) /\ Len(t) = Len(s) + 1
  BY <1>2
<1>4. \A x \in 1..Len(s): t[x] = s[x]
  BY <1>2
<1>5. t[Len(s) + 1] = e
  BY <1>2
<1> QED
  BY <1>1, <1>2, <1>3, <1>4, <1>5 DEF Grown

\* A node is held back or run and logged; it may have deferred another.
LEMMA RunNodeEffect ==
  ASSUME Typed, Made, i \in DOMAIN group.specs, NEW n \in Node,
         NEW how \in Outcomes \union {"skipped"}, NEW defer \in BOOLEAN,
         RunNode(n, how, defer)
  PROVE  /\ List(cleanupNodes') /\ Made'
         /\ \/ log' = log /\ how = "skipped"
            \/ \E e \in LogType: Grown(e) /\ EntryOf(e, n, how)
<1> DEFINE P    == {x \in DOMAIN cleanupNodes: cleanupNodes[x].id # n.id}
           left == Kept(cleanupNodes, P)
<1>0. /\ group \in Groups /\ List(cleanupNodes) /\ log \in Seq(LogType) /\ i \in Nat
      /\ attempt \in Nat /\ Len(log) \in Nat /\ FirstCleanupID \in Nat /\ how \in States
      /\ \A m \in Node: m.id \in Nat /\ m.level \in Nat /\ m.type \in NodeType
  BY OutcomesTyped DEF Typed, Node
<1>1. List(left) /\ Range(left) = {cleanupNodes[x]: x \in P}
  BY <1>0, KeptList
<1>2. Range(left) \subseteq Range(cleanupNodes)
  BY <1>1 DEF Range
<1>3. CASE Held(n)
  <2>1. cleanupNodes' = left /\ log' = log /\ how = "skipped"
    BY <1>3 DEF RunNode
  <2>2. Made'
    BY <1>2, <2>1 DEF Made, Deferred
  <2> QED
    BY <1>1, <2>1, <2>2
<1>4. CASE ~Held(n)
  <2> DEFINE e == [id |-> n.id, type |-> n.type, spec |-> i, attempt |-> attempt, state |-> how]
  <2>1. log' = Append(log, e)
    BY <1>4 DEF RunNode
  <2>2. e \in LogType /\ EntryOf(e, n, how)
    BY <1>0 DEF LogType, EntryOf
  <2> HIDE DEF e
  <2>3. Grown(e)
    BY <1>0, <2>1, <2>2, LogGrows
  <2>4. Len(log') = Len(log) + 1
    BY <2>3 DEF Grown
  <2>5. CASE ~defer
    <3>1. cleanupNodes' = left
      BY <1>4, <2>5 DEF RunNode
    <3>2. Made'
      <4> HIDE DEF left
      <4>1. \A m \in Range(left): Deferred(m) /\ m \in Node
        BY <1>0, <1>2 DEF Made, List, Range
      <4> QED
        BY <1>0, <2>4, <3>1, <4>1 DEF Made, Deferred
    <3> QED
      BY <1>1, <2>2, <2>3, <3>1, <3>2
  <2>6. CASE defer
    <3> DEFINE c == PushCleanupNode(n)
    <3>1. cleanupNodes' = Append(left, c)
      BY <1>4, <2>6 DEF RunNode
    <3>2. c \in Node /\ c.id = FirstCleanupID + Len(log) /\ c.type \in Cleanups
      BY <1>0 DEF PushCleanupNode, Node, NodeType, Cleanups
    <3> HIDE DEF c, left
    <3>3. List(<<c>>) /\ Range(<<c>>) = {c}
      BY <3>2 DEF List, Range
    <3>4. cleanupNodes' = left \o <<c>>
      BY <1>1, <3>1, <3>2 DEF List
    <3>5. \A m \in Range(left): Deferred(m) /\ m \in Node
      BY <1>0, <1>2 DEF Made, List, Range
    <3>6. \A m \in Range(left): m.id # c.id
      BY <1>0, <3>2, <3>5 DEF Deferred
    <3>7. List(cleanupNodes') /\ Range(cleanupNodes') = Range(left) \union {c}
      BY <1>1, <3>3, <3>4, <3>6, JoinedList
    <3>8. \A m \in Range(left) \union {c}: Deferred(m)'
      BY <1>0, <2>4, <3>2, <3>5 DEF Deferred
    <3>9. Made'
      BY <3>7, <3>8 DEF Made
    <3> QED
      BY <2>2, <2>3, <3>7, <3>9
  <2> QED
    BY <2>5, <2>6
<1> QED
  BY <1>3, <1>4

-----------------------------------------------------------------------------
(* The steps                                                               *)

\* Fields of what was run.
LEMMA LogFields ==
  ASSUME Typed
  PROVE  /\ DOMAIN log = 1..Len(log) /\ Len(log) \in Nat
         /\ \A x \in DOMAIN log: log[x] \in LogType
         /\ \A e \in LogType: /\ e.id \in Nat /\ e.spec \in Nat /\ e.attempt \in Nat
                              /\ e.type \in NodeType /\ e.state \in States
<1>1. log \in Seq(LogType)
  BY DEF Typed
<1>2. \A e \in LogType: /\ e.id \in Nat /\ e.spec \in Nat /\ e.attempt \in Nat
                        /\ e.type \in NodeType /\ e.state \in States
  BY DEF LogType
<1> QED
  BY <1>1, <1>2

\* Node n of the queue, and nothing else, is run or held back.
Runs(n, how) ==
  /\ UNCHANGED <<group, i, pc, attempt, reports>>
  /\ pc \in {"reportBefore", "setup", "teardown", "reportAfter"}
  /\ n \in Node /\ n \in Range(queue) /\ (n \in NodesOf(Current) \/ Deferred(n))
  /\ \/ log' = log /\ how = "skipped"
     \/ \E e \in LogType: Grown(e) /\ EntryOf(e, n, how)

\* A node of the queue has not been run in this attempt, so running it repeats
\* nothing; the specs that have ended are left alone.
LEMMA RunsLogged ==
  ASSUME Inv, NEW n, NEW how, Runs(n, how)
  PROVE  Logged' /\ OncePerAttempt' /\ PassedIsPassed'
<1>0. Typed /\ Logged /\ Apart /\ OncePerAttempt /\ PassedIsPassed
  BY DEF Inv
<1>1. /\ group' = group /\ i' = i /\ pc' = pc /\ attempt' = attempt /\ reports' = reports
      /\ pc # "next" /\ i \in DOMAIN group.specs /\ i \in Nat /\ attempt \in Nat
      /\ FirstCleanupID \in Nat /\ pc \notin {"next", "attempt", "endAttempt"}
      /\ n \in Range(queue)
  BY <1>0, OutcomesTyped DEF Runs, Typed
<1>2. CASE log' = log
  <2>1. Logged'
    BY <1>0, <1>1, <1>2 DEF Logged, Deferred
  <2>2. OncePerAttempt'
    BY <1>0, <1>2 DEF OncePerAttempt
  <2>3. PassedIsPassed'
    BY <1>0, <1>1, <1>2 DEF PassedIsPassed
  <2> QED
    BY <2>1, <2>2, <2>3
<1>3. ASSUME NEW e \in LogType, Grown(e), EntryOf(e, n, how)
      PROVE  Logged' /\ OncePerAttempt' /\ PassedIsPassed'
  <2> DEFINE z == Len(log) + 1
  <2>1. /\ DOMAIN log' = (DOMAIN log) \union {z} /\ z \notin DOMAIN log /\ log'[z] = e
        /\ \A x \in DOMAIN log: x < z /\ log'[x] = log[x]
        /\ Len(log') = z /\ Len(log) \in Nat /\ DOMAIN log \subseteq Nat
        /\ \A x \in DOMAIN log: log[x] \in LogType /\ log[x].id \in Nat
    BY <1>0, <1>3, LogFields DEF Grown
  <2>2. e.id = n.id /\ e.type = n.type /\ e.spec = i /\ e.attempt = attempt /\ e.state = how
    BY <1>3 DEF EntryOf
  <2>3. e.id \in Nat
    BY <1>0, LogFields
  <2> HIDE DEF z
  <2>4. Logged'
    <3>1. ASSUME NEW x \in DOMAIN log
          PROVE  /\ log'[x].spec \in DOMAIN group.specs /\ log'[x].spec <= i
                 /\ log'[x].spec = i => pc # "next" /\ log'[x].attempt <= attempt
                 /\ \/ Deferred(log[x])'
                    \/ \E m \in NodesOf(group.specs[log'[x].spec]):
                         m.id = log'[x].id /\ m.type = log'[x].type
      <4>1. Deferred(log[x]) => log[x].type \in Cleanups /\ log[x].id >= FirstCleanupID
                                /\ log[x].id < FirstCleanupID + Len(log')
        BY <1>1, <2>1 DEF Deferred, z
      <4> QED
        BY <1>0, <1>1, <2>1, <4>1 DEF Logged, Deferred
    <3>2. \/ e.type \in Cleanups /\ e.id >= FirstCleanupID /\ e.id < FirstCleanupID + Len(log')
          \/ \E m \in NodesOf(group.specs[e.spec]): m.id = e.id /\ m.type = e.type
      BY <1>1, <2>1, <2>2, <2>3 DEF Runs, Deferred, Current, z
    <3>3. ASSUME NEW x \in DOMAIN log'
          PROVE  LET f == log'[x] IN
                 /\ f.spec \in DOMAIN group.specs /\ f.spec <= i
                 /\ f.spec = i => pc # "next" /\ f.attempt <= attempt
                 /\ \/ f.type \in Cleanups /\ f.id >= FirstCleanupID
                       /\ f.id < FirstCleanupID + Len(log')
                    \/ \E m \in NodesOf(group.specs[f.spec]): m.id = f.id /\ m.type = f.type
      BY <1>1, <2>1, <2>2, <3>1, <3>2 DEF Deferred
    <3> QED
      BY <1>1, <3>3 DEF Logged, Deferred
  <2>5. OncePerAttempt'
    <3>1. ASSUME NEW x \in DOMAIN log', NEW y \in DOMAIN log', x < y, log'[x].id = log'[y].id,
                 log'[x].spec = log'[y].spec, log'[x].attempt = log'[y].attempt
          PROVE  FALSE
      <4>1. CASE x \in DOMAIN log /\ y \in DOMAIN log
        BY <1>0, <2>1, <3>1, <4>1 DEF OncePerAttempt
      <4>2. CASE y \notin DOMAIN log
        <5>1. y = z /\ x \in DOMAIN log
          BY <2>1, <3>1, <4>2
        <5>2. Mine(x) /\ log[x].id = n.id
          BY <2>1, <2>2, <3>1, <5>1 DEF Mine
        <5> QED
          BY <1>0, <1>1, <5>1, <5>2 DEF Apart
      <4>3. CASE x \notin DOMAIN log
        BY <2>1, <3>1, <4>3
      <4> QED
        BY <4>1, <4>2, <4>3
    <3> QED
      BY <3>1 DEF OncePerAttempt
  <2>6. PassedIsPassed'
    <3> SUFFICES ASSUME NEW j \in 1..(i - 1), reports[j] = "passed" /\ ~group.dryRun
                 PROVE  \E x \in DOMAIN log':
                   /\ log'[x].spec = j /\ log'[x].type = "It" /\ log'[x].state = "passed"
                   /\ \A y \in DOMAIN log':
                        log'[y].spec = j /\ log'[y].attempt = log'[x].attempt
                        => log'[y].state = "passed"
                           \/ (log'[y].type \in Reports /\ log'[y].state \notin Failures)
                   /\ ~\E y \in DOMAIN log':
                        log'[y].spec = j /\ log'[y].attempt > log'[x].attempt
      BY <1>1 DEF PassedIsPassed
    <3>1. PICK x \in DOMAIN log:
            /\ log[x].spec = j /\ log[x].type = "It" /\ log[x].state = "passed"
            /\ \A y \in DOMAIN log: log[y].spec = j /\ log[y].attempt = log[x].attempt
                 => log[y].state = "passed"
                    \/ (log[y].type \in Reports /\ log[y].state \notin Failures)
            /\ ~\E y \in DOMAIN log: log[y].spec = j /\ log[y].attempt > log[x].attempt
      BY <1>0 DEF PassedIsPassed
    <3>2. e.spec # j
      BY <1>1, <2>2
    <3> QED
      BY <2>1, <3>1, <3>2
  <2> QED
    BY <2>4, <2>5, <2>6
<1> QED
  BY <1>2, <1>3 DEF Runs

\* What else is run does not concern BeforeAll.
LEMMA OtherNodesRun ==
  ASSUME Inv, NEW n, NEW how, Runs(n, how), n.type # "BeforeAll", tracker' = tracker
  PROVE  Remembered' /\ SetupOnce'
<1>0. Typed /\ Logged /\ Remembered /\ SetupOnce
  BY DEF Inv
<1>1. /\ group' = group /\ i' = i /\ i \in DOMAIN group.specs /\ group \in Groups
      /\ n \in NodesOf(Current) \/ Deferred(n)
  BY <1>0 DEF Runs, Typed
<1>2. CASE log' = log
  BY <1>0, <1>1, <1>2 DEF Remembered, SetupOnce
<1>3. ASSUME NEW e \in LogType, Grown(e), EntryOf(e, n, how)
      PROVE  Remembered' /\ SetupOnce'
  <2> DEFINE z == Len(log) + 1
  <2>1. /\ DOMAIN log' = (DOMAIN log) \union {z} /\ z \notin DOMAIN log /\ log'[z] = e
        /\ \A x \in DOMAIN log: x < z /\ log'[x] = log[x]
        /\ Len(log) \in Nat /\ DOMAIN log \subseteq Nat /\ z \in Nat
    BY <1>0, <1>3, LogFields DEF Grown
  <2>2. e.id = n.id /\ e.type = n.type
    BY <1>3 DEF EntryOf
  <2> HIDE DEF z
  <2>3. Remembered'
    BY <1>0, <1>1, <2>1, <2>2 DEF Remembered
  <2>4. ASSUME NEW x \in DOMAIN log, log[x].type = "BeforeAll", log[x].id = n.id
        PROVE  FALSE
    <3>1. log[x].type \notin Cleanups /\ log[x].spec \in DOMAIN group.specs
      BY <1>0, <2>4 DEF Cleanups, Logged
    <3>2. PICK m \in NodesOf(group.specs[log[x].spec]): m.id = log[x].id /\ m.type = "BeforeAll"
      BY <1>0, <2>4, <3>1 DEF Logged, Deferred
    <3>3. m.id \in Nat /\ m.id < FirstCleanupID /\ FirstCleanupID \in Nat
      BY <1>1, <3>1, SpecNodes, OutcomesTyped
    <3>4. n \in NodesOf(group.specs[i])
      BY <1>1, <2>4, <3>2, <3>3 DEF Deferred, Current
    <3>5. m = n
      BY <1>1, <2>4, <3>1, <3>2, <3>4, OneNode
    <3> QED
      BY <3>2, <3>5
  <2>5. ASSUME NEW x \in DOMAIN log', NEW y \in DOMAIN log', x < y, log'[x].type = "BeforeAll",
               log'[y].id = log'[x].id
        PROVE  log'[x].state # "passed"
    <3>1. CASE y \in DOMAIN log
      <4>1. x \in DOMAIN log
        BY <2>1, <2>5, <3>1
      <4> QED
        BY <1>0, <2>1, <2>5, <3>1, <4>1 DEF SetupOnce
    <3>2. CASE y = z
      <4>1. x \in DOMAIN log
        BY <2>1, <2>5, <3>2
      <4> QED
        BY <2>1, <2>2, <2>4, <2>5, <3>2, <4>1
    <3> QED
      BY <2>1, <3>1, <3>2
  <2> QED
    BY <2>3, <2>5 DEF SetupOnce
<1> QED
  BY <1>2, <1>3 DEF Runs

\* What is logged stays, and what is new is the node that was run.
LEMMA RunsMine ==
  ASSUME Typed, NEW n, NEW how, Runs(n, how)
  PROVE  /\ log' \in Seq(LogType)
         /\ \A x \in DOMAIN log: /\ x \in DOMAIN log' /\ log'[x] = log[x]
                                 /\ Mine(x)' <=> Mine(x)
         /\ \A x \in (DOMAIN log') \ DOMAIN log:
              log'[x].id = n.id /\ log'[x].type = n.type /\ log'[x].state = how /\ Mine(x)'
         /\ SubjectPassed => SubjectPassed'
         /\ \/ log' = log /\ how = "skipped"
            \/ \E x \in (DOMAIN log') \ DOMAIN log: TRUE
<1>0. log \in Seq(LogType) /\ i' = i /\ attempt' = attempt
  BY DEF Typed, Runs
<1>1. CASE log' = log /\ how = "skipped"
  BY <1>0, <1>1 DEF Mine, SubjectPassed
<1>2. ASSUME NEW e \in LogType, Grown(e), EntryOf(e, n, how)
      PROVE  /\ log' \in Seq(LogType)
             /\ \A x \in DOMAIN log: /\ x \in DOMAIN log' /\ log'[x] = log[x]
                                     /\ Mine(x)' <=> Mine(x)
             /\ \A x \in (DOMAIN log') \ DOMAIN log:
                  log'[x].id = n.id /\ log'[x].type = n.type /\ log'[x].state = how /\ Mine(x)'
             /\ SubjectPassed => SubjectPassed'
             /\ \E x \in (DOMAIN log') \ DOMAIN log: TRUE
  <2> DEFINE z == Len(log) + 1
  <2>1. /\ DOMAIN log' = (DOMAIN log) \union {z} /\ z \notin DOMAIN log /\ log'[z] = e
        /\ \A x \in DOMAIN log: log'[x] = log[x]
        /\ log' \in Seq(LogType)
    BY <1>2 DEF Grown
  <2> HIDE DEF z
  <2>2. e.id = n.id /\ e.type = n.type /\ e.spec = i /\ e.attempt = attempt /\ e.state = how
    BY <1>2 DEF EntryOf
  <2>3. \A x \in DOMAIN log: x \in DOMAIN log' /\ log'[x] = log[x] /\ (Mine(x)' <=> Mine(x))
    BY <1>0, <2>1 DEF Mine
  <2>4. \A x \in (DOMAIN log') \ DOMAIN log: log'[x] = e /\ Mine(x)'
    BY <1>0, <2>1, <2>2 DEF Mine
  <2>5. SubjectPassed => SubjectPassed'
    <3> SUFFICES ASSUME NEW x \in DOMAIN log, Mine(x), log[x].type = "It",
                        log[x].state = "passed"
                 PROVE  x \in DOMAIN log' /\ Mine(x)' /\ log'[x].type = "It"
                        /\ log'[x].state = "passed"
      BY DEF SubjectPassed
    <3> QED
      BY <2>3
  <2> QED
    BY <2>1, <2>2, <2>3, <2>4, <2>5
<1> QED
  BY <1>1, <1>2 DEF Runs

\* Nodes that are left in the queue have not been run.
LEMMA RunsApart ==
  ASSUME Inv, NEW n, NEW how, Runs(n, how),
         \A m \in Range(queue'): m \in Range(queue) /\ m.id # n.id
  PROVE  \A x \in DOMAIN log': Mine(x)' => \A m \in Range(queue'): m.id # log'[x].id
<1>0. Typed /\ Apart
  BY DEF Inv
<1>1. pc \notin {"next", "attempt", "endAttempt"}
  BY DEF Runs
<1>2. ASSUME NEW x \in DOMAIN log', Mine(x)', NEW m \in Range(queue')
      PROVE  m.id # log'[x].id
  <2>1. CASE x \in DOMAIN log
    <3>1. log'[x] = log[x] /\ Mine(x)
      BY <1>0, <1>2, <2>1, RunsMine
    <3>2. m \in Range(queue)
      OBVIOUS
    <3> QED
      BY <1>0, <1>1, <2>1, <3>1, <3>2 DEF Apart
  <2>2. CASE x \notin DOMAIN log
    BY <1>0, <2>2, RunsMine
  <2> QED
    BY <2>1, <2>2
<1> QED
  BY <1>2

\* ReportNode, for a ReportBeforeEach or ReportAfterEach node.
LEMMA InvReportNode ==
  ASSUME Inv, NEW how \in Outcomes \union {"skipped"}, ReportNode(how)
  PROVE  Inv'
<1>0. /\ Typed /\ Made /\ Queued /\ Logged /\ Apart /\ Remembered /\ Passing
      /\ SetupOnce /\ OncePerAttempt /\ PassedIsPassed
  BY DEF Inv
<1> DEFINE n == Head(queue)
<1>1. /\ pc \in {"reportBefore", "reportAfter"} /\ queue # <<>> /\ RunNode(n, how, FALSE)
      /\ queue' = Tail(queue)
      /\ UNCHANGED <<group, i, pc, attempt, tracker, reports, afterNodeWasRun>>
      /\ state' = IF (state \notin Failures /\ how \in Failures) \/ how = "aborted"
                  THEN how ELSE state
  BY DEF ReportNode, groupVars
<1>2. /\ List(queue) /\ i \in DOMAIN group.specs /\ group \in Groups /\ how \in States
      /\ state \in States
  BY <1>0, <1>1, OutcomesTyped DEF Typed
<1>3. /\ List(queue') /\ n \in Range(queue) /\ n \in Node
      /\ \A m \in Range(queue'): m \in Range(queue) /\ m.id # n.id
  BY <1>1, <1>2, TailOfList
<1> HIDE DEF n
<1>4. n \in NodesOf(Current) /\ (pc = "reportBefore" => n.type = "ReportBeforeEach")
      /\ (pc = "reportAfter" => n.type = "ReportAfterEach")
  BY <1>0, <1>1, <1>3 DEF Queued
<1>5. /\ List(cleanupNodes') /\ Made'
      /\ \/ log' = log /\ how = "skipped"
         \/ \E e \in LogType: Grown(e) /\ EntryOf(e, n, how)
  BY <1>0, <1>1, <1>2, <1>3, RunNodeEffect
<1>6. Runs(n, how)
  BY <1>1, <1>3, <1>4, <1>5 DEF Runs
<1>7. Logged' /\ OncePerAttempt' /\ PassedIsPassed'
  BY <1>6, RunsLogged
<1>8. Remembered' /\ SetupOnce'
  BY <1>1, <1>4, <1>6, OtherNodesRun
<1>9. Typed'
  <2>1. state' \in States
    BY <1>1, <1>2
  <2>2. log' \in Seq(LogType)
    BY <1>0, <1>6, RunsMine
  <2> QED
    BY <1>0, <1>1, <1>3, <1>5, <2>1, <2>2 DEF Typed, AllPairs
<1>10. Queued'
  BY <1>0, <1>1, <1>3 DEF Queued, Current
<1>11. Apart'
  <2>1. \A x \in DOMAIN log': Mine(x)' => \A m \in Range(queue'): m.id # log'[x].id
    BY <1>3, <1>6, RunsApart
  <2>2. ASSUME NEW x \in DOMAIN log', Mine(x)', pc' # "reportAfter"
        PROVE  log'[x].type # "ReportAfterEach"
    <3>1. CASE x \in DOMAIN log
      BY <1>0, <1>1, <1>6, <2>2, <3>1, RunsMine DEF Apart
    <3>2. CASE x \notin DOMAIN log
      BY <1>0, <1>1, <1>4, <1>6, <2>2, <3>2, RunsMine
    <3> QED
      BY <3>1, <3>2
  <2> QED
    BY <1>1, <2>1, <2>2 DEF Apart
<1>12. Passing'
  <2> SUFFICES ASSUME pc = "reportAfter", state' = "passed", ~group.dryRun
               PROVE  /\ SubjectPassed'
                      /\ \A x \in DOMAIN log': Mine(x)' =>
                           log'[x].state = "passed"
                           \/ (log'[x].type \in Reports /\ log'[x].state \notin Failures)
    BY <1>1 DEF Passing
  <2>1. state = "passed" /\ how \notin Failures
    BY <1>1 DEF Failures
  <2>2. SubjectPassed'
    BY <1>0, <1>6, <2>1, RunsMine DEF Passing
  <2>3. ASSUME NEW x \in DOMAIN log', Mine(x)'
        PROVE  log'[x].state = "passed"
               \/ (log'[x].type \in Reports /\ log'[x].state \notin Failures)
    <3>1. CASE x \in DOMAIN log
      BY <1>0, <1>6, <2>1, <2>3, <3>1, RunsMine DEF Passing
    <3>2. CASE x \notin DOMAIN log
      BY <1>0, <1>4, <1>6, <2>1, <3>2, RunsMine DEF Reports
    <3> QED
      BY <3>1, <3>2
  <2> QED
    BY <2>2, <2>3
<1> QED
  BY <1>5, <1>7, <1>8, <1>9, <1>10, <1>11, <1>12 DEF Inv

\* TeardownNode, for a teardown node or a deferred one.
LEMMA InvTeardownNode ==
  ASSUME Inv, NEW how \in Outcomes \union {"skipped"}, NEW defer \in BOOLEAN,
         TeardownNode(how, defer)
  PROVE  Inv'
<1>0. /\ Typed /\ Made /\ Queued /\ Logged /\ Apart /\ Remembered /\ Passing
      /\ SetupOnce /\ OncePerAttempt /\ PassedIsPassed
  BY DEF Inv
<1> DEFINE n == Head(queue)
<1>1. /\ pc = "teardown" /\ queue # <<>> /\ RunNode(n, how, defer) /\ queue' = Tail(queue)
      /\ UNCHANGED <<group, i, pc, attempt, tracker, reports>>
      /\ afterNodeWasRun' = afterNodeWasRun \union {n.id}
      /\ state' = IF state = "passed" \/ how = "aborted" THEN how ELSE state
  BY DEF TeardownNode, groupVars, StateAfterTeardown
<1>2. /\ List(queue) /\ i \in DOMAIN group.specs /\ group \in Groups /\ how \in States
      /\ state \in States /\ Len(log) \in Nat /\ FirstCleanupID \in Nat
  BY <1>0, <1>1, OutcomesTyped, LogFields DEF Typed
<1>3. /\ List(queue') /\ n \in Range(queue) /\ n \in Node
      /\ \A m \in Range(queue'): m \in Range(queue) /\ m.id # n.id
  BY <1>1, <1>2, TailOfList
<1> HIDE DEF n
<1>4. (n \in NodesOf(Current) /\ n.type \in Teardown) \/ Deferred(n)
  BY <1>0, <1>1, <1>3 DEF Queued
<1>5. /\ List(cleanupNodes') /\ Made'
      /\ \/ log' = log /\ how = "skipped"
         \/ \E e \in LogType: Grown(e) /\ EntryOf(e, n, how)
  BY <1>0, <1>1, <1>2, <1>3, RunNodeEffect
<1>6. Runs(n, how)
  BY <1>1, <1>3, <1>4, <1>5 DEF Runs
<1>7. Logged' /\ OncePerAttempt' /\ PassedIsPassed'
  BY <1>6, RunsLogged
<1>8. n.type # "BeforeAll" /\ n.type # "ReportAfterEach"
  BY <1>4 DEF Deferred, Cleanups, Teardown
<1>9. Remembered' /\ SetupOnce'
  BY <1>1, <1>6, <1>8, OtherNodesRun
<1>10. Typed'
  <2>1. state' \in States
    BY <1>1, <1>2
  <2>2. log' \in Seq(LogType)
    BY <1>0, <1>6, RunsMine
  <2> QED
    BY <1>0, <1>1, <1>3, <1>5, <2>1, <2>2 DEF Typed, AllPairs
<1>11. Queued'
  <2>1. Len(log') \in Nat /\ Len(log') >= Len(log)
    BY <1>2, <1>5 DEF Grown
  <2>2. ASSUME NEW m \in Range(queue')
        PROVE  /\ m.id \notin afterNodeWasRun'
               /\ (m \in NodesOf(Current) /\ m.type \in Teardown) \/ Deferred(m)'
    <3>0. m \in Node
      BY <1>3 DEF List, Range
    <3>1. m \in Range(queue) /\ m.id # n.id /\ m.id \in Nat
      BY <1>3, <3>0 DEF Node
    <3>2. m.id \notin afterNodeWasRun
          /\ ((m \in NodesOf(Current) /\ m.type \in Teardown) \/ Deferred(m))
      BY <1>0, <1>1, <3>1 DEF Queued
    <3>3. Deferred(m) => Deferred(m)'
      BY <1>2, <2>1, <3>1 DEF Deferred
    <3> QED
      BY <1>1, <3>1, <3>2, <3>3
  <2> QED
    BY <1>1, <2>2 DEF Queued, Current
<1>12. Apart'
  <2>1. \A x \in DOMAIN log': Mine(x)' => \A m \in Range(queue'): m.id # log'[x].id
    BY <1>3, <1>6, RunsApart
  <2>2. ASSUME NEW x \in DOMAIN log', Mine(x)'
        PROVE  /\ log'[x].type # "ReportAfterEach"
               /\ log'[x].type \in SetupTypes \/ log'[x].id \in afterNodeWasRun'
    <3>1. CASE x \in DOMAIN log
      BY <1>0, <1>1, <1>6, <2>2, <3>1, RunsMine DEF Apart
    <3>2. CASE x \notin DOMAIN log
      BY <1>0, <1>1, <1>6, <1>8, <3>2, RunsMine
    <3> QED
      BY <3>1, <3>2
  <2> QED
    BY <1>1, <2>1, <2>2 DEF Apart
<1>13. Passing'
  <2> SUFFICES ASSUME state' = "passed"
               PROVE  SubjectPassed' /\ AllPassed'
    BY <1>1 DEF Passing
  <2>1. state = "passed" /\ how = "passed"
    BY <1>1
  <2>2. SubjectPassed'
    BY <1>0, <1>1, <1>6, <2>1, RunsMine DEF Passing
  <2>3. ASSUME NEW x \in DOMAIN log', Mine(x)'
        PROVE  log'[x].state = "passed"
    <3>1. CASE x \in DOMAIN log
      BY <1>0, <1>1, <1>6, <2>1, <2>3, <3>1, RunsMine DEF Passing, AllPassed
    <3>2. CASE x \notin DOMAIN log
      BY <1>0, <1>6, <2>1, <3>2, RunsMine
    <3> QED
      BY <3>1, <3>2
  <2> QED
    BY <2>2, <2>3 DEF AllPassed
<1> QED
  BY <1>5, <1>7, <1>9, <1>10, <1>11, <1>12, <1>13 DEF Inv

\* SetupNode, for a setup node or the subject.
LEMMA InvSetupNode ==
  ASSUME Inv, NEW how \in Outcomes \union {"skipped"}, NEW defer \in BOOLEAN,
         SetupNode(how, defer)
  PROVE  Inv'
<1>0. /\ Typed /\ Made /\ Queued /\ Logged /\ Apart /\ Remembered /\ Passing
      /\ SetupOnce /\ OncePerAttempt /\ PassedIsPassed
  BY DEF Inv
<1> DEFINE n    == Head(queue)
           pair == RunOncePairFor(Current, n.id)
<1>1. /\ pc = "setup" /\ queue # <<>> /\ RunNode(n, how, defer) /\ state' = how
      /\ UNCHANGED <<group, i, pc, attempt, reports, afterNodeWasRun>>
      /\ tracker' = IF pair = NoPair THEN tracker ELSE [tracker EXCEPT ![pair] = how]
      /\ queue' = IF how = "passed" THEN Tail(queue) ELSE <<>>
  BY DEF SetupNode, groupVars
<1>2. /\ List(queue) /\ i \in DOMAIN group.specs /\ group \in Groups /\ how \in States
      /\ tracker \in [AllPairs -> States]
  BY <1>0, <1>1, OutcomesTyped DEF Typed
<1>3. /\ List(Tail(queue)) /\ n \in Range(queue) /\ n \in Node
      /\ Range(queue) = {n} \union Range(Tail(queue))
      /\ \A m \in Range(Tail(queue)): m \in Range(queue) /\ m.id # n.id
  BY <1>1, <1>2, TailOfList
<1>4. List(queue') /\ \A m \in Range(queue'): m \in Range(queue) /\ m.id # n.id
  <2>1. List(<<>>) /\ Range(<<>>) = {}
    BY DEF List, Range
  <2> QED
    BY <1>1, <1>3, <2>1
<1>5. n \in NodesOf(Current) /\ n.type \in SetupTypes /\ (pair = NoPair \/ tracker[pair] # "passed")
  BY <1>0, <1>1, <1>3 DEF Queued, Due
<1> HIDE DEF n
<1>6. /\ List(cleanupNodes') /\ Made'
      /\ \/ log' = log /\ how = "skipped"
         \/ \E e \in LogType: Grown(e) /\ EntryOf(e, n, how)
  BY <1>0, <1>1, <1>2, <1>3, RunNodeEffect
<1>7. Runs(n, how)
  BY <1>1, <1>3, <1>5, <1>6 DEF Runs
<1>8. Logged' /\ OncePerAttempt' /\ PassedIsPassed'
  BY <1>7, RunsLogged
<1>9. Typed'
  <2>1. log' \in Seq(LogType)
    BY <1>0, <1>7, RunsMine
  <2>2. tracker' \in [AllPairs -> States]
    BY <1>1, <1>2
  <2> QED
    BY <1>0, <1>1, <1>2, <1>4, <1>6, <2>1, <2>2 DEF Typed, AllPairs
\* The pair of another node is another pair, and is left alone.
<1>10. ASSUME NEW j \in DOMAIN group.specs, NEW m \in NodesOf(group.specs[j]), m.id # n.id
       PROVE  LET p == RunOncePairFor(group.specs[j], m.id)
              IN p # NoPair => tracker'[p] = tracker[p]
  <2> DEFINE p == RunOncePairFor(group.specs[j], m.id)
  <2> SUFFICES ASSUME p # NoPair
               PROVE  tracker'[p] = tracker[p]
    OBVIOUS
  <2>1. p[1] = m.id /\ p \in RunOncePairsForSpec(group.specs[j])
    BY <1>2, PairOfNode
  <2>2. p \in AllPairs
    BY <2>1 DEF AllPairs
  <2>3. pair # NoPair => pair[1] = n.id
    BY <1>2, <1>5, PairOfNode DEF Current
  <2>4. p # pair
    BY <1>10, <2>1, <2>3
  <2> QED
    BY <1>1, <1>2, <2>2, <2>4
<1>11. Queued'
  <2>1. ASSUME NEW m \in Range(queue')
        PROVE  m \in NodesOf(Current) /\ m.type \in SetupTypes /\ Due(m)'
    <3>1. m \in NodesOf(Current) /\ m.type \in SetupTypes /\ Due(m) /\ m.id # n.id
      BY <1>0, <1>1, <1>4 DEF Queued
    <3>2. Due(m)'
      BY <1>1, <1>2, <1>10, <3>1 DEF Due, Current
    <3> QED
      BY <3>1, <3>2
  <2> QED
    BY <1>1, <2>1 DEF Queued, Current
<1>12. Apart'
  <2>1. \A x \in DOMAIN log': Mine(x)' => \A m \in Range(queue'): m.id # log'[x].id
    BY <1>4, <1>7, RunsApart
  <2>2. ASSUME NEW x \in DOMAIN log', Mine(x)'
        PROVE  log'[x].type \in SetupTypes
    <3>1. CASE x \in DOMAIN log
      BY <1>0, <1>1, <1>7, <2>2, <3>1, RunsMine DEF Apart
    <3>2. CASE x \notin DOMAIN log
      BY <1>0, <1>5, <1>7, <3>2, RunsMine
    <3> QED
      BY <3>1, <3>2
  <2>3. "ReportAfterEach" \notin SetupTypes
    BY DEF SetupTypes, Setup
  <2> QED
    BY <1>1, <2>1, <2>2, <2>3 DEF Apart
\* A BeforeAll node that is logged under n's ID is n, and has not passed.
<1>13. ASSUME NEW x \in DOMAIN log, log[x].type = "BeforeAll", log[x].id = n.id
       PROVE  log[x].state # "passed"
  <2>1. log[x].type \notin Cleanups /\ log[x].spec \in DOMAIN group.specs
    BY <1>0, <1>13 DEF Cleanups, Logged
  <2>2. PICK m \in NodesOf(group.specs[log[x].spec]): m.id = log[x].id /\ m.type = "BeforeAll"
    BY <1>0, <1>13, <2>1 DEF Logged, Deferred
  <2>3. m = n
    BY <1>2, <1>5, <1>13, <2>1, <2>2, OneNode DEF Current
  <2>4. IsRunOnce(Current, n)
    BY <2>2, <2>3 DEF IsRunOnce
  <2>5. pair # NoPair
    BY <1>2, <1>5, <2>4, PairOfNode DEF Current
  <2> QED
    BY <1>0, <1>2, <1>5, <1>13, <2>5 DEF Remembered, Current
<1>14. Remembered'
  <2> SUFFICES ASSUME NEW x \in DOMAIN log', log'[x].type = "BeforeAll",
                      log'[x].state = "passed", NEW j \in DOMAIN group.specs,
                      NEW m \in NodesOf(group.specs[j]), m.id = log'[x].id
               PROVE  tracker'[RunOncePairFor(group.specs[j], m.id)] = "passed"
    BY <1>1 DEF Remembered
  <2>1. CASE x \in DOMAIN log
    <3>1. log'[x] = log[x]
      BY <1>0, <1>7, <2>1, RunsMine
    <3>2. m.id # n.id
      BY <1>13, <2>1, <3>1
    <3>3. log[x].type \notin Cleanups /\ log[x].spec \in DOMAIN group.specs
      BY <1>0, <2>1, <3>1 DEF Cleanups, Logged
    <3>4. PICK l \in NodesOf(group.specs[log[x].spec]): l.id = log[x].id /\ l.type = "BeforeAll"
      BY <1>0, <2>1, <3>1, <3>3 DEF Logged, Deferred
    <3>5. m.type = "BeforeAll"
      BY <1>2, <3>1, <3>3, <3>4, OneNode
    <3>6. RunOncePairFor(group.specs[j], m.id) # NoPair
      BY <1>2, <3>5, PairOfNode DEF IsRunOnce
    <3> QED
      BY <1>0, <1>10, <2>1, <3>1, <3>2, <3>6 DEF Remembered
  <2>2. CASE x \notin DOMAIN log
    <3>1. m.id = n.id /\ n.type = "BeforeAll" /\ how = "passed"
      BY <1>0, <1>7, <2>2, RunsMine
    <3>2. m = n
      BY <1>2, <1>5, <3>1, OneNode DEF Current
    <3>3. RunOncePairFor(group.specs[j], m.id) = pair
      BY <1>2, <1>5, <3>1, <3>2, PairOfBeforeAll DEF Current
    <3>4. IsRunOnce(Current, n)
      BY <3>1 DEF IsRunOnce
    <3>5. pair # NoPair /\ pair \in RunOncePairsForSpec(Current)
      BY <1>2, <1>5, <3>4, PairOfNode DEF Current
    <3>6. pair \in AllPairs
      BY <1>2, <3>5 DEF AllPairs, Current
    <3> QED
      BY <1>1, <1>2, <3>1, <3>3, <3>5, <3>6
  <2> QED
    BY <2>1, <2>2
<1>15. SetupOnce'
  <2>1. ASSUME NEW x \in DOMAIN log', NEW y \in DOMAIN log', x < y, log'[x].type = "BeforeAll",
               log'[y].id = log'[x].id
        PROVE  log'[x].state # "passed"
    <3>1. x \in DOMAIN log
      <4>1. CASE log' = log
        BY <4>1
      <4>2. ASSUME NEW e \in LogType, Grown(e)
            PROVE  x \in DOMAIN log
        <5>1. /\ DOMAIN log' = (DOMAIN log) \union {Len(log) + 1}
              /\ \A l \in DOMAIN log: l < Len(log) + 1
              /\ DOMAIN log \subseteq Nat /\ Len(log) \in Nat
          BY <1>0, <4>2, LogFields DEF Grown
        <5> QED
          BY <2>1, <5>1
      <4> QED
        BY <1>6, <4>1, <4>2
    <3>2. log'[x] = log[x]
      BY <1>0, <1>7, <3>1, RunsMine
    <3>3. CASE y \in DOMAIN log
      <4>1. log'[y] = log[y]
        BY <1>0, <1>7, <3>3, RunsMine
      <4> QED
        BY <1>0, <2>1, <3>1, <3>2, <3>3, <4>1 DEF SetupOnce
    <3>4. CASE y \notin DOMAIN log
      <4>1. log'[y].id = n.id
        BY <1>0, <1>7, <3>4, RunsMine
      <4> QED
        BY <1>13, <2>1, <3>1, <3>2, <4>1
    <3> QED
      BY <3>3, <3>4
  <2> QED
    BY <2>1 DEF SetupOnce
<1>16. Passing'
  <2> SUFFICES ASSUME queue' # <<>> \/ state' = "passed"
               PROVE  /\ AllPassed'
                      /\ SubjectPassed' \/ \E m \in Range(queue'): m.type = "It"
    BY <1>1 DEF Passing
  <2>1. how = "passed" /\ queue' = Tail(queue)
    BY <1>1
  <2>2. AllPassed /\ (SubjectPassed \/ \E m \in Range(queue): m.type = "It")
    BY <1>0, <1>1 DEF Passing
  <2>3. ASSUME NEW x \in DOMAIN log', Mine(x)'
        PROVE  log'[x].state = "passed"
    <3>1. CASE x \in DOMAIN log
      BY <1>0, <1>7, <2>2, <2>3, <3>1, RunsMine DEF AllPassed
    <3>2. CASE x \notin DOMAIN log
      BY <1>0, <1>7, <2>1, <3>2, RunsMine
    <3> QED
      BY <3>1, <3>2
  <2>4. AllPassed'
    BY <2>3 DEF AllPassed
  <2>5. CASE SubjectPassed
    BY <1>0, <1>7, <2>5, <2>4, RunsMine
  <2>6. CASE n.type = "It"
    <3>1. PICK x \in (DOMAIN log') \ DOMAIN log: TRUE
      BY <1>0, <1>7, <2>1, RunsMine
    <3>2. Mine(x)' /\ log'[x].type = "It" /\ log'[x].state = "passed"
      BY <1>0, <1>7, <2>1, <2>6, <3>1, RunsMine
    <3> QED
      BY <2>4, <3>1, <3>2 DEF SubjectPassed
  <2>7. CASE \E m \in Range(queue'): m.type = "It"
    BY <2>7, <2>4
  <2>8. SubjectPassed \/ n.type = "It" \/ \E m \in Range(queue'): m.type = "It"
    BY <1>3, <2>1, <2>2 DEF n
  <2> QED
    BY <2>5, <2>6, <2>7, <2>8
<1> QED
  BY <1>6, <1>8, <1>9, <1>11, <1>12, <1>14, <1>15, <1>16 DEF Inv

\* Teardown nodes and deferred nodes are listed once, and not if they have run.
LEMMA NodesToRunList ==
  ASSUME Typed, Made, i \in DOMAIN group.specs, NEW b \in BOOLEAN
  PROVE  /\ List(NodesToRun(b))
         /\ \A n \in Range(NodesToRun(b)):
              /\ n.id \notin afterNodeWasRun
              /\ (n \in NodesOf(Current) /\ n.type \in Teardown) \/ Deferred(n)
<1>0. group \in Groups /\ List(cleanupNodes) /\ FirstCleanupID \in Nat
  BY OutcomesTyped DEF Typed
<1> DEFINE t == TeardownNodes(Current)
           P == {x \in DOMAIN t: terminating = NoNode \/ t[x].level <= terminating.level}
<1>1. List(t) /\ \A n \in Range(t): n \in NodesOf(Current) /\ n.type \in Teardown
  BY <1>0, TeardownList DEF Current
<1>2. InReach = Kept(t, P)
  BY DEF InReach
<1>3. List(InReach) /\ \A n \in Range(InReach): n \in NodesOf(Current) /\ n.type \in Teardown
  <2> HIDE DEF t
  <2>1. List(Kept(t, P)) /\ Range(Kept(t, P)) = {t[x]: x \in P}
    BY <1>1, KeptList
  <2>2. Range(Kept(t, P)) \subseteq Range(t)
    BY <2>1 DEF Range
  <2> QED
    BY <1>1, <1>2, <2>1, <2>2
<1> DEFINE each == WithType(cleanupNodes, {"CleanupAfterEach"})
           all  == WithType(cleanupNodes, {"CleanupAfterAll"})
<1>4. /\ List(each) /\ Range(each) = {n \in Range(cleanupNodes): n.type \in {"CleanupAfterEach"}}
      /\ List(all) /\ Range(all) = {n \in Range(cleanupNodes): n.type \in {"CleanupAfterAll"}}
  BY <1>0, WithTypeList
<1>5. /\ List(Reverse(each)) /\ Range(Reverse(each)) = Range(each)
      /\ List(Reverse(all)) /\ Range(Reverse(all)) = Range(all)
  BY <1>4, ReversedList
<1>6. \A m, n \in Range(cleanupNodes): m.id = n.id => m = n
  BY <1>0 DEF List, Range
<1>7. \A m \in Range(Reverse(each)), n \in Range(Reverse(all)): m.id # n.id
  <2> HIDE DEF each, all
  <2> QED
    BY <1>4, <1>5, <1>6
<1> DEFINE d == Reverse(each) \o Reverse(all)
<1>8. List(d) /\ \A n \in Range(d): n \in Range(cleanupNodes) /\ Deferred(n)
  <2> HIDE DEF each, all
  <2>1. List(d) /\ Range(d) = Range(Reverse(each)) \union Range(Reverse(all))
    BY <1>5, <1>7, JoinedList
  <2> QED
    BY <1>4, <1>5, <2>1 DEF Made
<1>9. \A m \in Range(InReach), n \in Range(d): m.id # n.id
  <2>1. \A m \in Range(InReach): m.id \in Nat /\ m.id < FirstCleanupID
    BY <1>0, <1>3, SpecNodes DEF Current
  <2>2. \A n \in Range(d): n.id >= FirstCleanupID
    BY <1>8 DEF Deferred
  <2> QED
    BY <1>0, <2>1, <2>2
<1> DEFINE s == IF b THEN InReach \o d ELSE InReach
           Q == {x \in DOMAIN s: ShouldRun(s[x])}
<1>10. NodesToRun(b) = Kept(s, Q)
  BY DEF NodesToRun
<1> HIDE DEF d
<1>11. /\ List(s)
       /\ \A n \in Range(s): (n \in NodesOf(Current) /\ n.type \in Teardown) \/ Deferred(n)
  <2>1. List(InReach \o d) /\ Range(InReach \o d) = Range(InReach) \union Range(d)
    BY <1>3, <1>8, <1>9, JoinedList
  <2> QED
    BY <1>3, <1>8, <2>1
<1> HIDE DEF s
<1>12. List(Kept(s, Q)) /\ Range(Kept(s, Q)) = {s[x]: x \in Q}
  BY <1>11, KeptList
<1>13. \A x \in Q: s[x] \in Range(s) /\ s[x].id \notin afterNodeWasRun
  BY DEF Range, ShouldRun
<1> HIDE DEF Q
<1> QED
  BY <1>10, <1>11, <1>12, <1>13

\* A step that runs no node leaves what is said of the log alone.
LEMMA NothingRun ==
  ASSUME Inv, UNCHANGED <<group, log, tracker, cleanupNodes>>
  PROVE  /\ Made' /\ Remembered' /\ SetupOnce' /\ OncePerAttempt'
         /\ i' = i /\ reports' = reports => PassedIsPassed'
<1>0. Made /\ Remembered /\ SetupOnce /\ OncePerAttempt /\ PassedIsPassed
  BY DEF Inv
<1>1. Made' /\ Remembered'
  BY <1>0 DEF Made, Deferred, Remembered
<1>2. SetupOnce' /\ OncePerAttempt'
  BY <1>0 DEF SetupOnce, OncePerAttempt
<1>3. i' = i /\ reports' = reports => PassedIsPassed'
  BY <1>0 DEF PassedIsPassed
<1> QED
  BY <1>1, <1>2, <1>3

\* A node of the spec has not been run in this attempt if none of its type has.
LEMMA TypeNotRun ==
  ASSUME Inv, i \in DOMAIN group.specs, NEW n, NEW x \in DOMAIN log, Mine(x),
         n \in NodesOf(Current), log[x].type # n.type
  PROVE  n.id # log[x].id
<1>0. Typed /\ Logged /\ group \in Groups /\ FirstCleanupID \in Nat
  BY OutcomesTyped DEF Inv, Typed
<1>1. n.id \in Nat /\ n.id < FirstCleanupID
  BY <1>0, SpecNodes DEF Current
<1>2. log[x].id \in Nat /\ log[x].spec = i
  BY <1>0, LogFields DEF Mine
<1>3. CASE Deferred(log[x])
  BY <1>0, <1>1, <1>2, <1>3 DEF Deferred
<1>4. CASE \E m \in NodesOf(Current): m.id = log[x].id /\ m.type = log[x].type
  BY <1>0, <1>4, OneNode DEF Current
<1> QED
  BY <1>0, <1>2, <1>3, <1>4 DEF Logged, Current

\* BeginSpec: nothing of this spec has been run yet.
LEMMA InvBeginSpec ==
  ASSUME Inv, BeginSpec
  PROVE  Inv'
<1>0. Typed /\ Logged /\ group \in Groups /\ i \in Nat \ {0}
  BY DEF Inv, Typed
<1> DEFINE q == Ascending(WithType(Current.nodes, {"ReportBeforeEach"}))
<1>1. /\ pc = "next" /\ i <= Len(group.specs) /\ pc' = "reportBefore" /\ attempt' = 0
      /\ queue' = q /\ state' = EvaluateSkipStatus(Current)
      /\ UNCHANGED <<group, i, tracker, cleanupNodes, reports, log>>
  BY DEF BeginSpec, groupVars
<1>2. i \in DOMAIN group.specs
  BY <1>0, <1>1, GroupTyped
<1>3. List(q) /\ \A n \in Range(q): n \in NodesOf(Current) /\ n.type = "ReportBeforeEach"
  BY <1>0, <1>2, ReportList DEF Current
<1> HIDE DEF q
<1>4. /\ Made' /\ Remembered' /\ SetupOnce' /\ OncePerAttempt' /\ PassedIsPassed'
  BY <1>1, NothingRun
<1>5. state' \in States
  BY <1>1 DEF EvaluateSkipStatus, States
<1>6. Typed'
  BY <1>0, <1>1, <1>2, <1>3, <1>5 DEF Typed, PCs, AllPairs
<1>7. Queued'
  BY <1>1, <1>3 DEF Queued, Current
<1>8. \A x \in DOMAIN log: log[x].spec # i
  BY <1>0, <1>1 DEF Logged
<1>9. Logged'
  BY <1>0, <1>1, <1>8 DEF Logged, Deferred
<1>10. Apart'
  BY <1>1, <1>8 DEF Apart, Mine
<1>11. Passing'
  BY <1>1 DEF Passing
<1> QED
  BY <1>4, <1>6, <1>7, <1>9, <1>10, <1>11 DEF Inv

\* After the attempts, or without one, the ReportAfterEach nodes are run.
LEMMA ReportAfterNext ==
  ASSUME Inv, i \in DOMAIN group.specs, pc # "reportAfter", ReportAfter,
         UNCHANGED <<group, i, attempt, log>>
  PROVE  List(queue') /\ Queued' /\ Apart' /\ pc' = "reportAfter"
<1>0. Typed /\ Apart /\ group \in Groups
  BY DEF Inv, Typed
<1> DEFINE q == Descending(WithType(Current.nodes, {"ReportAfterEach"}))
<1>1. pc' = "reportAfter" /\ queue' = q
  BY DEF ReportAfter
<1>2. List(q) /\ \A n \in Range(q): n \in NodesOf(Current) /\ n.type = "ReportAfterEach"
  BY <1>0, ReportList DEF Current
<1> HIDE DEF q
<1>3. Queued'
  BY <1>1, <1>2 DEF Queued, Current
<1>4. ASSUME NEW x \in DOMAIN log, Mine(x), NEW n \in Range(q)
      PROVE  n.id # log[x].id
  <2>1. log[x].type # n.type
    BY <1>0, <1>2, <1>4 DEF Apart
  <2> QED
    BY <1>2, <1>4, <2>1, TypeNotRun
<1>5. Apart'
  BY <1>1, <1>4 DEF Apart, Mine
<1> QED
  BY <1>1, <1>2, <1>3, <1>5

\* RunOrSkip: a spec that is not attempted has not passed, or it is a dry run.
LEMMA InvRunOrSkip ==
  ASSUME Inv, RunOrSkip
  PROVE  Inv'
<1>0. Typed /\ Logged /\ Apart
  BY DEF Inv
<1>1. /\ pc = "reportBefore" /\ queue = <<>>
      /\ \/ ReportAfter /\ (group.dryRun \/ state # "passed")
         \/ pc' = "attempt" /\ queue' = queue
      /\ UNCHANGED <<group, i, state, attempt, tracker, cleanupNodes, reports, log>>
  BY DEF RunOrSkip, groupVars, Failures
<1>2. i \in DOMAIN group.specs
  BY <1>0, <1>1 DEF Typed
<1>3. /\ Made' /\ Remembered' /\ SetupOnce' /\ OncePerAttempt' /\ PassedIsPassed'
  BY <1>1, NothingRun
<1>4. CASE ReportAfter /\ (group.dryRun \/ state # "passed")
  <2>1. List(queue') /\ Queued' /\ Apart' /\ pc' = "reportAfter"
    BY <1>1, <1>2, <1>4, ReportAfterNext
  <2>2. Typed'
    BY <1>0, <1>1, <1>2, <2>1 DEF Typed, PCs, AllPairs
  <2>3. Logged'
    BY <1>0, <1>1, <2>1 DEF Logged, Deferred
  <2>4. Passing'
    BY <1>1, <1>4, <2>1 DEF Passing
  <2> QED
    BY <1>3, <2>1, <2>2, <2>3, <2>4 DEF Inv
<1>5. CASE pc' = "attempt" /\ queue' = queue
  <2>1. Typed'
    BY <1>0, <1>1, <1>2, <1>5 DEF Typed, PCs, AllPairs
  <2>2. Queued' /\ Passing'
    BY <1>5 DEF Queued, Passing
  <2>3. Logged'
    BY <1>0, <1>1, <1>5 DEF Logged, Deferred
  <2>4. Apart'
    BY <1>0, <1>1, <1>5 DEF Apart, Mine
  <2> QED
    BY <1>3, <2>1, <2>2, <2>3, <2>4 DEF Inv
<1> QED
  BY <1>1, <1>4, <1>5

\* EndAttempt: a state of passed is handed on to the reporting nodes.
LEMMA InvEndAttempt ==
  ASSUME Inv, EndAttempt
  PROVE  Inv'
<1>0. Typed /\ Logged /\ Apart /\ Passing
  BY DEF Inv
<1>1. /\ pc = "endAttempt" /\ (ReportAfter \/ (pc' = "attempt" /\ queue' = queue))
      /\ UNCHANGED <<group, i, state, attempt, tracker, cleanupNodes, reports, log>>
  BY DEF EndAttempt, groupVars
<1>2. i \in DOMAIN group.specs
  BY <1>0, <1>1 DEF Typed
<1>3. /\ Made' /\ Remembered' /\ SetupOnce' /\ OncePerAttempt' /\ PassedIsPassed'
  BY <1>1, NothingRun
<1>4. CASE ReportAfter
  <2>1. List(queue') /\ Queued' /\ Apart' /\ pc' = "reportAfter"
    BY <1>1, <1>2, <1>4, ReportAfterNext
  <2>2. Typed'
    BY <1>0, <1>1, <1>2, <2>1 DEF Typed, PCs, AllPairs
  <2>3. Logged'
    BY <1>0, <1>1, <2>1 DEF Logged, Deferred
  <2>4. state = "passed" => SubjectPassed /\ AllPassed
    BY <1>0, <1>1 DEF Passing
  <2>5. Passing'
    BY <1>1, <2>1, <2>4 DEF Passing, SubjectPassed, AllPassed, Mine
  <2> QED
    BY <1>3, <2>1, <2>2, <2>3, <2>5 DEF Inv
<1>5. CASE pc' = "attempt" /\ queue' = queue
  <2>1. Typed'
    BY <1>0, <1>1, <1>2, <1>5 DEF Typed, PCs, AllPairs
  <2>2. Queued' /\ Passing'
    BY <1>5 DEF Queued, Passing
  <2>3. Logged'
    BY <1>0, <1>1, <1>5 DEF Logged, Deferred
  <2>4. Apart'
    BY <1>0, <1>1, <1>5 DEF Apart, Mine
  <2> QED
    BY <1>3, <2>1, <2>2, <2>3, <2>4 DEF Inv
<1> QED
  BY <1>1, <1>4, <1>5

\* StartAttempt: nothing has been run in the new attempt.
LEMMA InvStartAttempt ==
  ASSUME Inv, StartAttempt
  PROVE  Inv'
<1>0. Typed /\ Logged /\ attempt \in Nat
  BY DEF Inv, Typed
<1> DEFINE q == StillToRun(Current)
<1>1. /\ pc = "attempt" /\ pc' = "setup" /\ attempt' = attempt + 1 /\ queue' = q
      /\ UNCHANGED <<group, i, state, tracker, cleanupNodes, reports, log>>
  BY DEF StartAttempt, groupVars
<1>2. i \in DOMAIN group.specs
  BY <1>0, <1>1 DEF Typed
<1>3. /\ List(q) /\ \A n \in Range(q): n \in NodesOf(Current) /\ n.type \in SetupTypes /\ Due(n)
      /\ \E n \in Range(q): n.type = "It"
  BY <1>0, <1>2, StillToRunList
<1> HIDE DEF q
<1>4. /\ Made' /\ Remembered' /\ SetupOnce' /\ OncePerAttempt' /\ PassedIsPassed'
  BY <1>1, NothingRun
<1>5. Typed'
  BY <1>0, <1>1, <1>2, <1>3 DEF Typed, PCs, AllPairs
<1>6. Queued'
  BY <1>1, <1>3 DEF Queued, Current, Due
<1>7. \A x \in DOMAIN log: log[x].attempt \in Nat
  BY <1>0, LogFields
<1>8. Logged'
  BY <1>0, <1>1, <1>7 DEF Logged, Deferred
<1>9. \A x \in DOMAIN log: log[x].spec = i => log[x].attempt # attempt + 1
  BY <1>0, <1>7 DEF Logged
<1>10. Apart'
  BY <1>1, <1>9 DEF Apart, Mine
<1>11. AllPassed'
  BY <1>1, <1>9 DEF AllPassed, Mine
<1>12. Passing'
  BY <1>1, <1>3, <1>11 DEF Passing
<1> QED
  BY <1>4, <1>5, <1>6, <1>8, <1>10, <1>12 DEF Inv

\* SelectTeardown: what is chosen has not been run in this attempt; its setup
\* nodes are none of the teardown nodes, and afterNodeWasRun has the rest.
LEMMA InvSelectTeardown ==
  ASSUME Inv, SelectTeardown
  PROVE  Inv'
<1>0. Typed /\ Made /\ Logged /\ Apart /\ Passing /\ group \in Groups /\ FirstCleanupID \in Nat
  BY OutcomesTyped DEF Inv, Typed
<1> DEFINE q == NodesToRun(pc = "teardown")
<1>1. /\ pc \in {"setup", "teardown"} /\ queue = <<>> /\ queue' = q
      /\ pc' \in {"teardown", "endAttempt"}
      /\ UNCHANGED <<group, i, state, attempt, afterNodeWasRun, tracker, cleanupNodes, reports,
                     log>>
  BY DEF SelectTeardown, groupVars
<1>2. i \in DOMAIN group.specs
  BY <1>0, <1>1 DEF Typed
<1>3. /\ List(q)
      /\ \A n \in Range(q): /\ n.id \notin afterNodeWasRun
                            /\ (n \in NodesOf(Current) /\ n.type \in Teardown) \/ Deferred(n)
  BY <1>0, <1>2, NodesToRunList
<1> HIDE DEF q
<1>4. /\ Made' /\ Remembered' /\ SetupOnce' /\ OncePerAttempt' /\ PassedIsPassed'
  BY <1>1, NothingRun
<1>5. Typed'
  BY <1>0, <1>1, <1>2, <1>3 DEF Typed, PCs, AllPairs
<1>6. Queued'
  BY <1>1, <1>3 DEF Queued, Current, Deferred
<1>7. Logged'
  BY <1>0, <1>1 DEF Logged, Deferred
\* What has run in this attempt was setup, or is in afterNodeWasRun.
<1>8. ASSUME NEW x \in DOMAIN log, Mine(x)
      PROVE  /\ log[x].type \in SetupTypes \/ log[x].id \in afterNodeWasRun
             /\ log[x].type # "ReportAfterEach"
  BY <1>0, <1>1, <1>8 DEF Apart
<1>9. ASSUME NEW x \in DOMAIN log, Mine(x), NEW n \in Range(q)
      PROVE  n.id # log[x].id
  <2>1. CASE log[x].id \in afterNodeWasRun
    BY <1>3, <2>1
  <2>2. CASE log[x].type \in SetupTypes /\ n \in NodesOf(Current) /\ n.type \in Teardown
    <3>1. log[x].type # n.type
      BY <2>2 DEF SetupTypes, Setup, Teardown
    <3> QED
      BY <1>2, <1>9, <2>2, <3>1, TypeNotRun
  <2>3. CASE log[x].type \in SetupTypes /\ Deferred(n)
    <3>1. ~Deferred(log[x]) /\ log[x].spec = i
      BY <1>9, <2>3 DEF Deferred, SetupTypes, Setup, Cleanups, Mine
    <3>2. PICK m \in NodesOf(Current): m.id = log[x].id
      BY <1>0, <3>1 DEF Logged, Current
    <3>3. m.id \in Nat /\ m.id < FirstCleanupID
      BY <1>0, <1>2, SpecNodes DEF Current
    <3> QED
      BY <1>0, <2>3, <3>2, <3>3 DEF Deferred
  <2> QED
    BY <1>3, <1>8, <1>9, <2>1, <2>2, <2>3
<1>10. Apart'
  BY <1>1, <1>8, <1>9 DEF Apart, Mine
<1>11. state = "passed" => SubjectPassed /\ AllPassed
  <2>1. Range(queue) = {}
    BY <1>1 DEF Range
  <2> QED
    BY <1>0, <1>1, <2>1 DEF Passing
<1>12. Passing'
  BY <1>1, <1>11 DEF Passing, SubjectPassed, AllPassed, Mine
<1> QED
  BY <1>4, <1>5, <1>6, <1>7, <1>10, <1>12 DEF Inv

\* EndSpec: what is reported as passed is what Passing says of the attempt.
LEMMA InvEndSpec ==
  ASSUME Inv, EndSpec
  PROVE  Inv'
<1>0. Typed /\ Logged /\ Apart /\ Passing /\ PassedIsPassed /\ i \in Nat \ {0}
  BY DEF Inv, Typed
<1>1. /\ pc = "reportAfter" /\ pc' = "next" /\ i' = i + 1
      /\ reports' = [reports EXCEPT ![i] = state]
      /\ UNCHANGED <<group, state, attempt, queue, afterNodeWasRun, tracker, cleanupNodes, log>>
  BY DEF EndSpec, loopVars
<1>2. i \in DOMAIN group.specs /\ reports \in [DOMAIN group.specs -> States]
  BY <1>0, <1>1 DEF Typed
<1>3. Made' /\ Remembered' /\ SetupOnce' /\ OncePerAttempt'
  BY <1>1, NothingRun
<1>4. Typed'
  <2>1. reports' \in [DOMAIN group.specs -> States]
    BY <1>0, <1>1, <1>2 DEF Typed
  <2> QED
    BY <1>0, <1>1, <2>1 DEF Typed, PCs, AllPairs
<1>5. Queued' /\ Passing'
  BY <1>1 DEF Queued, Passing
<1>6. \A x \in DOMAIN log: log[x].spec \in Nat /\ log[x].attempt \in Nat
  BY <1>0, LogFields
<1>7. Logged'
  BY <1>0, <1>1, <1>6 DEF Logged, Deferred
<1>8. \A x \in DOMAIN log: log[x].spec # i + 1
  BY <1>0, <1>6 DEF Logged
<1>9. Apart'
  BY <1>1, <1>8 DEF Apart, Mine
<1>10. PassedIsPassed'
  <2> DEFINE Good(j) == \E x \in DOMAIN log:
               /\ log[x].spec = j /\ log[x].type = "It" /\ log[x].state = "passed"
               /\ \A y \in DOMAIN log: log[y].spec = j /\ log[y].attempt = log[x].attempt
                    => log[y].state = "passed"
                       \/ (log[y].type \in Reports /\ log[y].state \notin Failures)
               /\ ~\E y \in DOMAIN log: log[y].spec = j /\ log[y].attempt > log[x].attempt
  <2>1. ASSUME NEW j \in 1..(i - 1), reports[j] = "passed", ~group.dryRun
        PROVE  Good(j)
    BY <1>0, <2>1 DEF PassedIsPassed
  <2>2. ASSUME state = "passed", ~group.dryRun
        PROVE  Good(i)
    <3>1. /\ SubjectPassed
          /\ \A x \in DOMAIN log: Mine(x) =>
               log[x].state = "passed" \/ (log[x].type \in Reports /\ log[x].state \notin Failures)
      BY <1>0, <1>1, <2>2 DEF Passing
    <3>2. PICK x \in DOMAIN log: Mine(x) /\ log[x].type = "It" /\ log[x].state = "passed"
      BY <3>1 DEF SubjectPassed
    <3>3. \A y \in DOMAIN log: log[y].spec = i => ~(log[y].attempt > log[x].attempt)
      BY <1>0, <1>6, <3>2 DEF Logged, Mine, Typed
    <3> QED
      BY <3>1, <3>2, <3>3 DEF Mine
  <2>3. ASSUME NEW j \in 1..i, reports'[j] = "passed", ~group.dryRun
        PROVE  Good(j)
    <3>1. CASE j = i
      BY <1>1, <1>2, <2>2, <2>3, <3>1
    <3>2. CASE j # i
      <4>1. j \in 1..(i - 1) /\ reports'[j] = reports[j]
        BY <1>0, <1>1, <1>2, <3>2
      <4> QED
        BY <2>1, <2>3, <4>1
    <3> QED
      BY <3>1, <3>2
  <2>4. 1..(i' - 1) = 1..i
    BY <1>0, <1>1
  <2>5. \A j \in 1..(i' - 1): reports'[j] = "passed" /\ ~group'.dryRun => Good(j)
    BY <1>1, <2>3, <2>4
  <2> QED
    BY <1>1, <2>5 DEF PassedIsPassed
<1> QED
  BY <1>3, <1>4, <1>5, <1>7, <1>9, <1>10 DEF Inv

\* Signals and the deadline concern the nodes that are still to be run.
LEMMA InvUnchanged ==
  ASSUME Inv, UNCHANGED <<group, i, pc, queue, state, attempt, afterNodeWasRun, tracker,
                          cleanupNodes, reports, log>>
  PROVE  Inv'
<1>0. Typed /\ Queued /\ Logged /\ Apart /\ Passing
  BY DEF Inv
<1>1. Made' /\ Remembered' /\ SetupOnce' /\ OncePerAttempt' /\ PassedIsPassed'
  BY NothingRun
<1>2. Typed'
  BY <1>0 DEF Typed, AllPairs
<1>3. Queued'
  BY <1>0 DEF Queued, Current, Due, Deferred
<1>4. Logged'
  BY <1>0 DEF Logged, Deferred
<1>5. Apart'
  BY <1>0 DEF Apart, Mine
<1>6. Passing'
  BY <1>0 DEF Passing, SubjectPassed, AllPassed, Mine
<1> QED
  BY <1>1, <1>2, <1>3, <1>4, <1>5, <1>6 DEF Inv

-----------------------------------------------------------------------------
(* The theorems                                                            *)

\* The invariant holds before the first spec.
LEMMA InvInit == Init => Inv
<1> SUFFICES ASSUME Init
             PROVE  Inv
  OBVIOUS
<1>1. /\ group \in Groups /\ i = 1 /\ pc = "next" /\ queue = <<>> /\ state = "invalid"
      /\ attempt = 0 /\ cleanupNodes = <<>> /\ log = <<>>
      /\ tracker = [p \in AllPairs |-> "invalid"]
      /\ reports = [j \in DOMAIN group.specs |-> "invalid"]
  BY DEF Init
<1>2. List(<<>>) /\ Range(<<>>) = {}
  BY DEF List, Range
<1>3. DOMAIN log = {} /\ log \in Seq(LogType)
  BY <1>1
<1>4. "invalid" \in States
  BY DEF States
<1>5. tracker \in [AllPairs -> States] /\ reports \in [DOMAIN group.specs -> States]
  BY <1>1, <1>4
<1>6. Typed
  BY <1>1, <1>2, <1>3, <1>4, <1>5 DEF Typed, PCs
<1>7. Made
  BY <1>1, <1>2 DEF Made
<1>8. Queued /\ Passing
  BY <1>1 DEF Queued, Passing
<1>9. Logged /\ Apart /\ Remembered
  BY <1>3 DEF Logged, Apart, Remembered
<1>10. SetupOnce /\ OncePerAttempt
  BY <1>3 DEF SetupOnce, OncePerAttempt
<1>11. PassedIsPassed
  BY <1>1 DEF PassedIsPassed
<1> QED
  BY <1>6, <1>7, <1>8, <1>9, <1>10, <1>11 DEF Inv

\* Every step keeps the invariant.
LEMMA InvNext == Inv /\ [Next]_vars => Inv'
<1> SUFFICES ASSUME Inv, [Next]_vars
             PROVE  Inv'
  OBVIOUS
<1>1. CASE BeginSpec
  BY <1>1, InvBeginSpec
<1>2. CASE RunOrSkip
  BY <1>2, InvRunOrSkip
<1>3. CASE StartAttempt
  BY <1>3, InvStartAttempt
<1>4. CASE SelectTeardown
  BY <1>4, InvSelectTeardown
<1>5. CASE EndAttempt
  BY <1>5, InvEndAttempt
<1>6. CASE EndSpec
  BY <1>6, InvEndSpec
<1>7. ASSUME NEW how \in Outcomes \union {"skipped"}, ReportNode(how)
      PROVE  Inv'
  BY <1>7, InvReportNode
<1>8. ASSUME NEW how \in Outcomes \union {"skipped"}, NEW defer \in BOOLEAN,
             SetupNode(how, defer)
      PROVE  Inv'
  BY <1>8, InvSetupNode
<1>9. ASSUME NEW how \in Outcomes \union {"skipped"}, NEW defer \in BOOLEAN,
             TeardownNode(how, defer)
      PROVE  Inv'
  BY <1>9, InvTeardownNode
<1>10. CASE Signal \/ DeadlinePasses \/ Done \/ UNCHANGED vars
  <2>1. UNCHANGED <<group, i, pc, queue, state, attempt, afterNodeWasRun, tracker,
                    cleanupNodes, reports, log>>
    BY <1>10 DEF Signal, DeadlinePasses, Done, vars, loopVars, groupVars
  <2> QED
    BY <2>1, InvUnchanged
<1> QED
  BY <1>1, <1>2, <1>3, <1>4, <1>5, <1>6, <1>7, <1>8, <1>9, <1>10 DEF Next

\* The invariant always holds.
LEMMA InvAlways == Spec => []Inv
BY InvInit, InvNext, PTL DEF Spec

\* Whatever the nodes do, however often a spec is attempted and whatever is
\* interrupted, a BeforeAll node that has passed is not run again, neither for
\* another spec of its container nor in another attempt: runOnceTracker, which
\* attemptSpec consults under the pair of node and container, remembers it.
THEOREM SetupIsNotRepeated == Spec => []SetupOnce
<1>1. Inv => SetupOnce
  BY DEF Inv
<1> QED
  BY <1>1, InvAlways, PTL

\* However often the loop over the teardown nodes comes round and whatever is
\* deferred meanwhile, attemptSpec runs no node twice in an attempt.
THEOREM NodesRunOnce == Spec => []OncePerAttempt
<1>1. Inv => OncePerAttempt
  BY DEF Inv
<1> QED
  BY <1>1, InvAlways, PTL

\* A spec that group.run reports as passed ran its subject in its last attempt,
\* and all setup, teardown and deferred nodes of that attempt passed.
THEOREM PassedMeansPassed == Spec => []PassedIsPassed
<1>1. Inv => PassedIsPassed
  BY DEF Inv
<1> QED
  BY <1>1, InvAlways, PTL
=============================================================================
