-------------------------- MODULE SuiteReportProofs --------------------------
(***************************************************************************)
(* Proofs about SuiteReport, for any number of specs, any programs of      *)
(* calls and any number of progress reports: no progress report mixes two  *)
(* specs, what a spec reports is filed under it, and its cleanup nodes are *)
(* run once, in order.  That reports end is liveness and stays with TLC.   *)
(***************************************************************************)
EXTENDS SuiteReport, FiniteSetTheorems, TLAPS

-----------------------------------------------------------------------------
(* The parts of the inductive invariant                                    *)

NodeIds    == Nat \X Nat
CleanupIds == Specs \X (Nat \ {0})
RunIds     == CleanupIds \union {It(n): n \in Specs}
Cleanups   == [id: CleanupIds, by: Specs, owner: NodeIds]
Snapshots  == [spec: Nat, node: NodeIds, step: Nat]
Filings    == [by: Generators, of: Snapshots]
ReportType == [spec: Nat, events: Seq(RunIds), entries: Seq(Specs), progress: Seq(Filings)]

\* Where the suite's goroutine is in the run of a node.
Starting == {"remove", "assign", "start", "enter", "context"}
Ending   == {"leave", "clear", "next"}
InSpec   == Starting \union {"select"} \union Ending \union {"process", "reset"}
PCs      == InSpec \union {"spec", "end", "exited"}

MainType == [pc: PCs, node: NodeIds, todo: Seq(Cleanups), read: Seq(Cleanups),
             over: SUBSET NodeIds]
BodyType == [program: Seq(Calls), calls: Nat, state: {"none", "running", "returned"},
             call: Calls \union {"none"}, stage: {0, 1, 2}, owner: NodeIds,
             read: Seq(Cleanups), leaked: BOOLEAN, late: BOOLEAN]
Cases == {"poll", "timeout", "interrupt", "unshown", "leak"}
GeneratorType == [pc: {"idle", "lock", "query", "emit"}, why: Cases \union {"signal"},
                  ask: Seq(Reporters), count: Nat, snap: Snapshots]

StructOK ==
  /\ currentSpecReport \in ReportType /\ reports \in Seq(ReportType)
  /\ currentNode \in NodeIds /\ currentByStep \in Nat
  /\ currentSpecContext \in {None} \union RunIds
  /\ attached \in [Specs -> Seq(Reporters)]
  /\ lock \in Generators \union {"free", "body"}
ListsOK == cleanupNodes \in Seq(Cleanups) /\ ran \in Seq(CleanupIds)
TypeOK  == /\ StructOK /\ ListsOK
           /\ main \in MainType /\ body \in [Specs -> BodyType]
           /\ gen \in [Generators -> GeneratorType]

spec == currentSpecReport.spec

\* The specs are run one after the other; currentNode is what is run.
Position ==
  /\ main.pc = "spec" => Len(reports) + 1 \in Specs /\ main.node = It(Len(reports) + 1)
  /\ main.pc \in InSpec =>
       /\ spec \in Specs /\ spec = Len(reports) + (IF main.pc = "reset" THEN 0 ELSE 1)
       /\ main.node = It(spec) \/ main.node \in CleanupIds
  /\ main.pc = "select" => main.node = It(spec)
  /\ main.pc \in {"enter", "context", "select", "leave", "clear"} => currentNode = main.node
  /\ main.pc \in {"spec", "remove", "assign", "start", "next", "process", "reset"}
       => currentNode = None

\* A body that runs is the one the suite waits for, or leaked.
Running ==
  \A n \in Specs: body[n].state = "running" =>
    body[n].leaked \/ main.pc = "exited" \/ (main.pc = "select" /\ main.node = It(n))

\* The suite's goroutine takes a report while its node runs.
Taken ==
  /\ gen["suite"].pc # "idle" => main.pc \in {"select", "exited"}
  /\ main.pc = "select" /\ gen["suite"].pc = "emit" =>
       gen["suite"].snap.spec = spec /\ gen["suite"].snap.node = It(spec)

\* What is in report r is about spec i.
About(r, i) ==
  /\ \A e \in Range(r.entries): e = i \/ body[e].leaked
  /\ \A e \in Range(r.events): ~IsCleanup(e) => e = It(i) \/ body[e[1]].leaked
  /\ \A p \in Range(r.progress): p.by = "suite" => p.of.spec = i /\ p.of.node = It(i)

Filed ==
  /\ main.pc \in InSpec => About(currentSpecReport, spec)
  /\ \A i \in DOMAIN reports: reports[i].spec = i /\ About(reports[i], i)

Exited == main.pc = "exited" => \E n \in Specs: body[n].leaked

\* A body in a call has begun it.
Counted == \A n \in Specs: body[n].call # "none" => body[n].calls > 0 /\ body[n].state = "running"

Own == TypeOK /\ Counted /\ Position /\ Running /\ Taken /\ SnapshotConsistent /\ Filed /\ Exited

\* The bodies of later specs have not been started.
Unstarted(n) == body[n].state = "none" /\ body[n].calls = 0
Later ==
  /\ main.pc = "spec" => \A n \in Specs: n > Len(reports) => Unstarted(n)
  /\ main.pc \in InSpec =>
       \A n \in Specs: n > spec \/ (n = spec /\ main.pc \in Starting /\ main.node = It(spec))
                         => Unstarted(n)

\* A body the suite waits for defers a cleanup node of its own, and nobody
\* else touches the list in the meantime.
Deferring ==
  LET b == body[spec] IN
    main.pc = "select" /\ b.call = "DeferCleanup" /\ ~b.leaked =>
      /\ b.stage > 0 => b.owner = It(spec)
      /\ b.stage = 2 => b.read = cleanupNodes

Ids(s)     == {s[i].id: i \in DOMAIN s}
Rising(s)  == \A i, j \in DOMAIN s: i < j => s[i].id[2] < s[j].id[2]
Falling(s) == \A i, j \in DOMAIN s: i < j => s[j].id[2] < s[i].id[2]

\* A list of cleanup nodes of the current spec, in the order of the calls.
Listed(s) ==
  /\ Rising(s)
  /\ \A i \in DOMAIN s:
       /\ s[i].by = spec /\ s[i].owner = It(spec) /\ s[i].id[1] = spec
       /\ s[i].id[2] <= body[spec].calls
       /\ body[spec].call = "DeferCleanup" => s[i].id[2] < body[spec].calls

\* Before its node is run a spec has no cleanup nodes, and none was run.
Fresh ==
  /\ main.pc \in {"spec", "end", "process", "reset"} => cleanupNodes = <<>>
  /\ main.pc = "spec" => main.todo = <<>> /\ main.over = {}
  /\ main.pc \in Starting /\ main.node = It(spec) => cleanupNodes = <<>>
  /\ main.pc \in Starting \union {"select"} \union Ending /\ main.node = It(spec) =>
       /\ main.todo = <<>> /\ main.over = {}
       /\ \A i \in DOMAIN ran: ran[i][1] < spec

\* The nodes that are over come after c in the list.
Passed(over, c) == \A x \in over: x = It(spec) \/ (x \in CleanupIds /\ c[2] < x[2])

\* The cleanup nodes are run from the last to the first.
Unwinding ==
  main.pc \in Starting \union Ending /\ main.node \in CleanupIds =>
    /\ main.node[1] = spec /\ Passed(main.over, main.node)
    /\ Falling(main.todo) /\ \A x \in Ids(main.todo): x[1] = spec /\ x[2] < main.node[2]
    /\ Ids(cleanupNodes) = Ids(main.todo)
         \union (IF main.pc \in {"remove", "assign"} THEN {main.node} ELSE {})
    /\ main.pc = "assign" => Listed(main.read) /\ Ids(main.read) = Ids(main.todo)
    /\ \A i \in DOMAIN ran: ran[i][1] = spec =>
         main.node[2] < ran[i][2] \/ (main.pc \in Ending /\ main.node[2] = ran[i][2])

\* What was run so far, in order.
Ran ==
  /\ \A i, j \in DOMAIN ran:
       i < j => ran[i][1] < ran[j][1] \/ (ran[i][1] = ran[j][1] /\ ran[i][2] > ran[j][2])
  /\ main.pc \in InSpec => \A i \in DOMAIN ran: ran[i][1] <= spec
  /\ main.pc = "spec" => \A i \in DOMAIN ran: ran[i][1] <= Len(reports)

Pending(n, k) ==
  \/ <<n, k>> \in Range(ran) \/ <<n, k>> \in Ids(cleanupNodes)
  \/ main.pc \in Starting /\ main.node = <<n, k>>
  \/ body[n].call = "DeferCleanup" /\ k = body[n].calls

\* No cleanup node is lost, unless a second interrupt keeps it from being run.
Uninterrupted == status.level < 2
Complete ==
  Uninterrupted =>
    /\ main.pc \in InSpec /\ ~body[spec].leaked =>
         \A k \in 1..body[spec].calls: body[spec].program[k] = "DeferCleanup" => Pending(spec, k)
    /\ \A n \in DOMAIN reports: ~body[n].leaked =>
         \A k \in 1..body[n].calls: body[n].program[k] = "DeferCleanup" => <<n, k>> \in Range(ran)

Cleaning == ~LeakedPush =>
              Deferring /\ Listed(cleanupNodes) /\ Fresh /\ Unwinding /\ Ran /\ Complete

-----------------------------------------------------------------------------
(* Types                                                                   *)

\* Specs are numbered from 1.
LEMMA SpecsTyped ==
  /\ Specs \subseteq Nat \ {0} /\ 1 \in Specs /\ 0 \notin Specs
  /\ \A n \in Specs: It(n) \in NodeIds /\ It(n) \notin CleanupIds /\ It(n) # None
                     /\ It(n)[1] = n /\ It(n)[2] = 0
  /\ None \in NodeIds /\ None \notin CleanupIds /\ CleanupIds \subseteq NodeIds
  /\ \A c \in CleanupIds: IsCleanup(c) /\ c[1] \in Specs /\ c[2] \in Nat \ {0} /\ c = <<c[1], c[2]>>
  /\ \A m, n \in Specs: It(m) = It(n) => m = n
  /\ \A n: It(n)[1] = n /\ ~IsCleanup(It(n))
  /\ ~IsCleanup(None)
<1>1. Specs \subseteq Nat \ {0} /\ 1 \in Specs
  <2>1. Cardinality(Specs) \in Nat
    BY SuiteReportAssumption, FS_CardinalityType
  <2>2. Specs = 1..Cardinality(Specs) /\ Specs # {}
    BY SuiteReportAssumption
  <2> QED
    BY <2>1, <2>2
<1>2. \A n \in Specs: It(n) \in NodeIds /\ It(n) \notin CleanupIds /\ It(n) # None
  BY <1>1 DEF It, None, NodeIds, CleanupIds
<1>3. \A n: It(n)[1] = n /\ It(n)[2] = 0 /\ ~IsCleanup(It(n))
  BY DEF It, IsCleanup
<1>4. None \in NodeIds /\ None \notin CleanupIds /\ CleanupIds \subseteq NodeIds
  BY <1>1 DEF None, NodeIds, CleanupIds
<1>5. \A c \in CleanupIds:
        IsCleanup(c) /\ c[1] \in Specs /\ c[2] \in Nat \ {0} /\ c = <<c[1], c[2]>>
  BY DEF CleanupIds, IsCleanup
<1>6. \A m, n \in Specs: It(m) = It(n) => m = n
  BY <1>3
<1>7. ~IsCleanup(None) /\ 0 \notin Specs
  BY <1>1 DEF None, IsCleanup
<1> QED
  BY <1>1, <1>2, <1>3, <1>4, <1>5, <1>6, <1>7

\* The generators' records.
LEMMA GeneratorFields ==
  ASSUME NEW r \in GeneratorType
  PROVE  /\ \A why \in Cases \union {"signal"}:
              /\ Asked(r, why) \in GeneratorType /\ Asked(r, why).pc = "lock"
              /\ Asked(r, why).snap = r.snap
         /\ TypeOK =>
              /\ Querying(r) \in GeneratorType /\ Querying(r).pc = "query"
              /\ Querying(r).snap = NoSnapshot
              /\ r.ask # <<>> =>
                   /\ Answered(r) \in GeneratorType /\ Answered(r).pc = r.pc
                   /\ Answered(r).snap = r.snap
              /\ Snapshot(r) \in GeneratorType /\ Snapshot(r).pc = "emit"
              /\ Snapshot(r).snap.node = currentNode /\ Snapshot(r).snap.spec = spec
         /\ Emitted(r) \in GeneratorType /\ Emitted(r).pc = "idle"
         /\ Emitted(r).snap = NoSnapshot
<1>0. NoSnapshot \in Snapshots
  BY SpecsTyped DEF NoSnapshot, Snapshots
<1>1. ASSUME NEW why \in Cases \union {"signal"}
      PROVE  /\ Asked(r, why) \in GeneratorType /\ Asked(r, why).pc = "lock"
             /\ Asked(r, why).snap = r.snap
  <2>1. r.count \in Nat /\ r.count + 1 \in Nat
    BY DEF GeneratorType
  <2>2. PICK m \in Nat: m = IF why \in {"poll", "signal"} THEN r.count + 1 ELSE r.count
    BY <2>1
  <2>3. Asked(r, why) = [r EXCEPT !.pc = "lock", !.why = why, !.count = m]
    BY <2>2 DEF Asked
  <2> QED
    BY <2>3 DEF GeneratorType
<1>2. ASSUME TypeOK
      PROVE  /\ Querying(r) \in GeneratorType /\ Querying(r).pc = "query"
             /\ Querying(r).snap = NoSnapshot
  <2>1. (IF currentSpecContext = None \/ IsCleanup(currentSpecContext) THEN <<>>
             ELSE attached[currentSpecContext[1]]) \in Seq(Reporters)
    <3>1. CASE currentSpecContext = None \/ IsCleanup(currentSpecContext)
      BY <3>1
    <3>2. CASE ~(currentSpecContext = None \/ IsCleanup(currentSpecContext))
      <4>1. PICK n \in Specs: currentSpecContext = It(n)
        BY <1>2, <3>2, SpecsTyped DEF TypeOK, StructOK, RunIds
      <4>2. currentSpecContext[1] \in Specs
        BY <4>1, SpecsTyped
      <4> QED
        BY <1>2, <3>2, <4>2 DEF TypeOK, StructOK
    <3> QED
      BY <3>1, <3>2
  <2>2. PICK a \in Seq(Reporters):
          a = IF currentSpecContext = None \/ IsCleanup(currentSpecContext) THEN <<>>
              ELSE attached[currentSpecContext[1]]
    BY <2>1
  <2>3. Querying(r) = [r EXCEPT !.pc = "query", !.snap = NoSnapshot, !.ask = a]
    BY <2>2 DEF Querying
  <2> QED
    BY <1>0, <2>3 DEF GeneratorType
<1>3. ASSUME TypeOK, r.ask # <<>>
      PROVE  /\ Answered(r) \in GeneratorType /\ Answered(r).pc = r.pc
             /\ Answered(r).snap = r.snap
  <2>0. r.ask \in Seq(Reporters)
    BY DEF GeneratorType
  <2>1. PICK t \in Seq(Reporters): t = Tail(r.ask)
    <3>1. Tail(r.ask) \in Seq(Reporters)
      BY <1>3, <2>0
    <3> QED
      BY <3>1
  <2>2. Answered(r) = [r EXCEPT !.ask = t]
    BY <2>1 DEF Answered
  <2> QED
    BY <2>2 DEF GeneratorType
<1>4. ASSUME TypeOK
      PROVE  /\ Snapshot(r) \in GeneratorType /\ Snapshot(r).pc = "emit"
             /\ Snapshot(r).snap.node = currentNode /\ Snapshot(r).snap.spec = spec
  <2>1. spec \in Nat
    BY <1>4 DEF TypeOK, StructOK, ReportType, spec
  <2>2. PICK v: v = [spec |-> currentSpecReport.spec, node |-> currentNode,
                     step |-> currentByStep]
    OBVIOUS
  <2>3. v \in Snapshots /\ v.node = currentNode /\ v.spec = spec
    BY <1>4, <2>1, <2>2 DEF TypeOK, StructOK, Snapshots, spec
  <2>4. Snapshot(r) = [r EXCEPT !.pc = "emit", !.snap = v]
    BY <2>2 DEF Snapshot
  <2> QED
    BY <2>3, <2>4 DEF GeneratorType
<1>5. /\ Emitted(r) \in GeneratorType /\ Emitted(r).pc = "idle"
      /\ Emitted(r).snap = NoSnapshot
  BY <1>0 DEF Emitted, GeneratorType
<1> QED
  BY <1>1, <1>2, <1>3, <1>4, <1>5

SameProgram(b, v) == /\ v.program = b.program /\ v.state = b.state /\ v.leaked = b.leaked

\* The bodies' records.
LEMMA BodyFields ==
  ASSUME NEW b \in BodyType
  PROVE  /\ b.calls < Len(b.program) =>
              /\ Called(b) \in BodyType /\ SameProgram(b, Called(b))
              /\ Called(b).calls = b.calls + 1 /\ Called(b).call = b.program[b.calls + 1]
              /\ Called(b).call \in Calls /\ Called(b).stage = b.stage
              /\ Called(b).late = b.late
         /\ CallOver(b) \in BodyType /\ SameProgram(b, CallOver(b))
         /\ CallOver(b).calls = b.calls /\ CallOver(b).call = "none" /\ CallOver(b).stage = 0
         /\ CallOver(b).late = b.late
         /\ Pushed(b) \in BodyType /\ SameProgram(b, Pushed(b))
         /\ Pushed(b).calls = b.calls /\ Pushed(b).call = "none" /\ Pushed(b).stage = 0
         /\ Pushed(b).late = (b.late \/ b.leaked)
         /\ TypeOK =>
              /\ Owned(b) \in BodyType /\ SameProgram(b, Owned(b))
              /\ Owned(b).calls = b.calls /\ Owned(b).call = b.call /\ Owned(b).stage = 1
              /\ Owned(b).late = b.late /\ Owned(b).owner = currentNode
              /\ Appending(b) \in BodyType /\ SameProgram(b, Appending(b))
              /\ Appending(b).calls = b.calls /\ Appending(b).call = b.call
              /\ Appending(b).stage = 2 /\ Appending(b).late = b.late
              /\ Appending(b).owner = b.owner /\ Appending(b).read = cleanupNodes
<1> USE DEF SameProgram
<1>1. ASSUME b.calls < Len(b.program)
      PROVE  /\ Called(b) \in BodyType /\ SameProgram(b, Called(b))
             /\ Called(b).calls = b.calls + 1 /\ Called(b).call = b.program[b.calls + 1]
             /\ Called(b).call \in Calls /\ Called(b).stage = b.stage
             /\ Called(b).late = b.late
  <2>1. b.calls + 1 \in 1..Len(b.program) /\ b.calls + 1 \in Nat /\ b.program \in Seq(Calls)
    BY <1>1 DEF BodyType
  <2>2. b.program[b.calls + 1] \in Calls
    BY <2>1
  <2>3. PICK m \in Nat, x \in Calls: m = b.calls + 1 /\ x = b.program[b.calls + 1]
    BY <2>1, <2>2
  <2>4. Called(b) = [b EXCEPT !.call = x, !.calls = m]
    BY <2>3 DEF Called
  <2> QED
    BY <2>3, <2>4 DEF BodyType
<1>2. PICK e \in Seq(Cleanups): e = <<>>
  <2>1. <<>> \in Seq(Cleanups)
    OBVIOUS
  <2> QED
    BY <2>1
<1>3. CallOver(b) = [b EXCEPT !.call = "none", !.stage = 0, !.owner = None, !.read = e]
  BY <1>2 DEF CallOver
<1>4. /\ CallOver(b) \in BodyType /\ SameProgram(b, CallOver(b))
      /\ CallOver(b).calls = b.calls /\ CallOver(b).call = "none" /\ CallOver(b).stage = 0
      /\ CallOver(b).late = b.late
  <2>1. PICK q \in NodeIds: q = None
    BY SpecsTyped
  <2>2. CallOver(b) = [b EXCEPT !.call = "none", !.stage = 0, !.owner = q, !.read = e]
    BY <1>3, <2>1
  <2>3. CallOver(b) \in BodyType
    BY <2>2 DEF BodyType
  <2>4. /\ SameProgram(b, CallOver(b)) /\ CallOver(b).calls = b.calls
        /\ CallOver(b).call = "none" /\ CallOver(b).stage = 0 /\ CallOver(b).late = b.late
    BY <2>2 DEF BodyType
  <2> QED
    BY <2>3, <2>4
<1>5. /\ Pushed(b) \in BodyType /\ SameProgram(b, Pushed(b))
      /\ Pushed(b).calls = b.calls /\ Pushed(b).call = "none" /\ Pushed(b).stage = 0
      /\ Pushed(b).late = (b.late \/ b.leaked)
  <2>1. PICK x \in BOOLEAN: x = (b.late \/ b.leaked)
    OBVIOUS
  <2>2. PICK v \in BodyType: v = CallOver(b)
    BY <1>4
  <2>3. Pushed(b) = [v EXCEPT !.late = x]
    BY <1>4, <2>1, <2>2 DEF Pushed
  <2>4. /\ Pushed(b) \in BodyType /\ SameProgram(v, Pushed(b))
        /\ Pushed(b).calls = v.calls /\ Pushed(b).call = v.call /\ Pushed(b).stage = v.stage
        /\ Pushed(b).late = x
    BY <2>3 DEF BodyType
  <2> QED
    BY <1>4, <2>1, <2>2, <2>4
<1>6. ASSUME TypeOK
      PROVE  /\ Owned(b) \in BodyType /\ SameProgram(b, Owned(b))
             /\ Owned(b).calls = b.calls /\ Owned(b).call = b.call /\ Owned(b).stage = 1
             /\ Owned(b).late = b.late /\ Owned(b).owner = currentNode
  <2>1. currentNode \in NodeIds
    BY <1>6 DEF TypeOK, StructOK
  <2> QED
    <3>1. PICK q \in NodeIds: q = currentNode
      BY <2>1
    <3>2. Owned(b) = [b EXCEPT !.stage = 1, !.owner = q]
      BY <3>1 DEF Owned
    <3>3. Owned(b) \in BodyType
      BY <3>2 DEF BodyType
    <3>4. /\ SameProgram(b, Owned(b)) /\ Owned(b).calls = b.calls
          /\ Owned(b).call = b.call /\ Owned(b).stage = 1
          /\ Owned(b).late = b.late /\ Owned(b).owner = q
      BY <3>2 DEF BodyType
    <3> QED
      BY <3>1, <3>3, <3>4
<1>7. ASSUME TypeOK
      PROVE  /\ Appending(b) \in BodyType /\ SameProgram(b, Appending(b))
             /\ Appending(b).calls = b.calls /\ Appending(b).call = b.call
             /\ Appending(b).stage = 2 /\ Appending(b).late = b.late
             /\ Appending(b).owner = b.owner /\ Appending(b).read = cleanupNodes
  <2>1. cleanupNodes \in Seq(Cleanups)
    BY <1>7 DEF TypeOK, ListsOK
  <2> QED
    <3>1. PICK q \in Seq(Cleanups): q = cleanupNodes
      BY <2>1
    <3>2. Appending(b) = [b EXCEPT !.stage = 2, !.read = q]
      BY <3>1 DEF Appending
    <3>3. Appending(b) \in BodyType
      BY <3>2 DEF BodyType
    <3>4. /\ SameProgram(b, Appending(b)) /\ Appending(b).calls = b.calls
          /\ Appending(b).call = b.call /\ Appending(b).stage = 2
          /\ Appending(b).late = b.late /\ Appending(b).owner = b.owner
          /\ Appending(b).read = q
      BY <3>2 DEF BodyType
    <3> QED
      BY <3>1, <3>3, <3>4
<1> QED
  BY <1>1, <1>4, <1>5, <1>6, <1>7

\* The body of n becomes v, generator g becomes v.
BodySet(n, v) == /\ n \in Specs /\ v \in BodyType /\ body' \in [Specs -> BodyType]
                 /\ body'[n] = v /\ \A m \in Specs: m # n => body'[m] = body[m]
GenSet(g, v)  == /\ g \in Generators /\ v \in GeneratorType
                 /\ gen' \in [Generators -> GeneratorType]
                 /\ gen'[g] = v /\ \A h \in Generators: h # g => gen'[h] = gen[h]

\* The record of a body that is left behind.
LeftBehind(b) == [b EXCEPT !.leaked = @ \/ b.state = "running"]

\* What the steps do to the bodies.
LEMMA BodyEffects ==
  ASSUME TypeOK, Position
  PROVE  /\ SetContext /\ main.node = It(spec) =>
              BodySet(spec, [body[spec] EXCEPT !.state = "running"])
         /\ Leak => BodySet(spec, LeftBehind(body[spec]))
         /\ \A n \in Specs:
              /\ Begin(n) => BodySet(n, Called(body[n]))
              /\ EndCall(n) => BodySet(n, CallOver(body[n]))
              /\ HandleByEvent(n) => BodySet(n, [body[n] EXCEPT !.stage = 1])
              /\ ReadOwner(n) => (main' = [main EXCEPT !.pc = "exited"] /\ UNCHANGED body
                                  /\ (currentNode = None \/ IsCleanup(currentNode)))
                                 \/ (UNCHANGED main /\ BodySet(n, Owned(body[n])))
              /\ ReadForAppend(n) => BodySet(n, Appending(body[n]))
              /\ PushCleanupNode(n) => BodySet(n, Pushed(body[n]))
              /\ Return(n) => BodySet(n, [body[n] EXCEPT !.state = "returned"])
<1>0. body \in [Specs -> BodyType]
  BY DEF TypeOK
<1>1. ASSUME NEW n \in Specs, NEW v \in BodyType, body' = [body EXCEPT ![n] = v]
      PROVE  BodySet(n, v)
  BY <1>0, <1>1 DEF BodySet
<1>2. ASSUME NEW b \in BodyType
      PROVE  /\ [b EXCEPT !.state = "running"] \in BodyType
             /\ [b EXCEPT !.state = "returned"] \in BodyType
             /\ LeftBehind(b) \in BodyType
             /\ [b EXCEPT !.stage = 1] \in BodyType
  <2>1. PICK x \in BOOLEAN: x = (b.leaked \/ b.state = "running")
    OBVIOUS
  <2>2. LeftBehind(b) = [b EXCEPT !.leaked = x]
    BY <2>1 DEF LeftBehind
  <2> QED
    BY <2>2 DEF BodyType
<1>3. SetContext /\ main.node = It(spec) =>
        BodySet(spec, [body[spec] EXCEPT !.state = "running"])
  <2> SUFFICES ASSUME SetContext, main.node = It(spec)
               PROVE  BodySet(spec, [body[spec] EXCEPT !.state = "running"])
    OBVIOUS
  <2>1. spec \in Specs /\ main.node[1] = spec /\ ~IsCleanup(main.node)
    BY SpecsTyped DEF SetContext, Locked, Goto, Position, InSpec, Starting
  <2>2. PICK v \in BodyType: v = [body[spec] EXCEPT !.state = "running"]
    BY <1>0, <1>2, <2>1
  <2>3. body' = [body EXCEPT ![spec] = v]
    BY <2>1, <2>2 DEF SetContext
  <2> QED
    BY <1>1, <2>1, <2>2, <2>3
<1>4. Leak => BodySet(spec, LeftBehind(body[spec]))
  <2> SUFFICES ASSUME Leak
               PROVE  BodySet(spec, LeftBehind(body[spec]))
    OBVIOUS
  <2>1. spec \in Specs /\ main.node[1] = spec
    BY SpecsTyped DEF Leak, AtSelect, Position, InSpec
  <2>2. PICK v \in BodyType: v = LeftBehind(body[spec])
    BY <1>0, <1>2, <2>1
  <2>3. body' = [body EXCEPT ![spec].leaked = @ \/ body[spec].state = "running"]
    BY <2>1 DEF Leak
  <2>4. body' = [body EXCEPT ![spec] = v]
    BY <2>2, <2>3 DEF LeftBehind
  <2> QED
    BY <1>1, <2>1, <2>2, <2>4
<1>5. ASSUME NEW n \in Specs
      PROVE  /\ Begin(n) => BodySet(n, Called(body[n]))
             /\ EndCall(n) => BodySet(n, CallOver(body[n]))
             /\ HandleByEvent(n) => BodySet(n, [body[n] EXCEPT !.stage = 1])
             /\ ReadOwner(n) => (main' = [main EXCEPT !.pc = "exited"] /\ UNCHANGED body
                                 /\ (currentNode = None \/ IsCleanup(currentNode)))
                                \/ (UNCHANGED main /\ BodySet(n, Owned(body[n])))
             /\ ReadForAppend(n) => BodySet(n, Appending(body[n]))
             /\ PushCleanupNode(n) => BodySet(n, Pushed(body[n]))
             /\ Return(n) => BodySet(n, [body[n] EXCEPT !.state = "returned"])
  <2>0. body[n] \in BodyType
    BY <1>0
  <2>1. Begin(n) => BodySet(n, Called(body[n]))
    BY <1>1, <2>0, BodyFields DEF Begin
  <2>2. EndCall(n) => BodySet(n, CallOver(body[n]))
    BY <1>1, <2>0, BodyFields DEF EndCall
  <2>3. HandleByEvent(n) => BodySet(n, [body[n] EXCEPT !.stage = 1])
    <3>1. PICK v \in BodyType: v = [body[n] EXCEPT !.stage = 1]
      BY <1>2, <2>0
    <3>2. HandleByEvent(n) => body' = [body EXCEPT ![n] = v]
      BY <3>1 DEF HandleByEvent
    <3> QED
      BY <1>1, <3>1, <3>2
  <2>4. ReadOwner(n) => (main' = [main EXCEPT !.pc = "exited"] /\ UNCHANGED body
                         /\ (currentNode = None \/ IsCleanup(currentNode)))
                        \/ (UNCHANGED main /\ BodySet(n, Owned(body[n])))
    BY <1>1, <2>0, BodyFields DEF ReadOwner
  <2>5. ReadForAppend(n) => BodySet(n, Appending(body[n]))
    BY <1>1, <2>0, BodyFields DEF ReadForAppend
  <2>6. PushCleanupNode(n) => BodySet(n, Pushed(body[n]))
    BY <1>1, <2>0, BodyFields DEF PushCleanupNode
  <2>7. Return(n) => BodySet(n, [body[n] EXCEPT !.state = "returned"])
    <3>1. PICK v \in BodyType: v = [body[n] EXCEPT !.state = "returned"]
      BY <1>2, <2>0
    <3>2. Return(n) => body' = [body EXCEPT ![n] = v]
      BY <3>1 DEF Return
    <3> QED
      BY <1>1, <3>1, <3>2
  <2> QED
    BY <2>1, <2>2, <2>3, <2>4, <2>5, <2>6, <2>7
<1> QED
  BY <1>3, <1>4, <1>5

\* What the steps do to the generators.
LEMMA GeneratorEffects ==
  ASSUME TypeOK
  PROVE  /\ \A why \in Cases: Case(why) => GenSet("suite", Asked(gen["suite"], why))
         /\ HandleProgressSignal => GenSet("signal", Asked(gen["signal"], "signal"))
         /\ \A g \in Generators:
              /\ Acquire(g) => GenSet(g, Querying(gen[g]))
              /\ Answers(g) => GenSet(g, Answered(gen[g]))
              /\ ReporterDeadline(g) => GenSet(g, [gen[g] EXCEPT !.ask = <<>>])
              /\ NewProgressReport(g) => GenSet(g, Snapshot(gen[g]))
              /\ EmitProgressReport(g) => GenSet(g, Emitted(gen[g]))
<1>0. /\ gen \in [Generators -> GeneratorType] /\ "suite" \in Generators /\ "signal" \in Generators
      /\ \A g \in Generators: gen[g] \in GeneratorType
  BY DEF TypeOK, Generators
<1>1. ASSUME NEW g \in Generators, NEW v \in GeneratorType, gen' = [gen EXCEPT ![g] = v]
      PROVE  GenSet(g, v)
  BY <1>0, <1>1 DEF GenSet
<1>2. ASSUME NEW why \in Cases, Case(why)
      PROVE  GenSet("suite", Asked(gen["suite"], why))
  BY <1>0, <1>1, <1>2, GeneratorFields DEF Case
<1>3. HandleProgressSignal => GenSet("signal", Asked(gen["signal"], "signal"))
  BY <1>0, <1>1, GeneratorFields DEF HandleProgressSignal
<1>5. ASSUME NEW g \in Generators
      PROVE  /\ Acquire(g) => GenSet(g, Querying(gen[g]))
             /\ Answers(g) => GenSet(g, Answered(gen[g]))
             /\ ReporterDeadline(g) => GenSet(g, [gen[g] EXCEPT !.ask = <<>>])
             /\ NewProgressReport(g) => GenSet(g, Snapshot(gen[g]))
             /\ EmitProgressReport(g) => GenSet(g, Emitted(gen[g]))
  <2>1. Acquire(g) => GenSet(g, Querying(gen[g]))
    BY <1>0, <1>1, GeneratorFields DEF Acquire
  <2>2. Answers(g) => GenSet(g, Answered(gen[g]))
    BY <1>0, <1>1, GeneratorFields DEF Answers
  <2>3. ReporterDeadline(g) => GenSet(g, [gen[g] EXCEPT !.ask = <<>>])
    <3>0. <<>> \in Seq(Reporters)
      OBVIOUS
    <3>1. PICK e \in Seq(Reporters): e = <<>>
      BY <3>0
    <3>2. [gen[g] EXCEPT !.ask = e] \in GeneratorType
      BY <1>0 DEF GeneratorType
    <3>3. PICK v \in GeneratorType: v = [gen[g] EXCEPT !.ask = e]
      BY <3>2
    <3>4. ReporterDeadline(g) => gen' = [gen EXCEPT ![g] = v]
      BY <3>1, <3>3 DEF ReporterDeadline
    <3> QED
      BY <1>1, <3>1, <3>3, <3>4
  <2>4. NewProgressReport(g) => GenSet(g, Snapshot(gen[g]))
    BY <1>0, <1>1, GeneratorFields DEF NewProgressReport
  <2>5. EmitProgressReport(g) => GenSet(g, Emitted(gen[g]))
    BY <1>0, <1>1, GeneratorFields DEF EmitProgressReport
  <2> QED
    BY <2>1, <2>2, <2>3, <2>4, <2>5
<1> QED
  BY <1>2, <1>3, <1>5

-----------------------------------------------------------------------------
(* Sequences                                                               *)

\* What an appended sequence holds.
LEMMA Appended ==
  ASSUME NEW S, NEW s \in Seq(S), NEW x \in S
  PROVE  /\ Append(s, x) \in Seq(S) /\ Len(Append(s, x)) = Len(s) + 1
         /\ DOMAIN Append(s, x) = 1..(Len(s) + 1) /\ DOMAIN s = 1..Len(s) /\ Len(s) \in Nat
         /\ \A i \in 1..Len(s): Append(s, x)[i] = s[i]
         /\ Append(s, x)[Len(s) + 1] = x
         /\ Range(Append(s, x)) = Range(s) \union {x}
<1>1. /\ Append(s, x) \in Seq(S) /\ Len(Append(s, x)) = Len(s) + 1
      /\ DOMAIN Append(s, x) = 1..(Len(s) + 1) /\ DOMAIN s = 1..Len(s) /\ Len(s) \in Nat
      /\ \A i \in 1..Len(s): Append(s, x)[i] = s[i]
      /\ Append(s, x)[Len(s) + 1] = x
  OBVIOUS
<1>2. Range(Append(s, x)) \subseteq Range(s) \union {x}
  <2>1. ASSUME NEW i \in 1..(Len(s) + 1)
        PROVE  Append(s, x)[i] \in Range(s) \union {x}
    <3>1. i \in 1..Len(s) \/ i = Len(s) + 1
      BY <1>1
    <3> QED
      BY <1>1, <3>1 DEF Range
  <2> QED
    BY <1>1, <2>1 DEF Range
<1>3. Range(s) \union {x} \subseteq Range(Append(s, x))
  <2>1. 1..Len(s) \subseteq 1..(Len(s) + 1) /\ Len(s) + 1 \in 1..(Len(s) + 1)
    BY <1>1
  <2> QED
    BY <1>1, <2>1 DEF Range
<1> QED
  BY <1>1, <1>2, <1>3

\* What is left of a sequence.
LEMMA Removed ==
  ASSUME NEW S, NEW s \in Seq(S), NEW i \in 1..Len(s)
  PROVE  /\ RemoveAt(s, i) \in Seq(S) /\ Len(RemoveAt(s, i)) = Len(s) - 1
         /\ \A j \in 1..(Len(s) - 1): RemoveAt(s, i)[j] = IF j < i THEN s[j] ELSE s[j + 1]
         /\ SubSeq(s, i + 1, Len(s)) \in Seq(S) /\ Len(SubSeq(s, i + 1, Len(s))) = Len(s) - i
         /\ \A j \in 1..(Len(s) - i): SubSeq(s, i + 1, Len(s))[j] = s[i + j]
<1>1. /\ SubSeq(s, 1, i - 1) \in Seq(S) /\ Len(SubSeq(s, 1, i - 1)) = i - 1
      /\ \A j \in 1..(i - 1): SubSeq(s, 1, i - 1)[j] = s[j]
  OBVIOUS
<1>2. /\ SubSeq(s, i + 1, Len(s)) \in Seq(S) /\ Len(SubSeq(s, i + 1, Len(s))) = Len(s) - i
      /\ \A j \in 1..(Len(s) - i): SubSeq(s, i + 1, Len(s))[j] = s[i + j]
  OBVIOUS
<1>3. PICK a \in Seq(S), b \in Seq(S): a = SubSeq(s, 1, i - 1) /\ b = SubSeq(s, i + 1, Len(s))
  BY <1>1, <1>2
<1>4. RemoveAt(s, i) = a \o b
  BY <1>3 DEF RemoveAt
<1>5. /\ a \o b \in Seq(S) /\ Len(a \o b) = Len(a) + Len(b)
      /\ \A j \in 1..(Len(a) + Len(b)): (a \o b)[j] = IF j <= Len(a) THEN a[j] ELSE b[j - Len(a)]
  OBVIOUS
<1>6. Len(a) = i - 1 /\ Len(b) = Len(s) - i
  BY <1>1, <1>2, <1>3
<1>7. ASSUME NEW j \in 1..(Len(s) - 1)
      PROVE  (a \o b)[j] = IF j < i THEN s[j] ELSE s[j + 1]
  <2>1. CASE j < i
    BY <1>1, <1>3, <1>5, <1>6, <2>1
  <2>2. CASE ~(j < i)
    <3>1. j - Len(a) \in 1..(Len(s) - i) /\ i + (j - Len(a)) = j + 1
      BY <1>6, <2>2
    <3>2. b[j - Len(a)] = s[j + 1]
      BY <1>2, <1>3, <3>1
    <3> QED
      BY <1>5, <1>6, <2>2, <3>2
  <2> QED
    BY <2>1, <2>2
<1> QED
  BY <1>2, <1>4, <1>5, <1>6, <1>7

\* A sequence from its end.
LEMMA Reversed ==
  ASSUME NEW S, NEW s \in Seq(S)
  PROVE  /\ Reverse(s) \in Seq(S) /\ Len(Reverse(s)) = Len(s)
         /\ \A j \in 1..Len(s): Reverse(s)[j] = s[(Len(s) - j) + 1]
<1>1. \A j \in 1..Len(s): (Len(s) - j) + 1 \in 1..Len(s) /\ s[(Len(s) - j) + 1] \in S
  OBVIOUS
<1>2. Reverse(s) \in [1..Len(s) -> S]
  BY <1>1 DEF Reverse
<1>3. Reverse(s) \in Seq(S)
  BY <1>2
<1> QED
  BY <1>3 DEF Reverse

-----------------------------------------------------------------------------
(* What the steps do to the suite's goroutine and to the report            *)

\* The suite's goroutine goes on with the same node; it begins with another.
Moved(to)   == /\ main' \in MainType /\ main'.pc = to /\ main'.node = main.node
               /\ main'.todo = main.todo /\ main'.read = main.read /\ main'.over = main.over
Begun(list, i) ==
  /\ main' \in MainType /\ main'.pc = "remove" /\ main'.node = list[i].id
  /\ main'.node \in CleanupIds /\ main'.todo = SubSeq(list, i + 1, Len(list))
  /\ main'.over = main.over \union {main.node}

\* The nodes of a list that attemptSpec has not run, and the list it looks at.
Over    == main.over \union {main.node}
Left(s) == {i \in DOMAIN s: s[i].id \notin Over}
Nodes   == IF Left(main.todo) # {} THEN main.todo ELSE Reverse(cleanupNodes)

\* The list without the node that is run.
Without(read) ==
  /\ read \in Seq(Cleanups)
  /\ \/ Places(cleanupNodes) = {} /\ read = cleanupNodes
     \/ \E i \in First(Places(cleanupNodes)):
          i \in 1..Len(cleanupNodes) /\ read = RemoveAt(cleanupNodes, i)

\* What the steps do to the suite's goroutine.
LEMMA MainEffects ==
  ASSUME TypeOK
  PROVE  /\ \A from, to \in PCs: Goto(from, to) => main.pc = from /\ Moved(to)
         /\ ReadCleanups =>
              /\ main' \in MainType /\ main'.pc = "assign" /\ main'.node = main.node
              /\ main'.todo = main.todo /\ main'.over = main.over /\ Without(main'.read)
         /\ NextNode =>
              /\ main.pc = "next"
              /\ \/ Left(Nodes) = {} /\ Moved("process")
                 \/ \E i \in First(Left(Nodes)): Begun(Nodes, i)
         /\ ResetReport =>
              /\ main' \in MainType /\ main'.node = It(spec + 1) /\ main'.over = {}
              /\ main'.todo = <<>> /\ main'.read = <<>>
              /\ main'.pc = IF spec + 1 \in Specs THEN "spec" ELSE "end"
         /\ main' = [main EXCEPT !.pc = "exited"] => Moved("exited")
<1>0. main \in MainType /\ cleanupNodes \in Seq(Cleanups) /\ main.todo \in Seq(Cleanups)
      /\ main.node \in NodeIds /\ main.over \in SUBSET NodeIds
  BY DEF TypeOK, ListsOK, MainType
<1>1. ASSUME NEW to \in PCs, main' = [main EXCEPT !.pc = to]
      PROVE  Moved(to)
  BY <1>0, <1>1 DEF MainType, Moved
<1>2. \A from, to \in PCs: Goto(from, to) => main.pc = from /\ Moved(to)
  BY <1>1 DEF Goto
<1>3. ASSUME ReadCleanups
      PROVE  /\ main' \in MainType /\ main'.pc = "assign" /\ main'.node = main.node
             /\ main'.todo = main.todo /\ main'.over = main.over /\ Without(main'.read)
  <2>1. ASSUME NEW r \in Seq(Cleanups), main' = [main EXCEPT !.pc = "assign", !.read = r]
        PROVE  /\ main' \in MainType /\ main'.pc = "assign" /\ main'.node = main.node
               /\ main'.todo = main.todo /\ main'.over = main.over /\ main'.read = r
    <3>1. "assign" \in PCs
      BY DEF PCs, InSpec, Starting
    <3> QED
      BY <1>0, <2>1, <3>1 DEF MainType
  <2>2. CASE /\ Places(cleanupNodes) = {}
             /\ main' = [main EXCEPT !.pc = "assign", !.read = cleanupNodes]
    BY <1>0, <2>1, <2>2 DEF Without
  <2>3. ASSUME NEW i \in First(Places(cleanupNodes)),
               main' = [main EXCEPT !.pc = "assign", !.read = RemoveAt(cleanupNodes, i)]
        PROVE  /\ main' \in MainType /\ main'.pc = "assign" /\ main'.node = main.node
               /\ main'.todo = main.todo /\ main'.over = main.over /\ Without(main'.read)
    <3>1. i \in 1..Len(cleanupNodes)
      BY <1>0 DEF First, Places
    <3>2. RemoveAt(cleanupNodes, i) \in Seq(Cleanups)
      BY <1>0, <3>1, Removed
    <3>3. PICK r \in Seq(Cleanups): r = RemoveAt(cleanupNodes, i)
      BY <3>2
    <3>4. main' = [main EXCEPT !.pc = "assign", !.read = r]
      BY <2>3, <3>3
    <3> QED
      BY <2>1, <3>1, <3>3, <3>4 DEF Without
  <2> QED
    BY <1>3, <2>2, <2>3 DEF ReadCleanups
<1>4. ASSUME NextNode
      PROVE  /\ main.pc = "next"
             /\ \/ Left(Nodes) = {} /\ Moved("process")
                \/ \E i \in First(Left(Nodes)): Begun(Nodes, i)
  <2>1. /\ main.pc = "next"
        /\ \/ Left(Nodes) = {} /\ main' = [main EXCEPT !.pc = "process"]
           \/ \E i \in First(Left(Nodes)):
                main' = [main EXCEPT !.pc = "remove", !.node = Nodes[i].id,
                           !.todo = SubSeq(Nodes, i + 1, Len(Nodes)), !.over = Over]
    BY <1>4 DEF NextNode, Left, Over, Nodes
  <2>2. Nodes \in Seq(Cleanups)
    BY <1>0, Reversed DEF Nodes
  <2>3. "process" \in PCs /\ "remove" \in PCs
    BY DEF PCs, InSpec, Starting
  <2>4. CASE Left(Nodes) = {} /\ main' = [main EXCEPT !.pc = "process"]
    BY <1>1, <2>1, <2>3, <2>4
  <2>5. ASSUME NEW i \in First(Left(Nodes)),
               main' = [main EXCEPT !.pc = "remove", !.node = Nodes[i].id,
                           !.todo = SubSeq(Nodes, i + 1, Len(Nodes)), !.over = Over]
        PROVE  Begun(Nodes, i)
    <3>1. i \in 1..Len(Nodes)
      BY <2>2 DEF First, Left
    <3>2. Nodes[i] \in Cleanups /\ Nodes[i].id \in CleanupIds /\ Nodes[i].id \in NodeIds
      <4>1. Nodes[i] \in Cleanups
        BY <2>2, <3>1
      <4>2. Nodes[i].id \in CleanupIds
        BY <4>1 DEF Cleanups
      <4> QED
        BY <4>1, <4>2, SpecsTyped
    <3>3. SubSeq(Nodes, i + 1, Len(Nodes)) \in Seq(Cleanups)
      BY <2>2, <3>1, Removed
    <3>4. Over \in SUBSET NodeIds
      BY <1>0 DEF Over
    <3>5. PICK c \in NodeIds, t \in Seq(Cleanups), o \in SUBSET NodeIds:
            c = Nodes[i].id /\ t = SubSeq(Nodes, i + 1, Len(Nodes)) /\ o = Over
      BY <3>2, <3>3, <3>4
    <3>6. main' = [main EXCEPT !.pc = "remove", !.node = c, !.todo = t, !.over = o]
      BY <2>5, <3>5
    <3>7. main' \in MainType /\ main'.pc = "remove" /\ main'.node = c /\ main'.todo = t
          /\ main'.over = o
      BY <1>0, <2>3, <3>6 DEF MainType
    <3> QED
      BY <3>2, <3>5, <3>7 DEF Begun, Over
  <2> QED
    BY <2>1, <2>4, <2>5
<1>5. ASSUME ResetReport
      PROVE  /\ main' \in MainType /\ main'.node = It(spec + 1) /\ main'.over = {}
             /\ main'.todo = <<>> /\ main'.read = <<>>
             /\ main'.pc = IF spec + 1 \in Specs THEN "spec" ELSE "end"
  <2>1. spec \in Nat
    BY DEF TypeOK, StructOK, ReportType, spec
  <2>2. It(spec + 1) \in NodeIds
    BY <2>1 DEF It, NodeIds
  <2>3. main' = NewMain(spec + 1, IF spec + 1 \in Specs THEN "spec" ELSE "end")
    BY <1>5 DEF ResetReport, spec
  <2>4. "spec" \in PCs /\ "end" \in PCs
    BY DEF PCs
  <2>5. <<>> \in Seq(Cleanups) /\ {} \in SUBSET NodeIds
    OBVIOUS
  <2> QED
    BY <2>2, <2>3, <2>4, <2>5 DEF NewMain, MainType
<1>6. main' = [main EXCEPT !.pc = "exited"] => Moved("exited")
  BY <1>1 DEF PCs
<1> QED
  BY <1>2, <1>3, <1>4, <1>5, <1>6

\* The current report has these events, entries and progress reports more.
Reported(events, entries, progress) ==
  /\ currentSpecReport' \in ReportType /\ currentSpecReport'.spec = currentSpecReport.spec
  /\ Range(currentSpecReport'.events) = Range(currentSpecReport.events) \union events
  /\ Range(currentSpecReport'.entries) = Range(currentSpecReport.entries) \union entries
  /\ Range(currentSpecReport'.progress) = Range(currentSpecReport.progress) \union progress

\* What the steps do to the current report.
LEMMA ReportEffects ==
  ASSUME TypeOK, Position
  PROVE  /\ NodeEvent => Reported({main.node}, {}, {})
         /\ \A n \in Specs:
              /\ AddReportEntry(n) => Reported({}, {n}, {})
              /\ HandleByEvent(n) => Reported({It(n)}, {}, {})
         /\ \A g \in Generators: EmitProgressReport(g) =>
              \/ UNCHANGED currentSpecReport
              \/ Reported({}, {}, {[by |-> g, of |-> gen[g].snap]})
         /\ \A n \in Nat:
              /\ Report(n) \in ReportType /\ Report(n).spec = n
              /\ Range(Report(n).events) = {} /\ Range(Report(n).entries) = {}
              /\ Range(Report(n).progress) = {}
<1> DEFINE r == currentSpecReport
<1>0. r \in ReportType
  BY DEF TypeOK, StructOK
<1>1. ASSUME NEW x \in RunIds, currentSpecReport' = [r EXCEPT !.events = Append(@, x)]
      PROVE  Reported({x}, {}, {})
  <2>1. r.events \in Seq(RunIds)
    BY <1>0 DEF ReportType
  <2>2. PICK s \in Seq(RunIds): s = Append(r.events, x) /\ Range(s) = Range(r.events) \union {x}
    <3>1. Append(r.events, x) \in Seq(RunIds)
      BY <2>1, Appended
    <3>2. Range(Append(r.events, x)) = Range(r.events) \union {x}
      BY <2>1, Appended
    <3> QED
      BY <3>1, <3>2
  <2>3. currentSpecReport' = [r EXCEPT !.events = s]
    BY <1>1, <2>2
  <2>4. currentSpecReport' \in ReportType
    BY <1>0, <2>3 DEF ReportType
  <2>5. /\ currentSpecReport'.spec = r.spec /\ currentSpecReport'.events = s
        /\ currentSpecReport'.entries = r.entries /\ currentSpecReport'.progress = r.progress
    BY <1>0, <2>3 DEF ReportType
  <2> QED
    BY <2>2, <2>4, <2>5 DEF Reported
<1>2. NodeEvent => Reported({main.node}, {}, {})
  <2>1. NodeEvent => main.pc \in {"enter", "leave"}
    BY DEF NodeEvent, Locked, Goto
  <2>2. main.pc \in {"enter", "leave"} => main.node \in RunIds
    BY DEF Position, InSpec, Starting, Ending, RunIds
  <2> QED
    BY <1>1, <2>1, <2>2 DEF NodeEvent
<1>3. ASSUME NEW n \in Specs, AddReportEntry(n)
      PROVE  Reported({}, {n}, {})
  <2>1. r.entries \in Seq(Specs)
    BY <1>0 DEF ReportType
  <2>2. PICK s \in Seq(Specs): s = Append(r.entries, n) /\ Range(s) = Range(r.entries) \union {n}
    <3>1. Append(r.entries, n) \in Seq(Specs)
      BY <2>1, Appended
    <3>2. Range(Append(r.entries, n)) = Range(r.entries) \union {n}
      BY <2>1, Appended
    <3> QED
      BY <3>1, <3>2
  <2>3. currentSpecReport' = [r EXCEPT !.entries = s]
    BY <1>3, <2>2 DEF AddReportEntry
  <2>4. currentSpecReport' \in ReportType
    BY <1>0, <2>3 DEF ReportType
  <2>5. /\ currentSpecReport'.spec = r.spec /\ currentSpecReport'.events = r.events
        /\ currentSpecReport'.entries = s /\ currentSpecReport'.progress = r.progress
    BY <1>0, <2>3 DEF ReportType
  <2> QED
    BY <2>2, <2>4, <2>5 DEF Reported
<1>4. \A n \in Specs: HandleByEvent(n) => Reported({It(n)}, {}, {})
  BY <1>1 DEF HandleByEvent, RunIds
<1>5. ASSUME NEW g \in Generators, EmitProgressReport(g)
      PROVE  \/ UNCHANGED currentSpecReport
             \/ Reported({}, {}, {[by |-> g, of |-> gen[g].snap]})
  <2>1. CASE gen[g].why \in {"timeout", "unshown"}
    BY <1>5, <2>1 DEF EmitProgressReport
  <2>2. CASE gen[g].why \notin {"timeout", "unshown"}
    <3>0. gen[g] \in GeneratorType
      BY DEF TypeOK
    <3>1. gen[g].snap \in Snapshots
      BY <3>0 DEF GeneratorType
    <3>2. PICK x \in Filings: x = [by |-> g, of |-> gen[g].snap]
      BY <3>1 DEF Filings
    <3>3. r.progress \in Seq(Filings)
      BY <1>0 DEF ReportType
    <3>4. PICK s \in Seq(Filings): s = Append(r.progress, x) /\ Range(s) = Range(r.progress) \union {x}
      <4>1. Append(r.progress, x) \in Seq(Filings)
        BY <3>3, Appended
      <4>2. Range(Append(r.progress, x)) = Range(r.progress) \union {x}
        BY <3>3, Appended
      <4> QED
        BY <4>1, <4>2
    <3>5. currentSpecReport' = [r EXCEPT !.progress = s]
      BY <1>5, <2>2, <3>2, <3>4 DEF EmitProgressReport
    <3>6. currentSpecReport' \in ReportType
      BY <1>0, <3>5 DEF ReportType
    <3>7. /\ currentSpecReport'.spec = r.spec /\ currentSpecReport'.events = r.events
          /\ currentSpecReport'.entries = r.entries /\ currentSpecReport'.progress = s
      BY <1>0, <3>5 DEF ReportType
    <3> QED
      BY <2>2, <3>2, <3>4, <3>6, <3>7 DEF Reported
  <2> QED
    BY <2>1, <2>2
<1>6. ASSUME NEW n \in Nat
      PROVE  /\ Report(n) \in ReportType /\ Report(n).spec = n
             /\ Range(Report(n).events) = {} /\ Range(Report(n).entries) = {}
             /\ Range(Report(n).progress) = {}
  <2>1. <<>> \in Seq(RunIds) /\ <<>> \in Seq(Specs) /\ <<>> \in Seq(Filings) /\ Range(<<>>) = {}
    BY DEF Range
  <2>2. Report(n) \in ReportType
    BY <2>1 DEF Report, ReportType
  <2> QED
    BY <2>1, <2>2 DEF Report
<1> QED
  BY <1>2, <1>3, <1>4, <1>5, <1>6

-----------------------------------------------------------------------------
(* Every step keeps the types                                              *)

\* The steps of the suite's goroutine.
LEMMA SuiteStepTyped ==
  ASSUME TypeOK, Position, SuiteStep
  PROVE  TypeOK'
<1> USE DEF vars, suiteVars, current
<1>0. /\ StructOK /\ ListsOK /\ main \in MainType /\ body \in [Specs -> BodyType]
      /\ gen \in [Generators -> GeneratorType] /\ main.node \in NodeIds
      /\ main.read \in Seq(Cleanups)
  BY DEF TypeOK, MainType
<1>1. PCs = {"remove", "assign", "start", "enter", "context", "select", "leave", "clear", "next",
             "process", "reset", "spec", "end", "exited"}
  BY DEF PCs, InSpec, Starting, Ending
<1>2. ASSUME NewSpec PROVE TypeOK'
  <2>1. main' \in MainType
    BY <1>1, <1>2, MainEffects DEF NewSpec, Locked, Moved
  <2>2. main.node[1] \in Nat
    BY <1>0 DEF NodeIds
  <2>3. currentSpecReport' \in ReportType
    BY <1>2, <2>2, ReportEffects DEF NewSpec
  <2> QED
    BY <1>0, <1>2, <2>1, <2>3 DEF NewSpec, TypeOK, StructOK, ListsOK
<1>3. ASSUME ReadCleanups PROVE TypeOK'
  <2>1. main' \in MainType
    BY <1>3, MainEffects
  <2> QED
    BY <1>0, <1>3, <2>1 DEF ReadCleanups, TypeOK, StructOK, ListsOK
<1>4. ASSUME AssignCleanups PROVE TypeOK'
  <2>1. main' \in MainType
    BY <1>1, <1>4, MainEffects DEF AssignCleanups, Moved
  <2>2. cleanupNodes' \in Seq(Cleanups)
    BY <1>0, <1>4 DEF AssignCleanups, ListsOK
  <2> QED
    BY <1>0, <1>4, <2>1, <2>2 DEF AssignCleanups, TypeOK, StructOK, ListsOK
<1>5. ASSUME SetNode PROVE TypeOK'
  <2>1. main' \in MainType
    BY <1>1, <1>5, MainEffects DEF SetNode, Locked, Moved
  <2> QED
    BY <1>0, <1>5, <2>1 DEF SetNode, TypeOK, StructOK, ListsOK
<1>6. ASSUME NodeEvent PROVE TypeOK'
  <2>1. main' \in MainType
    BY <1>1, <1>6, MainEffects DEF NodeEvent, Locked, Moved
  <2>2. currentSpecReport' \in ReportType
    BY <1>6, ReportEffects DEF Reported
  <2> QED
    BY <1>0, <1>6, <2>1, <2>2 DEF NodeEvent, TypeOK, StructOK, ListsOK
<1>7. ASSUME SetContext PROVE TypeOK'
  <2>1. main.pc = "context" /\ main' \in MainType
    BY <1>1, <1>7, MainEffects DEF SetContext, Locked, Moved
  <2>2. (main.node = It(spec) /\ spec \in Specs) \/ main.node \in CleanupIds
    BY <2>1 DEF Position, InSpec, Starting
  <2>3. body' \in [Specs -> BodyType] /\ ran' \in Seq(CleanupIds)
    <3>1. CASE main.node \in CleanupIds
      <4>1. IsCleanup(main.node)
        BY <3>1, SpecsTyped
      <4>2. ran \in Seq(CleanupIds)
        BY <1>0 DEF ListsOK
      <4>3. Append(ran, main.node) \in Seq(CleanupIds)
        BY <3>1, <4>2, Appended
      <4> QED
        BY <1>0, <1>7, <4>1, <4>3 DEF SetContext
    <3>2. CASE main.node = It(spec) /\ spec \in Specs
      <4>1. ~IsCleanup(main.node)
        BY <3>2, SpecsTyped
      <4> QED
        BY <1>0, <1>7, <3>2, <4>1, BodyEffects DEF SetContext, BodySet, ListsOK
    <3> QED
      BY <2>2, <3>1, <3>2
  <2>4. currentSpecContext' \in {None} \union RunIds
    BY <1>7, <2>2 DEF SetContext, RunIds
  <2> QED
    BY <1>0, <1>7, <2>1, <2>3, <2>4 DEF SetContext, TypeOK, StructOK, ListsOK
<1>8. ASSUME BodyReturned PROVE TypeOK'
  <2>1. main' \in MainType
    BY <1>1, <1>8, MainEffects DEF BodyReturned, Moved
  <2> QED
    BY <1>0, <1>8, <2>1 DEF BodyReturned, TypeOK, StructOK, ListsOK
<1>9. ASSUME Leak PROVE TypeOK'
  <2>1. main' \in MainType
    BY <1>1, <1>9, MainEffects DEF Leak, Moved
  <2>2. body' \in [Specs -> BodyType]
    BY <1>9, BodyEffects DEF BodySet
  <2> QED
    BY <1>0, <1>9, <2>1, <2>2 DEF Leak, TypeOK, StructOK, ListsOK
<1>10. ASSUME ClearNode PROVE TypeOK'
  <2>1. main' \in MainType
    BY <1>1, <1>10, MainEffects DEF ClearNode, Locked, Moved
  <2> QED
    BY <1>0, <1>10, <2>1, SpecsTyped DEF ClearNode, TypeOK, StructOK, ListsOK
<1>11. ASSUME NextNode PROVE TypeOK'
  <2>1. main' \in MainType
    BY <1>11, MainEffects DEF Moved, Begun
  <2>2. UNCHANGED <<suiteVars, lock, body, gen, ran>>
    BY <1>11 DEF NextNode
  <2> QED
    BY <1>0, <2>1, <2>2 DEF TypeOK, StructOK, ListsOK
<1>12. ASSUME ProcessCurrentSpecReport PROVE TypeOK'
  <2>1. main' \in MainType
    BY <1>1, <1>12, MainEffects DEF ProcessCurrentSpecReport, Moved
  <2>2. currentSpecReport \in ReportType /\ reports \in Seq(ReportType)
    BY <1>0 DEF StructOK
  <2>3. reports' \in Seq(ReportType)
    BY <1>12, <2>2, Appended DEF ProcessCurrentSpecReport
  <2> QED
    BY <1>0, <1>12, <2>1, <2>3 DEF ProcessCurrentSpecReport, TypeOK, StructOK, ListsOK
<1>13. ASSUME ResetReport PROVE TypeOK'
  <2>1. main' \in MainType
    BY <1>13, MainEffects
  <2>2. currentSpecReport' \in ReportType
    BY <1>13, ReportEffects DEF ResetReport
  <2> QED
    BY <1>0, <1>13, <2>1, <2>2 DEF ResetReport, TypeOK, StructOK, ListsOK
<1>14. ASSUME SkipNode PROVE TypeOK'
  <2>1. main' \in MainType
    BY <1>1, <1>14, MainEffects DEF SkipNode, Moved
  <2> QED
    BY <1>0, <1>14, <2>1 DEF SkipNode, TypeOK, StructOK, ListsOK
<1> QED
  BY <1>2, <1>3, <1>4, <1>5, <1>6, <1>7, <1>8, <1>9, <1>10, <1>11, <1>12, <1>13, <1>14
     DEF SuiteStep

\* The steps of the generators.
LEMMA GeneratorStepTyped ==
  ASSUME TypeOK, Position
  PROVE  /\ \A why \in Cases: Case(why) => TypeOK'
         /\ HandleProgressSignal => TypeOK'
         /\ \A g \in Generators: GeneratorStep(g) => TypeOK'
<1> USE DEF suiteVars, current
<1>0. /\ StructOK /\ ListsOK /\ main \in MainType /\ body \in [Specs -> BodyType]
      /\ gen \in [Generators -> GeneratorType]
  BY DEF TypeOK
<1>1. ASSUME NoSuiteVars, gen' \in [Generators -> GeneratorType],
             lock' \in Generators \union {"free", "body"}
      PROVE  TypeOK'
  BY <1>0, <1>1 DEF NoSuiteVars, TypeOK, StructOK, ListsOK
<1>2. lock \in Generators \union {"free", "body"}
  BY <1>0 DEF StructOK
<1>3. ASSUME NEW why \in Cases, Case(why)
      PROVE  TypeOK'
  BY <1>1, <1>2, <1>3, GeneratorEffects DEF Case, GenSet
<1>4. HandleProgressSignal => TypeOK'
  BY <1>1, <1>2, GeneratorEffects DEF HandleProgressSignal, GenSet
<1>5. ASSUME NEW g \in Generators, GeneratorStep(g)
      PROVE  TypeOK'
  <2>1. CASE Acquire(g)
    BY <1>1, <2>1, GeneratorEffects DEF Acquire, GenSet
  <2>2. CASE Answers(g)
    BY <1>1, <1>2, <2>2, GeneratorEffects DEF Answers, GenSet
  <2>3. CASE ReporterDeadline(g)
    BY <1>1, <1>2, <2>3, GeneratorEffects DEF ReporterDeadline, GenSet
  <2>4. CASE NewProgressReport(g)
    BY <1>1, <2>4, GeneratorEffects DEF NewProgressReport, GenSet
  <2>5. CASE EmitProgressReport(g)
    <3>1. gen' \in [Generators -> GeneratorType]
      BY <2>5, GeneratorEffects DEF GenSet
    <3>2. currentSpecReport' \in ReportType
      BY <1>0, <2>5, ReportEffects DEF Reported, StructOK
    <3> QED
      BY <1>0, <2>5, <3>1, <3>2 DEF EmitProgressReport, TypeOK, StructOK, ListsOK
  <2> QED
    BY <1>5, <2>1, <2>2, <2>3, <2>4, <2>5 DEF GeneratorStep
<1> QED
  BY <1>3, <1>4, <1>5

\* DeferCleanup appends a cleanup node.
LEMMA Pushes ==
  ASSUME TypeOK, Counted, NEW n \in Specs, PushCleanupNode(n)
  PROVE  LET c == [id |-> <<n, body[n].calls>>, by |-> n, owner |-> body[n].owner]
         IN  /\ c \in Cleanups /\ <<n, body[n].calls>> \in CleanupIds
             /\ body[n].read \in Seq(Cleanups) /\ cleanupNodes' = Append(body[n].read, c)
             /\ cleanupNodes' \in Seq(Cleanups)
<1> DEFINE c == [id |-> <<n, body[n].calls>>, by |-> n, owner |-> body[n].owner]
<1>0. body[n] \in BodyType
  BY DEF TypeOK
<1>1. /\ body[n].calls \in Nat \ {0} /\ body[n].owner \in NodeIds
      /\ body[n].read \in Seq(Cleanups)
  BY <1>0 DEF BodyType, Counted, PushCleanupNode, At
<1>2. <<n, body[n].calls>> \in CleanupIds
  BY <1>1 DEF CleanupIds
<1>3. c \in Cleanups
  BY <1>1, <1>2 DEF Cleanups
<1>4. cleanupNodes' = Append(body[n].read, c)
  BY DEF PushCleanupNode
<1>5. cleanupNodes' \in Seq(Cleanups)
  <2> HIDE DEF c
  <2> QED
    BY <1>1, <1>3, <1>4, Appended
<1> QED
  BY <1>1, <1>2, <1>3, <1>4, <1>5

\* The steps of the bodies.
LEMMA BodyStepTyped ==
  ASSUME TypeOK, Counted, Position, NEW n \in Specs, Begin(n) \/ BodyStep(n) \/ Return(n)
  PROVE  TypeOK'
<1> USE DEF suiteVars, current
<1>0. /\ StructOK /\ ListsOK /\ main \in MainType /\ body \in [Specs -> BodyType]
      /\ gen \in [Generators -> GeneratorType] /\ body[n] \in BodyType
  BY DEF TypeOK
<1>1. CASE Begin(n)
  <2>1. body' \in [Specs -> BodyType]
    BY <1>1, BodyEffects DEF BodySet
  <2> QED
    BY <1>0, <1>1, <2>1 DEF Begin, TypeOK, StructOK, ListsOK
<1>2. CASE AddReportEntry(n)
  <2>1. body' \in [Specs -> BodyType]
    BY <1>2, BodyEffects DEF AddReportEntry, BodySet
  <2>2. currentSpecReport' \in ReportType
    BY <1>2, ReportEffects DEF Reported
  <2> QED
    BY <1>0, <1>2, <2>1, <2>2 DEF AddReportEntry, TypeOK, StructOK, ListsOK
<1>3. CASE HandleByEvent(n)
  <2>1. body' \in [Specs -> BodyType]
    BY <1>3, BodyEffects DEF BodySet
  <2>2. currentSpecReport' \in ReportType
    BY <1>3, ReportEffects DEF Reported
  <2> QED
    BY <1>0, <1>3, <2>1, <2>2 DEF HandleByEvent, TypeOK, StructOK, ListsOK
<1>4. CASE By(n)
  <2>1. body' \in [Specs -> BodyType]
    BY <1>4, BodyEffects DEF By, BodySet
  <2>2. currentByStep' \in Nat
    BY <1>4, SpecsTyped DEF By
  <2> QED
    BY <1>0, <1>4, <2>1, <2>2 DEF By, TypeOK, StructOK, ListsOK
<1>5. CASE AttachProgressReporter(n)
  <2>1. body' \in [Specs -> BodyType]
    BY <1>5, BodyEffects DEF AttachProgressReporter, BodySet
  <2>2. PICK r \in Reporters: attached' = [attached EXCEPT ![n] = Append(@, r)]
    BY <1>5 DEF AttachProgressReporter
  <2>3. attached \in [Specs -> Seq(Reporters)]
    BY <1>0 DEF StructOK
  <2>4. Append(attached[n], r) \in Seq(Reporters)
    BY <2>3, Appended
  <2>5. attached' \in [Specs -> Seq(Reporters)]
    BY <2>2, <2>3, <2>4
  <2> QED
    BY <1>0, <1>5, <2>1, <2>5 DEF AttachProgressReporter, TypeOK, StructOK, ListsOK
<1>6. CASE ReadOwner(n)
  <2>1. main' \in MainType /\ body' \in [Specs -> BodyType]
    BY <1>0, <1>6, BodyEffects, MainEffects DEF BodySet, Moved
  <2> QED
    BY <1>0, <1>6, <2>1 DEF ReadOwner, TypeOK, StructOK, ListsOK
<1>7. CASE ReadForAppend(n)
  <2>1. body' \in [Specs -> BodyType]
    BY <1>7, BodyEffects DEF BodySet
  <2> QED
    BY <1>0, <1>7, <2>1 DEF ReadForAppend, TypeOK, StructOK, ListsOK
<1>8. CASE PushCleanupNode(n)
  <2>1. body' \in [Specs -> BodyType]
    BY <1>8, BodyEffects DEF BodySet
  <2>2. cleanupNodes' \in Seq(Cleanups)
    BY <1>8, Pushes
  <2> QED
    BY <1>0, <1>8, <2>1, <2>2 DEF PushCleanupNode, TypeOK, StructOK, ListsOK
<1>9. CASE Return(n)
  <2>1. body' \in [Specs -> BodyType]
    BY <1>9, BodyEffects DEF BodySet
  <2> QED
    BY <1>0, <1>9, <2>1 DEF Return, TypeOK, StructOK, ListsOK
<1> QED
  BY <1>1, <1>2, <1>3, <1>4, <1>5, <1>6, <1>7, <1>8, <1>9 DEF BodyStep

-----------------------------------------------------------------------------
(* What the steps of the generators and of the bodies leave alone          *)

Generates == \/ \E why \in Cases: Case(why)
             \/ HandleProgressSignal \/ \E g \in Generators: GeneratorStep(g)
BodyMoves(n) == Begin(n) \/ BodyStep(n) \/ Return(n)

\* A progress report changes the current report only, and not its spec.
LEMMA GeneratorFrame ==
  ASSUME TypeOK, Position, Generates
  PROVE  /\ UNCHANGED <<reports, currentNode, cleanupNodes, main, body, ran>> /\ spec' = spec
         /\ \/ UNCHANGED currentSpecReport
            \/ \E g \in Generators:
                 /\ gen[g].pc = "emit" /\ EmitProgressReport(g)
                 /\ Reported({}, {}, {[by |-> g, of |-> gen[g].snap]})
<1> USE DEF suiteVars, current
<1>1. CASE \E g \in Generators: EmitProgressReport(g)
  <2>1. PICK g \in Generators: EmitProgressReport(g)
    BY <1>1
  <2>2. /\ UNCHANGED <<reports, currentNode, cleanupNodes, main, body, ran>>
        /\ gen[g].pc = "emit"
    BY <2>1 DEF EmitProgressReport
  <2>3. \/ UNCHANGED currentSpecReport
        \/ Reported({}, {}, {[by |-> g, of |-> gen[g].snap]})
    BY <2>1, ReportEffects
  <2>4. spec' = spec
    BY <2>3 DEF Reported, spec
  <2> QED
    BY <2>1, <2>2, <2>3, <2>4
<1>2. CASE ~\E g \in Generators: EmitProgressReport(g)
  <2>1. NoSuiteVars
    BY <1>2 DEF Generates, Case, HandleProgressSignal, GeneratorStep, Acquire, Answers,
                ReporterDeadline, NewProgressReport
  <2> QED
    BY <2>1 DEF NoSuiteVars, spec
<1> QED
  BY <1>1, <1>2

\* A body leaves the suite's goroutine and the other bodies alone, or ends the
\* process.
LEMMA BodyFrame ==
  ASSUME TypeOK, Position, NEW n \in Specs, BodyMoves(n)
  PROVE  /\ UNCHANGED <<reports, currentNode, gen, ran>> /\ spec' = spec
         /\ main.pc \notin {"end", "exited"} /\ body[n].state = "running"
         /\ \/ UNCHANGED main
            \/ Moved("exited") /\ UNCHANGED body /\ (currentNode = None \/ IsCleanup(currentNode))
         /\ \A m \in Specs: m # n => body'[m] = body[m]
         /\ body'[n].program = body[n].program /\ body'[n].leaked = body[n].leaked
         /\ body'[n].state \in {"running", "returned"}
<1> USE DEF suiteVars, current
<1>0. body \in [Specs -> BodyType] /\ body[n] \in BodyType
  BY DEF TypeOK
<1>1. /\ UNCHANGED <<reports, currentNode, gen, ran>>
      /\ main.pc \notin {"end", "exited"} /\ body[n].state = "running"
  BY DEF BodyMoves, Begin, BodyStep, Return, AddReportEntry, HandleByEvent, By,
         AttachProgressReporter, ReadOwner, ReadForAppend, PushCleanupNode, At, Ended
<1>2. spec' = spec
  <2>1. CASE AddReportEntry(n) \/ HandleByEvent(n)
    BY <2>1, ReportEffects DEF Reported, spec
  <2>2. CASE ~(AddReportEntry(n) \/ HandleByEvent(n))
    <3>1. UNCHANGED currentSpecReport
      BY <2>2 DEF BodyMoves, Begin, BodyStep, Return, By, AttachProgressReporter, ReadOwner,
                  ReadForAppend, PushCleanupNode
    <3> QED
      BY <3>1 DEF spec
  <2> QED
    BY <2>1, <2>2
<1>3. ASSUME NEW v, SameProgram(body[n], v), BodySet(n, v), UNCHANGED main
      PROVE  /\ UNCHANGED main /\ \A m \in Specs: m # n => body'[m] = body[m]
             /\ body'[n].program = body[n].program /\ body'[n].leaked = body[n].leaked
             /\ body'[n].state \in {"running", "returned"}
  BY <1>1, <1>3 DEF BodySet, SameProgram
<1>4. ASSUME EndCall(n), UNCHANGED main
      PROVE  /\ UNCHANGED main /\ \A m \in Specs: m # n => body'[m] = body[m]
             /\ body'[n].program = body[n].program /\ body'[n].leaked = body[n].leaked
             /\ body'[n].state \in {"running", "returned"}
  BY <1>0, <1>3, <1>4, BodyEffects, BodyFields
<1>5. CASE Begin(n)
  <2>1. UNCHANGED main /\ body[n].calls < Len(body[n].program)
    BY <1>5 DEF Begin
  <2> QED
    BY <1>0, <1>1, <1>2, <1>3, <1>5, <2>1, BodyEffects, BodyFields
<1>6. CASE AddReportEntry(n)
  BY <1>1, <1>2, <1>4, <1>6 DEF AddReportEntry
<1>7. CASE HandleByEvent(n)
  <2>1. SameProgram(body[n], [body[n] EXCEPT !.stage = 1])
    BY <1>0 DEF SameProgram, BodyType
  <2>2. UNCHANGED main
    BY <1>7 DEF HandleByEvent
  <2> QED
    BY <1>1, <1>2, <1>3, <1>7, <2>1, <2>2, BodyEffects
<1>8. CASE By(n)
  BY <1>1, <1>2, <1>4, <1>8 DEF By
<1>9. CASE AttachProgressReporter(n)
  BY <1>1, <1>2, <1>4, <1>9 DEF AttachProgressReporter
<1>10. CASE ReadOwner(n)
  <2>1. CASE UNCHANGED main /\ BodySet(n, Owned(body[n]))
    BY <1>0, <1>1, <1>2, <1>3, <2>1, BodyFields
  <2>2. CASE main' = [main EXCEPT !.pc = "exited"] /\ UNCHANGED body
             /\ (currentNode = None \/ IsCleanup(currentNode))
    BY <1>1, <1>2, <2>2, MainEffects
  <2> QED
    BY <1>10, <2>1, <2>2, BodyEffects
<1>11. CASE ReadForAppend(n)
  <2>1. UNCHANGED main
    BY <1>11 DEF ReadForAppend
  <2> QED
    BY <1>0, <1>1, <1>2, <1>3, <1>11, <2>1, BodyEffects, BodyFields
<1>12. CASE PushCleanupNode(n)
  <2>1. UNCHANGED main
    BY <1>12 DEF PushCleanupNode
  <2> QED
    BY <1>0, <1>1, <1>2, <1>3, <1>12, <2>1, BodyEffects, BodyFields
<1>13. CASE Return(n)
  <2>1. UNCHANGED main
    BY <1>13 DEF Return
  <2>2. BodySet(n, [body[n] EXCEPT !.state = "returned"])
    BY <1>13, BodyEffects
  <2>3. PICK v: v = [body[n] EXCEPT !.state = "returned"]
    OBVIOUS
  <2>4. v.program = body[n].program /\ v.leaked = body[n].leaked /\ v.state = "returned"
    BY <1>0, <2>3 DEF BodyType
  <2> QED
    BY <1>1, <1>2, <2>1, <2>2, <2>3, <2>4 DEF BodySet
<1> QED
  BY <1>5, <1>6, <1>7, <1>8, <1>9, <1>10, <1>11, <1>12, <1>13 DEF BodyMoves, BodyStep

-----------------------------------------------------------------------------
(* Every step keeps the invariant Own                                      *)

\* What a report is about stays so while no leaked body is forgotten.
LEMMA AboutKept ==
  ASSUME \A m \in Specs: body[m].leaked => body'[m].leaked
  PROVE  \A r \in ReportType, i \in Nat: About(r, i) => About(r, i)'
<1> SUFFICES ASSUME NEW r \in ReportType, NEW i \in Nat, About(r, i)
             PROVE  About(r, i)'
  OBVIOUS
<1>1. r.events \in Seq(RunIds) /\ r.entries \in Seq(Specs)
  BY DEF ReportType
<1>2. \A e \in Range(r.entries): e \in Specs
  BY <1>1 DEF Range
<1>3. \A e \in Range(r.events): ~IsCleanup(e) => e[1] \in Specs
  BY <1>1, SpecsTyped DEF Range, RunIds
<1> QED
  BY <1>2, <1>3 DEF About

\* A report with more in it is about a spec if what was added is.
LEMMA AboutMore ==
  ASSUME NEW events, NEW entries, NEW progress, TypeOK, Reported(events, entries, progress),
         \A m \in Specs: body[m].leaked => body'[m].leaked,
         NEW i \in Nat, About(currentSpecReport, i),
         \A e \in events: ~IsCleanup(e) => e = It(i) \/ body'[e[1]].leaked,
         \A e \in entries: e = i \/ body'[e].leaked,
         \A p \in progress: p.by = "suite" => p.of.spec = i /\ p.of.node = It(i)
  PROVE  About(currentSpecReport, i)'
<1>0. PICK r \in ReportType: r = currentSpecReport
  BY DEF TypeOK, StructOK
<1>1. About(r, i)'
  BY <1>0, AboutKept
<1>2. PICK v \in ReportType: v = currentSpecReport'
  BY DEF Reported
<1>3. /\ Range(v.events) = Range(r.events) \union events
      /\ Range(v.entries) = Range(r.entries) \union entries
      /\ Range(v.progress) = Range(r.progress) \union progress
  BY <1>0, <1>2 DEF Reported
<1>4. About(v, i)'
  BY <1>1, <1>3 DEF About
<1> QED
  BY <1>2, <1>4 DEF About

\* The steps of the generators.
LEMMA OwnGenerates ==
  ASSUME Own, Generates
  PROVE  Own'
<1>0. TypeOK /\ Counted /\ Position /\ Running /\ Taken /\ SnapshotConsistent /\ Filed /\ Exited
  BY DEF Own
<1>1. UNCHANGED <<reports, currentNode, cleanupNodes, main, body, ran>> /\ spec' = spec
  BY <1>0, GeneratorFrame
<1>2. TypeOK'
  BY <1>0, GeneratorStepTyped DEF Generates
<1>3. Counted' /\ Running' /\ Exited'
  BY <1>0, <1>1 DEF Counted, Running, Exited
<1>4. Position'
  BY <1>0, <1>1 DEF Position
<1>5. \A g \in Generators: gen[g] \in GeneratorType
  BY <1>0 DEF TypeOK
<1>6. "suite" \in Generators /\ "signal" \in Generators /\ "suite" # "signal"
  BY DEF Generators
<1>7. ASSUME NEW g \in Generators, NEW v, GenSet(g, v),
             v.snap.node # None /\ ~IsCleanup(v.snap.node) => v.snap.node = It(v.snap.spec),
             g = "suite" /\ v.pc # "idle" => main.pc \in {"select", "exited"},
             g = "suite" /\ main.pc = "select" /\ v.pc = "emit" =>
               v.snap.spec = spec /\ v.snap.node = It(spec)
      PROVE  Taken' /\ SnapshotConsistent'
  <2>1. Taken'
    <3>1. CASE g = "suite"
      BY <1>0, <1>1, <1>7, <3>1 DEF Taken, GenSet
    <3>2. CASE g # "suite"
      <4>1. gen'["suite"] = gen["suite"]
        BY <1>6, <1>7, <3>2 DEF GenSet
      <4> QED
        BY <1>0, <1>1, <4>1 DEF Taken
    <3> QED
      BY <3>1, <3>2
  <2>2. SnapshotConsistent'
    BY <1>0, <1>7 DEF SnapshotConsistent, GenSet
  <2> QED
    BY <2>1, <2>2
<1>8. Taken' /\ SnapshotConsistent'
  <2>0. ASSUME NEW g \in Generators
        PROVE  /\ gen[g].snap.node # None /\ ~IsCleanup(gen[g].snap.node)
                    => gen[g].snap.node = It(gen[g].snap.spec)
               /\ NoSnapshot.node = None
    BY <1>0 DEF SnapshotConsistent, NoSnapshot
  <2>1. ASSUME NEW why \in Cases, Case(why)
        PROVE  Taken' /\ SnapshotConsistent'
    <3>1. main.pc = "select"
      BY <2>1 DEF Case, AtSelect
    <3>2. PICK v: v = Asked(gen["suite"], why)
      OBVIOUS
    <3>3. v.pc = "lock" /\ v.snap = gen["suite"].snap
      <4>1. why \in Cases \union {"signal"} /\ gen["suite"] \in GeneratorType
        BY <1>5, <1>6
      <4> QED
        BY <3>2, <4>1, GeneratorFields
    <3>4. GenSet("suite", v)
      BY <1>0, <2>1, <3>2, GeneratorEffects
    <3> QED
      BY <1>6, <1>7, <2>0, <3>1, <3>3, <3>4
  <2>2. CASE HandleProgressSignal
    <3>1. PICK v: v = Asked(gen["signal"], "signal")
      OBVIOUS
    <3>2. v.snap = gen["signal"].snap
      BY <1>5, <1>6, <3>1, GeneratorFields
    <3>3. GenSet("signal", v)
      BY <1>0, <2>2, <3>1, GeneratorEffects
    <3> QED
      BY <1>6, <1>7, <2>0, <3>2, <3>3
  <2>3. ASSUME NEW g \in Generators, Acquire(g)
        PROVE  Taken' /\ SnapshotConsistent'
    <3>1. PICK v: v = Querying(gen[g])
      OBVIOUS
    <3>2. v.pc = "query" /\ v.snap = NoSnapshot
      BY <1>0, <1>5, <3>1, GeneratorFields
    <3>3. GenSet(g, v)
      BY <1>0, <2>3, <3>1, GeneratorEffects
    <3>4. g = "suite" => main.pc \in {"select", "exited"}
      BY <1>0, <2>3 DEF Taken, Acquire
    <3> QED
      BY <1>7, <2>0, <3>2, <3>3, <3>4
  <2>4. ASSUME NEW g \in Generators, Answers(g)
        PROVE  Taken' /\ SnapshotConsistent'
    <3>1. PICK v: v = Answered(gen[g])
      OBVIOUS
    <3>2. v.pc = "query" /\ v.snap = gen[g].snap
      BY <1>0, <1>5, <2>4, <3>1, GeneratorFields DEF Answers
    <3>3. GenSet(g, v)
      BY <1>0, <2>4, <3>1, GeneratorEffects
    <3>4. g = "suite" => main.pc \in {"select", "exited"}
      BY <1>0, <2>4 DEF Taken, Answers
    <3> QED
      BY <1>7, <2>0, <3>2, <3>3, <3>4
  <2>5. ASSUME NEW g \in Generators, ReporterDeadline(g)
        PROVE  Taken' /\ SnapshotConsistent'
    <3>1. PICK v: v = [gen[g] EXCEPT !.ask = <<>>]
      OBVIOUS
    <3>2. v.pc = gen[g].pc /\ v.snap = gen[g].snap
      BY <1>5, <3>1 DEF GeneratorType
    <3>3. GenSet(g, v) /\ gen[g].pc = "query"
      BY <1>0, <2>5, <3>1, GeneratorEffects DEF ReporterDeadline
    <3>4. g = "suite" => main.pc \in {"select", "exited"}
      BY <1>0, <3>3 DEF Taken
    <3> QED
      BY <1>7, <2>0, <3>2, <3>3, <3>4
  <2>6. ASSUME NEW g \in Generators, NewProgressReport(g), ~Ended
        PROVE  Taken' /\ SnapshotConsistent'
    <3>1. PICK v: v = Snapshot(gen[g])
      OBVIOUS
    <3>2. v.pc = "emit" /\ v.snap.node = currentNode /\ v.snap.spec = spec
      BY <1>0, <1>5, <3>1, GeneratorFields
    <3>3. GenSet(g, v)
      BY <1>0, <2>6, <3>1, GeneratorEffects
    <3>4. g = "suite" => main.pc \in {"select", "exited"}
      BY <1>0, <2>6 DEF Taken, NewProgressReport
    <3>5. main.pc = "select" => currentNode = It(spec)
      BY <1>0 DEF Position
    <3>6. main.pc \in PCs /\ main.pc \notin {"end", "exited"}
      BY <1>0, <2>6 DEF TypeOK, MainType, Ended
    <3>7. currentNode # None /\ ~IsCleanup(currentNode) => currentNode = It(spec)
      BY <1>0, <3>6, SpecsTyped DEF Position, PCs, InSpec, Starting, Ending
    <3> QED
      BY <1>7, <3>2, <3>3, <3>4, <3>5, <3>7
  <2>7. ASSUME NEW g \in Generators, EmitProgressReport(g)
        PROVE  Taken' /\ SnapshotConsistent'
    <3>1. PICK v: v = Emitted(gen[g])
      OBVIOUS
    <3>2. v.pc = "idle" /\ v.snap = NoSnapshot
      BY <1>5, <3>1, GeneratorFields
    <3>3. GenSet(g, v)
      BY <1>0, <2>7, <3>1, GeneratorEffects
    <3> QED
      BY <1>7, <2>0, <3>2, <3>3
  <2> QED
    BY <2>1, <2>2, <2>3, <2>4, <2>5, <2>6, <2>7 DEF Generates, GeneratorStep
<1>9. Filed'
  <2>1. \A i \in DOMAIN reports': reports'[i].spec = i /\ About(reports[i], i)'
    BY <1>0, <1>1 DEF Filed, About
  <2>2. main.pc \in InSpec => About(currentSpecReport, spec)'
    <3>1. CASE UNCHANGED currentSpecReport
      BY <1>0, <1>1, <3>1 DEF Filed, About
    <3>2. ASSUME NEW g \in Generators, gen[g].pc = "emit", main.pc \in InSpec,
                 Reported({}, {}, {[by |-> g, of |-> gen[g].snap]})
          PROVE  About(currentSpecReport, spec)'
      <4>1. g = "suite" => gen[g].snap.spec = spec /\ gen[g].snap.node = It(spec)
        BY <1>0, <3>2 DEF Taken, InSpec, Starting, Ending
      <4>2. spec \in Nat /\ About(currentSpecReport, spec)
        BY <1>0, <3>2, SpecsTyped DEF Filed, Position
      <4>3. About(currentSpecReport, spec)'
        BY <1>0, <1>1, <3>2, <4>1, <4>2, AboutMore
      <4> QED
        BY <1>1, <4>3
    <3> QED
      BY <1>0, <3>1, <3>2, GeneratorFrame
  <2> QED
    BY <1>1, <2>1, <2>2 DEF Filed
<1> QED
  BY <1>2, <1>3, <1>4, <1>8, <1>9 DEF Own

\* The steps of the bodies.
LEMMA OwnBodyMoves ==
  ASSUME Own, NEW n \in Specs, BodyMoves(n)
  PROVE  Own'
<1>0. TypeOK /\ Counted /\ Position /\ Running /\ Taken /\ SnapshotConsistent /\ Filed /\ Exited
  BY DEF Own
<1>1. /\ UNCHANGED <<reports, currentNode, gen, ran>> /\ spec' = spec
      /\ main.pc \notin {"end", "exited"} /\ body[n].state = "running"
      /\ \/ UNCHANGED main
         \/ Moved("exited") /\ UNCHANGED body /\ (currentNode = None \/ IsCleanup(currentNode))
      /\ \A m \in Specs: m # n => body'[m] = body[m]
      /\ body'[n].program = body[n].program /\ body'[n].leaked = body[n].leaked
      /\ body'[n].state \in {"running", "returned"}
  BY <1>0, BodyFrame
<1>2. TypeOK'
  BY <1>0, BodyStepTyped DEF BodyMoves
<1>3. body[n] \in BodyType /\ body[n].calls \in Nat /\ spec \in Nat
  BY <1>0 DEF TypeOK, StructOK, ReportType, BodyType, spec
<1>4. Counted'
  <2>1. SUFFICES body'[n].call # "none" => body'[n].calls > 0 /\ body'[n].state = "running"
    BY <1>0, <1>1 DEF Counted
  <2>2. CASE Begin(n)
    <3>1. body[n].calls < Len(body[n].program)
      BY <2>2 DEF Begin
    <3>2. BodySet(n, Called(body[n]))
      BY <1>0, <2>2, BodyEffects
    <3>3. Called(body[n]).calls = body[n].calls + 1 /\ Called(body[n]).state = "running"
      BY <1>1, <1>3, <3>1, BodyFields DEF SameProgram
    <3> QED
      BY <1>3, <3>2, <3>3 DEF BodySet
  <2>3. CASE EndCall(n)
    <3>1. BodySet(n, CallOver(body[n]))
      BY <1>0, <2>3, BodyEffects
    <3> QED
      BY <1>3, <3>1, BodyFields DEF BodySet
  <2>4. CASE HandleByEvent(n)
    <3>1. PICK v: v = [body[n] EXCEPT !.stage = 1]
      OBVIOUS
    <3>2. v.call = body[n].call /\ v.calls = body[n].calls /\ v.state = body[n].state
      BY <1>3, <3>1 DEF BodyType
    <3>3. BodySet(n, v)
      BY <1>0, <2>4, <3>1, BodyEffects
    <3> QED
      BY <1>0, <3>2, <3>3 DEF BodySet, Counted
  <2>5. CASE ReadOwner(n)
    <3>1. CASE BodySet(n, Owned(body[n]))
      BY <1>0, <1>3, <3>1, BodyFields DEF BodySet, SameProgram, Counted
    <3>2. CASE UNCHANGED body
      BY <1>0, <3>2 DEF Counted
    <3> QED
      BY <1>0, <2>5, <3>1, <3>2, BodyEffects
  <2>6. CASE ReadForAppend(n)
    <3>1. BodySet(n, Appending(body[n]))
      BY <1>0, <2>6, BodyEffects
    <3> QED
      BY <1>0, <1>3, <3>1, BodyFields DEF BodySet, SameProgram, Counted
  <2>7. CASE PushCleanupNode(n)
    <3>1. BodySet(n, Pushed(body[n]))
      BY <1>0, <2>7, BodyEffects
    <3> QED
      BY <1>3, <3>1, BodyFields DEF BodySet
  <2>8. CASE Return(n)
    <3>1. PICK v: v = [body[n] EXCEPT !.state = "returned"]
      OBVIOUS
    <3>2. v.call = body[n].call
      BY <1>3, <3>1 DEF BodyType
    <3>3. BodySet(n, v) /\ body[n].call = "none"
      BY <1>0, <2>8, <3>1, BodyEffects DEF Return, At
    <3> QED
      BY <3>2, <3>3 DEF BodySet
  <2> QED
    BY <2>1, <2>2, <2>3, <2>4, <2>5, <2>6, <2>7, <2>8
       DEF BodyMoves, BodyStep, AddReportEntry, By, AttachProgressReporter
<1>5. Position'
  <2>1. CASE UNCHANGED main
    BY <1>0, <1>1, <2>1 DEF Position
  <2>2. CASE main'.pc = "exited"
    BY <2>2 DEF Position, InSpec, Starting, Ending
  <2> QED
    BY <1>1, <2>1, <2>2 DEF Moved
<1>6. Running'
  <2>1. CASE UNCHANGED main
    BY <1>0, <1>1, <2>1 DEF Running
  <2>2. CASE main'.pc = "exited"
    BY <2>2 DEF Running
  <2> QED
    BY <1>1, <2>1, <2>2 DEF Moved
<1>7. Taken' /\ SnapshotConsistent'
  <2>1. SnapshotConsistent'
    BY <1>0, <1>1 DEF SnapshotConsistent
  <2>2. CASE UNCHANGED main
    BY <1>0, <1>1, <2>1, <2>2 DEF Taken
  <2>3. CASE main'.pc = "exited"
    BY <2>1, <2>3 DEF Taken
  <2> QED
    BY <1>1, <2>2, <2>3 DEF Moved
<1>8. Filed'
  <2>0. \A m \in Specs: body[m].leaked => body'[m].leaked
    BY <1>1
  <2>1. ASSUME NEW i \in DOMAIN reports
        PROVE  reports[i].spec = i /\ About(reports[i], i)'
    <3>1. reports[i] \in ReportType /\ i \in Nat
      BY <1>0 DEF TypeOK, StructOK
    <3>2. PICK r \in ReportType: r = reports[i]
      BY <3>1
    <3>3. reports[i].spec = i /\ About(r, i)
      BY <1>0, <3>2 DEF Filed
    <3>4. About(r, i)'
      BY <2>0, <3>1, <3>3, AboutKept
    <3> QED
      BY <1>1, <3>2, <3>3, <3>4 DEF About
  <2>2. ASSUME main.pc \in InSpec
        PROVE  About(currentSpecReport, spec)'
    <3>0. About(currentSpecReport, spec) /\ currentSpecReport \in ReportType
      BY <1>0, <2>2 DEF Filed, TypeOK, StructOK
    <3>1. n = spec \/ body'[n].leaked
      <4>1. body[n].leaked \/ (main.pc = "select" /\ main.node = It(n))
        BY <1>0, <1>1 DEF Running
      <4>2. main.pc = "select" => main.node = It(spec) /\ spec \in Specs
        BY <1>0 DEF Position, InSpec
      <4> QED
        BY <1>1, <4>1, <4>2, SpecsTyped
    <3>2. PICK i \in Nat: i = spec
      BY <1>3
    <3>3. CASE AddReportEntry(n)
      <4>1. Reported({}, {n}, {})
        BY <1>0, <3>3, ReportEffects
      <4>2. About(currentSpecReport, i)'
        BY <1>0, <2>0, <3>0, <3>1, <3>2, <4>1, AboutMore
      <4> QED
        BY <1>1, <3>2, <4>2
    <3>4. CASE HandleByEvent(n)
      <4>1. Reported({It(n)}, {}, {})
        BY <1>0, <3>4, ReportEffects
      <4>2. It(n)[1] = n
        BY SpecsTyped
      <4>3. About(currentSpecReport, i)'
        BY <1>0, <2>0, <3>0, <3>1, <3>2, <4>1, <4>2, AboutMore
      <4> QED
        BY <1>1, <3>2, <4>3
    <3>5. CASE UNCHANGED currentSpecReport
      <4>1. PICK r \in ReportType: r = currentSpecReport
        BY <3>0
      <4>2. About(r, i)'
        BY <2>0, <3>0, <3>2, <4>1, AboutKept
      <4> QED
        BY <1>1, <3>2, <3>5, <4>1, <4>2 DEF About
    <3> QED
      BY <3>3, <3>4, <3>5
         DEF BodyMoves, Begin, BodyStep, Return, By, AttachProgressReporter, ReadOwner,
             ReadForAppend, PushCleanupNode, suiteVars
  <2>3. main'.pc \in InSpec => main.pc \in InSpec
    BY <1>1 DEF Moved, InSpec, Starting, Ending
  <2>4. ASSUME NEW i \in DOMAIN reports'
        PROVE  reports'[i].spec = i /\ About(reports[i], i)'
    BY <1>1, <2>1
  <2> QED
    BY <2>2, <2>3, <2>4 DEF Filed
<1>9. Exited'
  <2>1. CASE UNCHANGED main
    BY <1>1, <2>1 DEF Exited
  <2>2. CASE currentNode = None \/ IsCleanup(currentNode)
    <3>1. body[n].leaked \/ (main.pc = "select" /\ main.node = It(n))
      BY <1>0, <1>1 DEF Running
    <3>2. main.pc = "select" => currentNode = main.node
      BY <1>0 DEF Position
    <3>3. body[n].leaked
      BY <2>2, <3>1, <3>2, SpecsTyped
    <3> QED
      BY <1>1, <3>3 DEF Exited
  <2> QED
    BY <1>1, <2>1, <2>2
<1> QED
  BY <1>2, <1>4, <1>5, <1>6, <1>7, <1>8, <1>9 DEF Own

\* The steps of the suite's goroutine.
LEMMA OwnSuiteStep ==
  ASSUME Own, SuiteStep
  PROVE  Own'
<1> USE DEF suiteVars, current
<1>0. TypeOK /\ Counted /\ Position /\ Running /\ Taken /\ SnapshotConsistent /\ Filed /\ Exited
  BY DEF Own
<1>1. /\ InSpec = {"remove", "assign", "start", "enter", "context", "select", "leave", "clear",
                   "next", "process", "reset"}
      /\ PCs = InSpec \union {"spec", "end", "exited"}
  BY DEF PCs, InSpec, Starting, Ending
<1>2. TypeOK'
  BY <1>0, SuiteStepTyped
<1>3. /\ spec \in Nat /\ body \in [Specs -> BodyType] /\ currentSpecReport \in ReportType
      /\ reports \in Seq(ReportType) /\ DOMAIN reports = 1..Len(reports) /\ Len(reports) \in Nat
      /\ main.node \in NodeIds /\ \A g \in Generators: gen[g] \in GeneratorType
  BY <1>0 DEF TypeOK, StructOK, ReportType, MainType, spec
\* The suite's goroutine is not at the select, or leaves it with its generator idle.
<1>4. gen["suite"].pc = "idle"
  <2>1. CASE AtSelect
    BY <2>1 DEF AtSelect
  <2>2. CASE main.pc \notin {"select", "exited"}
    BY <1>0, <2>2 DEF Taken
  <2> QED
    BY <1>1, <2>1, <2>2, MainEffects
       DEF SuiteStep, NewSpec, ReadCleanups, AssignCleanups, SkipNode, SetNode, NodeEvent,
           SetContext, BodyReturned, Leak, ClearNode, NextNode, ProcessCurrentSpecReport, ResetReport,
           Locked, Goto
\* What a step that leaves the reports and the bodies alone has still to show.
<1>5. ASSUME main'.pc \in InSpec \union {"spec", "end"}, UNCHANGED gen, Position', Running',
             \A m \in Specs: body[m].leaked => body'[m].leaked, Counted',
             UNCHANGED reports, main'.pc \in InSpec => About(currentSpecReport, spec)'
      PROVE  Own'
  <2>1. Taken' /\ SnapshotConsistent' /\ Exited'
    BY <1>0, <1>1, <1>4, <1>5 DEF Taken, SnapshotConsistent, Exited
  <2>2. ASSUME NEW i \in DOMAIN reports
        PROVE  reports[i].spec = i /\ About(reports[i], i)'
    <3>1. reports[i] \in ReportType /\ i \in Nat
      BY <1>3
    <3>2. PICK r \in ReportType: r = reports[i]
      BY <3>1
    <3>3. reports[i].spec = i /\ About(r, i)
      BY <1>0, <3>2 DEF Filed
    <3>4. About(r, i)'
      BY <1>5, <3>1, <3>3, AboutKept
    <3> QED
      BY <1>5, <3>2, <3>3, <3>4 DEF About
  <2>3. Filed'
    BY <1>5, <2>2 DEF Filed
  <2> QED
    BY <1>2, <1>5, <2>1, <2>3 DEF Own
\* A step from node to node.
<1>6. ASSUME NEW to \in InSpec, Moved(to), main.pc \in InSpec, UNCHANGED <<gen, reports, body>>,
             spec' = spec, Position', main.pc # "select" \/ \A m \in Specs:
                                        body[m].state = "running" => body[m].leaked,
             About(currentSpecReport, spec)'
      PROVE  Own'
  <2>1. Running'
    BY <1>0, <1>1, <1>6 DEF Running, Moved
  <2>2. Counted'
    BY <1>0, <1>6 DEF Counted
  <2> QED
    BY <1>1, <1>5, <1>6, <2>1, <2>2 DEF Moved
<1>7. main.pc \in InSpec /\ UNCHANGED <<currentSpecReport, body>> => About(currentSpecReport, spec)'
  BY <1>0 DEF Filed, About, spec
<1>8. CASE NewSpec
  <2>0. PICK to \in {"remove", "process"}: Locked("spec", to)
    BY <1>8 DEF NewSpec
  <2>1. main.pc = "spec" /\ Moved(to) /\ UNCHANGED <<gen, reports, body, currentNode>>
    BY <1>0, <1>1, <1>8, <2>0, MainEffects DEF NewSpec, Locked
  <2>2. main.node = It(Len(reports) + 1) /\ Len(reports) + 1 \in Specs /\ currentNode = None
    BY <1>0, <2>1 DEF Position
  <2>3. main.node[1] = Len(reports) + 1
    BY <2>2, SpecsTyped
  <2>4. currentSpecReport' = Report(Len(reports) + 1)
    BY <1>8, <2>3 DEF NewSpec
  <2>5. PICK n \in Nat: n = Len(reports) + 1
    BY <1>3
  <2>6. /\ currentSpecReport'.spec = n /\ Range(currentSpecReport'.events) = {}
        /\ Range(currentSpecReport'.entries) = {} /\ Range(currentSpecReport'.progress) = {}
    BY <1>0, <2>4, <2>5, ReportEffects
  <2>7. About(currentSpecReport, spec)'
    BY <2>6 DEF About
  <2>8. Position'
    BY <1>1, <1>3, <2>0, <2>1, <2>2, <2>5, <2>6 DEF Position, Moved, spec
  <2>9. Running' /\ Counted'
    BY <1>0, <2>0, <2>1 DEF Running, Counted, Moved
  <2> QED
    BY <1>1, <1>5, <2>0, <2>1, <2>7, <2>8, <2>9 DEF Moved
<1>9. CASE ReadCleanups
  <2>1. /\ main.pc = "remove" /\ UNCHANGED <<currentSpecReport, gen, reports, body, currentNode>>
        /\ main'.pc = "assign" /\ main'.node = main.node
    BY <1>0, <1>9, MainEffects DEF ReadCleanups
  <2>2. Position'
    BY <1>0, <1>1, <2>1 DEF Position, spec
  <2>3. Running' /\ Counted'
    BY <1>0, <2>1 DEF Running, Counted
  <2> QED
    BY <1>1, <1>5, <1>7, <2>1, <2>2, <2>3
<1>10. CASE AssignCleanups
  <2>1. /\ main.pc = "assign" /\ UNCHANGED <<currentSpecReport, gen, reports, body, currentNode>>
        /\ Moved("start")
    BY <1>0, <1>1, <1>10, MainEffects DEF AssignCleanups
  <2>2. Position'
    BY <1>0, <1>1, <2>1 DEF Position, Moved, spec
  <2> QED
    BY <1>1, <1>6, <1>7, <2>1, <2>2 DEF spec
<1>11. CASE SetNode
  <2>1. /\ main.pc = "start" /\ UNCHANGED <<currentSpecReport, gen, reports, body>>
        /\ Moved("enter") /\ currentNode' = main.node
    BY <1>0, <1>1, <1>11, MainEffects DEF SetNode, Locked
  <2>2. Position'
    BY <1>0, <1>1, <2>1 DEF Position, Moved, spec
  <2> QED
    BY <1>1, <1>6, <1>7, <2>1, <2>2 DEF spec
<1>12. CASE NodeEvent
  <2>1. /\ UNCHANGED <<gen, reports, body, currentNode>>
        /\ (main.pc = "enter" /\ Moved("context")) \/ (main.pc = "leave" /\ Moved("clear"))
    BY <1>0, <1>1, <1>12, MainEffects DEF NodeEvent, Locked
  <2>2. Reported({main.node}, {}, {})
    BY <1>0, <1>12, ReportEffects
  <2>3. spec' = spec
    BY <2>2 DEF Reported, spec
  <2>4. Position'
    BY <1>0, <1>1, <2>1, <2>3 DEF Position, Moved
  <2>5. ~IsCleanup(main.node) => main.node = It(spec)
    BY <1>0, <1>1, <2>1, SpecsTyped DEF Position
  <2>6. About(currentSpecReport, spec)'
    <3>1. PICK i \in Nat: i = spec
      BY <1>3
    <3>2. About(currentSpecReport, i)
      BY <1>0, <1>1, <2>1, <3>1 DEF Filed
    <3>3. About(currentSpecReport, i)'
      BY <1>0, <2>1, <2>2, <2>5, <3>1, <3>2, AboutMore
    <3> QED
      BY <2>3, <3>1, <3>3
  <2> QED
    BY <1>1, <1>6, <2>1, <2>3, <2>4, <2>6
<1>13. CASE SetContext
  <2>1. /\ main.pc = "context" /\ UNCHANGED <<currentSpecReport, gen, reports, currentNode>>
        /\ Moved(IF IsCleanup(main.node) THEN "leave" ELSE "select")
    BY <1>0, <1>1, <1>13, MainEffects DEF SetContext, Locked
  <2>2. spec' = spec /\ spec \in Specs
    BY <1>0, <1>1, <2>1 DEF Position, spec
  <2>3. CASE IsCleanup(main.node)
    <3>1. UNCHANGED body
      BY <1>13, <2>3 DEF SetContext
    <3>2. Position'
      BY <1>0, <1>1, <2>1, <2>2, <2>3 DEF Position, Moved
    <3> QED
      BY <1>1, <1>6, <1>7, <2>1, <2>2, <2>3, <3>1, <3>2
  <2>4. CASE ~IsCleanup(main.node)
    <3>1. main.node = It(spec)
      BY <1>0, <1>1, <2>1, <2>4, SpecsTyped DEF Position
    <3>2. PICK v: v = [body[spec] EXCEPT !.state = "running"]
      OBVIOUS
    <3>3. /\ v.leaked = body[spec].leaked /\ v.call = body[spec].call
          /\ v.calls = body[spec].calls /\ v.state = "running"
      BY <1>3, <2>2, <3>2 DEF BodyType
    <3>4. BodySet(spec, v)
      BY <1>0, <1>13, <3>1, <3>2, BodyEffects
    <3>5. \A m \in Specs: body[m].leaked => body'[m].leaked
      BY <3>3, <3>4 DEF BodySet
    <3>6. Position'
      BY <1>0, <1>1, <2>1, <2>2, <2>4, <3>1 DEF Position, Moved
    <3>7. Counted'
      BY <1>0, <3>3, <3>4 DEF Counted, BodySet
    <3>8. Running'
      BY <1>0, <2>1, <2>2, <2>4, <3>1, <3>3, <3>4 DEF Running, BodySet, Moved
    <3>9. About(currentSpecReport, spec)'
      <4>1. PICK r \in ReportType: r = currentSpecReport
        BY <1>3
      <4>2. About(r, spec)
        BY <1>0, <1>1, <2>1, <4>1 DEF Filed
      <4>3. PICK i \in Nat: i = spec
        BY <1>3
      <4>4. About(r, i)'
        BY <3>5, <4>2, <4>3, AboutKept
      <4> QED
        BY <2>1, <2>2, <4>1, <4>3, <4>4 DEF About
    <3> QED
      BY <1>1, <1>5, <2>1, <2>4, <3>5, <3>6, <3>7, <3>8, <3>9 DEF Moved
  <2> QED
    BY <2>3, <2>4
<1>14. CASE BodyReturned
  <2>1. /\ main.pc = "select" /\ UNCHANGED <<currentSpecReport, gen, reports, body, currentNode>>
        /\ Moved("leave") /\ body[main.node[1]].state = "returned"
    BY <1>0, <1>1, <1>14, MainEffects DEF BodyReturned
  <2>2. main.node = It(spec) /\ spec \in Specs /\ main.node[1] = spec
    BY <1>0, <1>1, <2>1, SpecsTyped DEF Position
  <2>3. \A m \in Specs: body[m].state = "running" => body[m].leaked
    BY <1>0, <2>1, <2>2, SpecsTyped DEF Running
  <2>4. Position'
    BY <1>0, <1>1, <2>1, <2>2 DEF Position, Moved, spec
  <2> QED
    BY <1>1, <1>6, <1>7, <2>1, <2>3, <2>4 DEF spec
<1>15. CASE Leak
  <2>1. /\ main.pc = "select" /\ UNCHANGED <<currentSpecReport, gen, reports, currentNode>>
        /\ Moved("leave")
    BY <1>0, <1>1, <1>15, MainEffects DEF Leak
  <2>2. main.node = It(spec) /\ spec \in Specs /\ spec' = spec
    BY <1>0, <1>1, <2>1 DEF Position, spec
  <2>3. PICK v: v = LeftBehind(body[spec])
    OBVIOUS
  <2>4. /\ body[spec].leaked \/ body[spec].state = "running" => v.leaked
        /\ v.call = body[spec].call
        /\ v.calls = body[spec].calls /\ v.state = body[spec].state
    BY <1>3, <2>2, <2>3 DEF BodyType, LeftBehind
  <2>5. BodySet(spec, v)
    BY <1>0, <1>15, <2>3, BodyEffects
  <2>6. \A m \in Specs: body[m].leaked => body'[m].leaked
    BY <2>4, <2>5 DEF BodySet
  <2>7. Position'
    BY <1>0, <1>1, <2>1, <2>2 DEF Position, Moved
  <2>8. Counted'
    BY <1>0, <2>4, <2>5 DEF Counted, BodySet
  <2>9. Running'
    <3>1. body'[spec].state = "running" => body'[spec].leaked
      BY <2>4, <2>5 DEF BodySet
    <3>2. ASSUME NEW m \in Specs, m # spec, body'[m].state = "running"
          PROVE  body'[m].leaked
      <4>1. body'[m] = body[m]
        BY <2>5, <3>2 DEF BodySet
      <4>2. body[m].leaked \/ (main.pc = "select" /\ main.node = It(m))
        BY <1>0, <2>1, <3>2, <4>1 DEF Running
      <4> QED
        BY <2>2, <3>2, <4>1, <4>2, SpecsTyped
    <3> QED
      BY <3>1, <3>2 DEF Running
  <2>10. About(currentSpecReport, spec)'
    <3>1. PICK r \in ReportType: r = currentSpecReport
      BY <1>3
    <3>2. About(r, spec)
      BY <1>0, <1>1, <2>1, <3>1 DEF Filed
    <3>3. PICK i \in Nat: i = spec
      BY <1>3
    <3>4. About(r, i)'
      BY <2>6, <3>2, <3>3, AboutKept
    <3> QED
      BY <2>1, <2>2, <3>1, <3>3, <3>4 DEF About
  <2> QED
    BY <1>1, <1>5, <2>1, <2>6, <2>7, <2>8, <2>9, <2>10 DEF Moved
<1>16. CASE ClearNode
  <2>1. /\ main.pc = "clear" /\ UNCHANGED <<currentSpecReport, gen, reports, body>>
        /\ Moved("next") /\ currentNode' = None
    BY <1>0, <1>1, <1>16, MainEffects DEF ClearNode, Locked
  <2>2. Position'
    BY <1>0, <1>1, <2>1 DEF Position, Moved, spec
  <2> QED
    BY <1>1, <1>6, <1>7, <2>1, <2>2 DEF spec
<1>17. CASE NextNode
  <2>1. UNCHANGED <<currentSpecReport, gen, reports, body, currentNode>> /\ main.pc = "next"
    BY <1>17 DEF NextNode
  <2>2. CASE Moved("process")
    <3>1. Position'
      BY <1>0, <1>1, <2>1, <2>2 DEF Position, Moved, spec
    <3> QED
      BY <1>1, <1>6, <1>7, <2>1, <2>2, <3>1 DEF spec
  <2>3. CASE main'.pc = "remove" /\ main'.node \in CleanupIds
    <3>1. Position'
      BY <1>0, <1>1, <2>1, <2>3 DEF Position, spec
    <3>2. Running' /\ Counted'
      BY <1>0, <2>1 DEF Running, Counted
    <3> QED
      BY <1>1, <1>5, <1>7, <2>1, <2>3, <3>1, <3>2
  <2> QED
    BY <1>0, <1>17, <2>2, <2>3, MainEffects DEF Begun
<1>18. CASE ProcessCurrentSpecReport
  <2>1. /\ main.pc = "process" /\ UNCHANGED <<currentSpecReport, gen, body, currentNode>>
        /\ Moved("reset") /\ reports' = Append(reports, currentSpecReport)
    BY <1>0, <1>1, <1>18, MainEffects DEF ProcessCurrentSpecReport
  <2>2. /\ DOMAIN reports' = 1..(Len(reports) + 1) /\ Len(reports') = Len(reports) + 1
        /\ \A i \in 1..Len(reports): reports'[i] = reports[i]
        /\ reports'[Len(reports) + 1] = currentSpecReport
    BY <1>3, <2>1, Appended
  <2>3. spec = Len(reports) + 1 /\ spec \in Specs /\ currentNode = None
    BY <1>0, <1>1, <2>1 DEF Position
  <2>4. Position'
    BY <1>0, <1>1, <2>1, <2>2, <2>3 DEF Position, Moved, spec
  <2>5. Running' /\ Counted'
    BY <1>0, <2>1 DEF Running, Counted, Moved
  <2>6. Taken' /\ SnapshotConsistent' /\ Exited'
    BY <1>0, <1>4, <2>1 DEF Taken, SnapshotConsistent, Exited, Moved
  <2>7. Filed'
    <3>1. About(currentSpecReport, spec)'
      BY <1>1, <1>7, <2>1
    <3>2. ASSUME NEW i \in DOMAIN reports'
          PROVE  reports'[i].spec = i /\ About(reports[i], i)'
      <4>1. CASE i \in 1..Len(reports)
        <5>1. reports[i].spec = i /\ About(reports[i], i)
          BY <1>0, <1>3, <4>1 DEF Filed
        <5> QED
          BY <2>1, <2>2, <4>1, <5>1 DEF About
      <4>2. CASE i = spec
        BY <2>1, <2>2, <2>3, <3>1, <4>2 DEF About, spec
      <4> QED
        BY <1>3, <2>2, <2>3, <4>1, <4>2
    <3> QED
      BY <3>1, <3>2 DEF Filed
  <2> QED
    BY <1>2, <2>4, <2>5, <2>6, <2>7 DEF Own
<1>19. CASE ResetReport
  <2>1. /\ main.pc = "reset" /\ UNCHANGED <<reports, body, currentNode>>
        /\ main'.node = It(spec + 1) /\ main'.pc = IF spec + 1 \in Specs THEN "spec" ELSE "end"
    BY <1>0, <1>19, MainEffects DEF ResetReport
  <2>2. spec = Len(reports) /\ currentNode = None
    BY <1>0, <1>1, <1>3, <2>1 DEF Position
  <2>3. Position'
    BY <1>1, <2>1, <2>2 DEF Position
  <2>4. Running' /\ Counted'
    BY <1>0, <2>1 DEF Running, Counted
  <2>5. UNCHANGED gen /\ main'.pc \notin InSpec
    BY <1>1, <1>19, <2>1 DEF ResetReport
  <2> QED
    BY <1>5, <2>1, <2>3, <2>4, <2>5
<1>20. CASE SkipNode
  <2>1. /\ main.pc = "start" /\ UNCHANGED <<currentSpecReport, gen, reports, body, currentNode>>
        /\ Moved("next")
    BY <1>0, <1>1, <1>20, MainEffects DEF SkipNode
  <2>2. Position'
    BY <1>0, <1>1, <2>1 DEF Position, Moved, spec
  <2> QED
    BY <1>1, <1>6, <1>7, <2>1, <2>2 DEF spec
<1> QED
  BY <1>8, <1>9, <1>10, <1>11, <1>12, <1>13, <1>14, <1>15, <1>16, <1>17, <1>18, <1>19, <1>20
     DEF SuiteStep

\* Own holds when the suite starts ...
LEMMA OwnInit == Init => Own
<1> SUFFICES ASSUME Init PROVE Own
  OBVIOUS
<1>0. 1 \in Specs /\ 0 \notin Specs /\ Specs \subseteq Nat \ {0} /\ None \in NodeIds
  BY SpecsTyped
<1>1. PICK p \in Programs: body = [n \in Specs |-> NewBody(p[n])]
  BY DEF Init
<1>2. \A n \in Specs: p[n] \in Seq(Calls)
  BY SuiteReportAssumption
<1>3. \A x \in Seq(Calls): NewBody(x) \in BodyType
  <2>1. <<>> \in Seq(Cleanups)
    OBVIOUS
  <2> QED
    BY <1>0, <2>1 DEF NewBody, BodyType
<1>4. body \in [Specs -> BodyType]
  BY <1>1, <1>2, <1>3
<1>5. NoSnapshot \in Snapshots /\ NoSnapshot.node = None
  BY <1>0 DEF NoSnapshot, Snapshots
<1>6. NewGenerator \in GeneratorType /\ NewGenerator.pc = "idle" /\ NewGenerator.snap = NoSnapshot
  <2>1. <<>> \in Seq(Reporters)
    OBVIOUS
  <2> QED
    BY <1>5, <2>1 DEF NewGenerator, GeneratorType
<1>7. gen \in [Generators -> GeneratorType] /\ \A g \in Generators: gen[g] = NewGenerator
  BY <1>6 DEF Init
<1>8. main \in MainType /\ main.pc = "spec" /\ main.node = It(1)
  <2>1. <<>> \in Seq(Cleanups) /\ {} \in SUBSET NodeIds /\ It(1) \in NodeIds
    BY <1>0, SpecsTyped
  <2> QED
    BY <2>1 DEF Init, NewMain, MainType, PCs
<1>9. StructOK
  <2>1. <<>> \in Seq(Reporters) /\ <<>> \in Seq(ReportType)
    OBVIOUS
  <2>2. currentSpecReport \in ReportType
    <3>1. <<>> \in Seq(RunIds) /\ <<>> \in Seq(Specs) /\ <<>> \in Seq(Filings)
      OBVIOUS
    <3> QED
      BY <3>1 DEF Init, Report, ReportType
  <2> QED
    BY <1>0, <2>1, <2>2 DEF Init, StructOK
<1>10. ListsOK
  <2>1. <<>> \in Seq(Cleanups) /\ <<>> \in Seq(CleanupIds)
    OBVIOUS
  <2> QED
    BY <2>1 DEF Init, ListsOK
<1>11. TypeOK
  BY <1>4, <1>7, <1>8, <1>9, <1>10 DEF TypeOK
<1>12. Counted /\ Running
  BY <1>1 DEF Counted, Running, NewBody
<1>13. Position
  <2>1. Len(reports) = 0 /\ currentNode = None
    BY DEF Init
  <2> QED
    BY <1>0, <1>8, <2>1 DEF Position, InSpec, Starting, Ending
<1>14. Taken /\ SnapshotConsistent /\ Exited
  BY <1>5, <1>6, <1>7, <1>8 DEF Taken, SnapshotConsistent, Exited, Generators
<1>15. Filed
  <2>1. reports = <<>> /\ DOMAIN reports = {}
    BY DEF Init
  <2> QED
    BY <1>8, <2>1 DEF Filed, InSpec, Starting, Ending
<1> QED
  BY <1>11, <1>12, <1>13, <1>14, <1>15 DEF Own

\* A step is one of the suite's goroutine, of a generator or of a body, or
\* leaves what they share alone.
LEMMA NextMoves ==
  ASSUME [Next]_vars
  PROVE  \/ SuiteStep \/ Generates \/ \E n \in Specs: BodyMoves(n)
         \/ UNCHANGED <<suiteVars, lock, main, body, gen, ran>>
<1>1. SelectStep => Generates \/ UNCHANGED <<suiteVars, lock, main, body, gen, ran>>
  <2>1. PollProgress => Case("poll")
    BY DEF PollProgress
  <2>2. NodeTimesOut => Case("timeout")
    BY DEF NodeTimesOut
  <2>3. SeeInterrupt => Case("interrupt") \/ Case("unshown")
    BY DEF SeeInterrupt
  <2>4. ReportLeak => Case("leak")
    BY DEF ReportLeak
  <2>5. EndGrace => UNCHANGED <<suiteVars, lock, main, body, gen, ran>>
    BY DEF EndGrace
  <2> QED
    BY <2>1, <2>2, <2>3, <2>4, <2>5 DEF SelectStep, Generates, Cases
<1>2. Interrupt(TRUE) \/ Interrupt(FALSE) => UNCHANGED <<suiteVars, lock, main, body, gen, ran>>
  BY DEF Interrupt
<1>3. UNCHANGED vars => UNCHANGED <<suiteVars, lock, main, body, gen, ran>>
  BY DEF vars
<1> QED
  BY <1>1, <1>2, <1>3 DEF Next, Done, Generates, BodyMoves

\* ... and after every step.
LEMMA OwnNext == Own /\ [Next]_vars => Own'
<1> SUFFICES ASSUME Own, [Next]_vars PROVE Own'
  OBVIOUS
<1>1. CASE SuiteStep
  BY <1>1, OwnSuiteStep
<1>2. CASE Generates
  BY <1>2, OwnGenerates
<1>3. CASE \E n \in Specs: BodyMoves(n)
  BY <1>3, OwnBodyMoves
<1>4. CASE UNCHANGED <<suiteVars, lock, main, body, gen, ran>>
  <2>1. TypeOK'
    BY <1>4 DEF Own, suiteVars, current, TypeOK, StructOK, ListsOK
  <2>2. Counted' /\ Position' /\ Running' /\ Exited'
    BY <1>4 DEF Own, suiteVars, current, Counted, Position, Running, Exited, spec
  <2>3. Taken' /\ SnapshotConsistent'
    BY <1>4 DEF Own, suiteVars, current, Taken, SnapshotConsistent, spec
  <2>4. Filed'
    BY <1>4 DEF Own, suiteVars, current, Filed, About, spec
  <2> QED
    BY <2>1, <2>2, <2>3, <2>4 DEF Own
<1> QED
  BY <1>1, <1>2, <1>3, <1>4, NextMoves DEF BodyMoves

\* The invariant holds of every state.
LEMMA OwnAlways == Spec => []Own
<1> QED
  BY OwnInit, OwnNext, PTL DEF Spec

\* generateProgressReport and NewProgressReport never show the node of one spec
\* under the name of another, for any number of specs and at any moment a
\* progress signal arrives.
THEOREM ReportsShowOneSpec == Spec => []SnapshotConsistent
<1>1. Own => SnapshotConsistent
  BY DEF Own
<1> QED
  BY <1>1, OwnAlways, PTL

\* processCurrentSpecReport files one report for each spec, and what handleSpecEvent,
\* AddReportEntry, By and emitProgressReport put into it is about that spec, but
\* for leaked bodies and progress signals.
THEOREM ReportsAreOwn == Spec => []FiledUnderOwnSpec
<1>1. Own => FiledUnderOwnSpec
  BY DEF Own, Filed, About, FiledUnderOwnSpec
<1> QED
  BY <1>1, OwnAlways, PTL

-----------------------------------------------------------------------------
(* DeferCleanup                                                            *)

\* A body that has made a cleanup node since it was leaked stays known as one.
LEMMA LateKept ==
  ASSUME NEW b \in BodyType
  PROVE  /\ b.calls < Len(b.program) /\ b.late => Called(b).late
         /\ b.late => CallOver(b).late
         /\ b.late \/ b.leaked => Pushed(b).late
         /\ TypeOK /\ b.late => Owned(b).late
         /\ TypeOK /\ b.late => Appending(b).late
<1>1. b.calls < Len(b.program) => Called(b).late = b.late
  BY BodyFields, Zenon
<1>2. CallOver(b).late = b.late
  BY BodyFields, Zenon
<1>3. Pushed(b).late = (b.late \/ b.leaked)
  BY BodyFields, Zenon
<1>4. TypeOK => Owned(b).late = b.late
  BY BodyFields, Zenon
<1>5. TypeOK => Appending(b).late = b.late
  BY BodyFields, Zenon
<1> QED
  BY <1>1, <1>2, <1>3, <1>4, <1>5, Zenon

\* How far a body is with its calls before and after one of its steps.
LEMMA BodyProgress ==
  ASSUME TypeOK, Position, NEW n \in Specs, BodyMoves(n)
  PROVE  /\ body[n].late => body'[n].late
         /\ ~PushCleanupNode(n) => UNCHANGED cleanupNodes
         /\ PushCleanupNode(n) => /\ body[n].leaked => body'[n].late
                                  /\ body'[n].calls = body[n].calls /\ body'[n].call = "none"
         /\ body[n].calls <= body'[n].calls
         /\ body'[n].call = "DeferCleanup" =>
              (body[n].call = "DeferCleanup" /\ body'[n].calls = body[n].calls)
              \/ body'[n].calls > body[n].calls
         /\ body[n].call = "DeferCleanup" /\ ~PushCleanupNode(n) =>
              body'[n].call = "DeferCleanup" /\ body'[n].calls = body[n].calls
         /\ body'[n].calls > body[n].calls =>
              /\ body'[n].calls = body[n].calls + 1 /\ body'[n].stage = 0
              /\ body'[n].call = body[n].program[body'[n].calls]
         /\ body'[n].call = "DeferCleanup" /\ body'[n].stage > 0 =>
              \/ body'[n].stage = 1 /\ body'[n].owner = currentNode
              \/ /\ body[n].stage > 0 /\ body[n].call = "DeferCleanup"
                 /\ body'[n].owner = body[n].owner /\ body'[n].read = cleanupNodes
              \/ UNCHANGED body
<1> USE DEF suiteVars, current
<1>0. body \in [Specs -> BodyType] /\ body[n] \in BodyType /\ body[n].calls \in Nat
  BY DEF TypeOK, BodyType
<1>1. ~PushCleanupNode(n) => UNCHANGED cleanupNodes
  BY DEF BodyMoves, Begin, BodyStep, Return, AddReportEntry, HandleByEvent, By,
         AttachProgressReporter, ReadOwner, ReadForAppend
<1>2. CASE Begin(n)
  <2>1. /\ body[n].calls < Len(body[n].program) /\ body[n].call = "none" /\ body[n].stage = 0
    BY <1>2 DEF Begin, At
  <2>2. BodySet(n, Called(body[n]))
    BY <1>2, BodyEffects
  <2>3. /\ body'[n].calls = body[n].calls + 1 /\ body'[n].stage = 0
        /\ body'[n].call = body[n].program[body[n].calls + 1]
        /\ (body[n].late => body'[n].late)
    <3>1. body'[n] = Called(body[n])
      BY <2>2 DEF BodySet
    <3>2. /\ body'[n].calls = body[n].calls + 1 /\ body'[n].stage = 0
          /\ body'[n].call = body[n].program[body[n].calls + 1]
      <4>1. PICK b \in BodyType: b = body[n]
        BY <1>0
      <4>2. /\ Called(b).calls = b.calls + 1 /\ Called(b).stage = b.stage
            /\ Called(b).call = b.program[b.calls + 1]
        BY <2>1, <4>1, BodyFields
      <4> QED
        BY <2>1, <3>1, <4>1, <4>2
    <3>3. body[n].late => body'[n].late
      BY <1>0, <2>1, <3>1, LateKept, Zenon
    <3> QED
      BY <3>2, <3>3, Zenon
  <2>4. ~PushCleanupNode(n)
    BY <2>1 DEF PushCleanupNode, At
  <2> QED
    BY <1>0, <1>1, <2>1, <2>3, <2>4
<1>3. CASE EndCall(n) /\ body[n].call # "DeferCleanup"
  <2>1. BodySet(n, CallOver(body[n]))
    BY <1>3, BodyEffects
  <2>2. /\ body'[n].calls = body[n].calls /\ body'[n].call = "none"
        /\ (body[n].late => body'[n].late)
    <3>1. body'[n] = CallOver(body[n])
      BY <2>1 DEF BodySet
    <3>2. body'[n].calls = body[n].calls /\ body'[n].call = "none"
      BY <1>0, <3>1, BodyFields
    <3>3. body[n].late => body'[n].late
      BY <1>0, <3>1, LateKept, Zenon
    <3> QED
      BY <3>2, <3>3, Zenon
  <2>3. ~PushCleanupNode(n)
    BY <1>3 DEF PushCleanupNode, At
  <2> QED
    BY <1>0, <1>1, <1>3, <2>2, <2>3
<1>4. CASE HandleByEvent(n) \/ Return(n)
  <2>1. body[n].call # "DeferCleanup" /\ ~PushCleanupNode(n)
    BY <1>4 DEF HandleByEvent, Return, PushCleanupNode, At
  <2>2. PICK v: /\ BodySet(n, v)
                /\ v = [body[n] EXCEPT !.stage = 1] \/ v = [body[n] EXCEPT !.state = "returned"]
    BY <1>4, BodyEffects
  <2>3. v.calls = body[n].calls /\ v.call = body[n].call /\ v.late = body[n].late
    BY <1>0, <2>2 DEF BodyType
  <2> QED
    BY <1>0, <1>1, <2>1, <2>2, <2>3 DEF BodySet
<1>5. CASE ReadOwner(n)
  <2>1. ~PushCleanupNode(n) /\ body[n].call = "DeferCleanup"
    BY <1>5 DEF ReadOwner, PushCleanupNode, At
  <2>2. CASE UNCHANGED body
    BY <1>0, <1>1, <2>1, <2>2
  <2>3. CASE BodySet(n, Owned(body[n]))
    <3>1. /\ body'[n].calls = body[n].calls /\ body'[n].call = body[n].call
          /\ body'[n].stage = 1 /\ (body[n].late => body'[n].late)
          /\ body'[n].owner = currentNode
      <4>1. body'[n] = Owned(body[n])
        BY <2>3 DEF BodySet
      <4>2. /\ body'[n].calls = body[n].calls /\ body'[n].call = body[n].call
            /\ body'[n].stage = 1 /\ body'[n].owner = currentNode
        BY <1>0, <4>1, BodyFields
      <4>3. body[n].late => body'[n].late
        BY <1>0, <4>1, LateKept, Zenon
      <4> QED
        BY <4>2, <4>3, Zenon
    <3> QED
      BY <1>0, <1>1, <2>1, <3>1
  <2> QED
    BY <1>5, <2>2, <2>3, BodyEffects
<1>6. CASE ReadForAppend(n)
  <2>1. ~PushCleanupNode(n) /\ body[n].call = "DeferCleanup" /\ body[n].stage = 1
    BY <1>6 DEF ReadForAppend, PushCleanupNode, At
  <2>2. BodySet(n, Appending(body[n]))
    BY <1>6, BodyEffects
  <2>3. /\ body'[n].calls = body[n].calls /\ body'[n].call = body[n].call
        /\ (body[n].late => body'[n].late) /\ body'[n].owner = body[n].owner
        /\ body'[n].read = cleanupNodes
    <3>1. body'[n] = Appending(body[n])
      BY <2>2 DEF BodySet
    <3>2. /\ body'[n].calls = body[n].calls /\ body'[n].call = body[n].call
          /\ body'[n].owner = body[n].owner /\ body'[n].read = cleanupNodes
      BY <1>0, <3>1, BodyFields
    <3>3. body[n].late => body'[n].late
      BY <1>0, <3>1, LateKept, Zenon
    <3> QED
      BY <3>2, <3>3, Zenon
  <2> QED
    BY <1>0, <1>1, <2>1, <2>3
<1>7. CASE PushCleanupNode(n)
  <2>1. BodySet(n, Pushed(body[n]))
    BY <1>7, BodyEffects
  <2>2. /\ body'[n].calls = body[n].calls /\ body'[n].call = "none"
        /\ (body[n].late \/ body[n].leaked => body'[n].late)
    <3>1. body'[n] = Pushed(body[n])
      BY <2>1 DEF BodySet
    <3>2. body'[n].calls = body[n].calls /\ body'[n].call = "none"
      BY <1>0, <3>1, BodyFields
    <3>3. body[n].late \/ body[n].leaked => body'[n].late
      BY <1>0, <3>1, LateKept, Zenon
    <3> QED
      BY <3>2, <3>3, Zenon
  <2> QED
    BY <1>0, <1>7, <2>2
<1> QED
  BY <1>2, <1>3, <1>4, <1>5, <1>6, <1>7
     DEF BodyMoves, BodyStep, AddReportEntry, By, AttachProgressReporter, At

\* The specs of the reports so far.
LEMMA ReportedSpecs ==
  ASSUME TypeOK, Position, main.pc \in InSpec \union {"spec"}
  PROVE  /\ DOMAIN reports = 1..Len(reports) /\ Len(reports) \in Nat
         /\ DOMAIN reports \subseteq Specs
         /\ main.pc \in InSpec => spec \in Specs /\ spec \in Nat
         /\ main.pc \in InSpec \ {"reset"} => spec \notin DOMAIN reports
<1>1. PICK N \in Nat: Specs = 1..N
  BY SuiteReportAssumption, FS_CardinalityType
<1>2. DOMAIN reports = 1..Len(reports) /\ Len(reports) \in Nat
  BY DEF TypeOK, StructOK
<1>3. Len(reports) <= N
  BY <1>1, <1>2 DEF Position
<1>4. main.pc \in InSpec => spec \in Specs /\ spec \in Nat
  BY SpecsTyped DEF Position
<1>5. main.pc \in InSpec \ {"reset"} => spec = Len(reports) + 1
  BY DEF Position
<1> QED
  BY <1>1, <1>2, <1>3, <1>4, <1>5

\* The fields of the nodes of a list.
LEMMA CleanupFields ==
  ASSUME NEW s \in Seq(Cleanups)
  PROVE  /\ DOMAIN s = 1..Len(s) /\ Len(s) \in Nat
         /\ \A i \in DOMAIN s: /\ s[i] \in Cleanups /\ s[i].id \in CleanupIds
                               /\ s[i].id[2] \in Nat /\ s[i].id[1] \in Specs
<1>1. DOMAIN s = 1..Len(s) /\ Len(s) \in Nat /\ \A i \in DOMAIN s: s[i] \in Cleanups
  OBVIOUS
<1>2. \A c \in Cleanups: c.id \in CleanupIds
  BY DEF Cleanups
<1>3. \A x \in CleanupIds: x[2] \in Nat /\ x[1] \in Specs
  BY SpecsTyped
<1> QED
  BY <1>1, <1>2, <1>3

\* The empty list, and a list while calls are begun and ended.
LEMMA ListedKept ==
  /\ Listed(<<>>) /\ Listed(<<>>)' /\ Ids(<<>>) = {}
  /\ TypeOK /\ TypeOK' /\ spec \in Specs /\ spec' = spec
     /\ body[spec].calls <= body'[spec].calls
     /\ (body'[spec].call = "DeferCleanup" =>
           (body[spec].call = "DeferCleanup" /\ body'[spec].calls = body[spec].calls)
           \/ body'[spec].calls > body[spec].calls)
     => \A s \in Seq(Cleanups): Listed(s) => Listed(s)'
<1>1. Listed(<<>>) /\ Listed(<<>>)' /\ Ids(<<>>) = {}
  BY DEF Listed, Rising, Ids
<1>2. ASSUME TypeOK, TypeOK', spec \in Specs, spec' = spec,
             body[spec].calls <= body'[spec].calls,
             body'[spec].call = "DeferCleanup" =>
               (body[spec].call = "DeferCleanup" /\ body'[spec].calls = body[spec].calls)
               \/ body'[spec].calls > body[spec].calls,
             NEW s \in Seq(Cleanups), Listed(s)
      PROVE  Listed(s)'
  <2>1. body[spec] \in BodyType /\ body'[spec] \in BodyType
    BY <1>2 DEF TypeOK
  <2>2. body[spec].calls \in Nat /\ body'[spec].calls \in Nat
    BY <2>1 DEF BodyType
  <2>3. \A i \in DOMAIN s: s[i].id[2] \in Nat
    BY CleanupFields
  <2>4. PICK m \in Specs: m = spec
    BY <1>2
  <2>5. ASSUME NEW i \in DOMAIN s
        PROVE  /\ s[i].by = m /\ s[i].owner = It(m) /\ s[i].id[1] = m
               /\ s[i].id[2] <= body'[m].calls
               /\ body'[m].call = "DeferCleanup" => s[i].id[2] < body'[m].calls
    BY <1>2, <2>2, <2>3, <2>4 DEF Listed
  <2>6. Rising(s)
    BY <1>2 DEF Listed
  <2> QED
    BY <1>2, <2>4, <2>5, <2>6 DEF Listed, Rising
<1> QED
  BY <1>1, <1>2

\* A body that pushes a cleanup node, and is not leaked, appends one of its own.
LEMMA PushKeepsList ==
  ASSUME Own, TypeOK', Cleaning, ~LeakedPush, NEW n \in Specs, PushCleanupNode(n), ~body[n].leaked
  PROVE  /\ main.pc = "select" /\ n = spec /\ UNCHANGED <<main, ran, reports>> /\ spec' = spec
         /\ Listed(cleanupNodes)'
         /\ Ids(cleanupNodes)' = Ids(cleanupNodes) \union {<<spec, body[spec].calls>>}
<1>0. TypeOK /\ Counted /\ Position /\ Running
  BY DEF Own
<1>1. /\ main.pc \notin {"end", "exited"} /\ body[n].state = "running"
      /\ body[n].call = "DeferCleanup" /\ body[n].stage = 2
  BY DEF PushCleanupNode, At, Ended
<1>2. main.pc = "select" /\ main.node = It(n)
  BY <1>0, <1>1 DEF Running
<1>3. n = spec
  BY <1>0, <1>2, SpecsTyped DEF Position, InSpec
<1>4. UNCHANGED <<main, ran, reports>> /\ spec' = spec
  BY DEF PushCleanupNode, spec
<1>5. /\ body[n].owner = It(n) /\ body[n].read = cleanupNodes /\ Listed(cleanupNodes)
  BY <1>1, <1>2, <1>3 DEF Cleaning, Deferring
<1>6. PICK c \in Cleanups: c = [id |-> <<n, body[n].calls>>, by |-> n, owner |-> body[n].owner]
  BY <1>0, Pushes
<1>7. cleanupNodes \in Seq(Cleanups) /\ cleanupNodes' = Append(cleanupNodes, c)
  BY <1>0, <1>5, <1>6, Pushes DEF TypeOK, ListsOK
<1>8. c.id = <<n, body[n].calls>> /\ c.by = n /\ c.owner = It(n)
  BY <1>5, <1>6
<1>9. PICK s \in Seq(Cleanups): s = cleanupNodes
  BY <1>7
<1>10. /\ Append(s, c) \in Seq(Cleanups) /\ DOMAIN Append(s, c) = 1..(Len(s) + 1)
       /\ DOMAIN s = 1..Len(s) /\ Len(s) \in Nat
       /\ \A i \in 1..Len(s): Append(s, c)[i] = s[i]
       /\ Append(s, c)[Len(s) + 1] = c
  BY Appended
<1>11. PICK t \in Seq(Cleanups): t = Append(s, c)
  BY <1>10
<1>12. body'[n].calls = body[n].calls /\ body'[n].call = "none" /\ body[n].calls \in Nat
  <2>1. BodySet(n, Pushed(body[n])) /\ body[n] \in BodyType
    BY <1>0, BodyEffects DEF TypeOK
  <2>2. body[n].calls \in Nat
    BY <2>1 DEF BodyType
  <2> QED
    BY <2>1, <2>2, BodyFields DEF BodySet
<1>13. \A i \in 1..Len(s): /\ s[i].by = n /\ s[i].owner = It(n) /\ s[i].id[1] = n
                           /\ s[i].id[2] < body[n].calls /\ s[i].id[2] \in Nat
  BY <1>1, <1>3, <1>5, <1>9, <1>10, CleanupFields DEF Listed
<1>14. \A i \in DOMAIN t: /\ t[i].by = n /\ t[i].owner = It(n) /\ t[i].id[1] = n
                          /\ t[i].id[2] <= body[n].calls
  BY <1>8, <1>10, <1>11, <1>12, <1>13
<1>15. Rising(t)
  <2>1. ASSUME NEW i \in DOMAIN t, NEW j \in DOMAIN t, i < j
        PROVE  t[i].id[2] < t[j].id[2]
    <3>1. i \in 1..Len(s) /\ (j \in 1..Len(s) \/ j = Len(s) + 1)
      BY <1>10, <1>11, <2>1
    <3>2. CASE j \in 1..Len(s)
      <4>1. s[i].id[2] < s[j].id[2]
        BY <1>5, <1>9, <1>10, <2>1, <3>1, <3>2 DEF Listed, Rising
      <4> QED
        BY <1>10, <1>11, <3>1, <3>2, <4>1
    <3>3. CASE j = Len(s) + 1
      BY <1>8, <1>10, <1>11, <1>13, <3>1, <3>3
    <3> QED
      BY <3>1, <3>2, <3>3
  <2> QED
    BY <2>1 DEF Rising
<1>16. cleanupNodes' = t
  BY <1>7, <1>9, <1>11
<1>17. Listed(cleanupNodes)'
  <2>1. Listed(t)'
    BY <1>3, <1>4, <1>12, <1>14, <1>15 DEF Listed, Rising
  <2> QED
    BY <1>16, <2>1 DEF Listed, Rising
<1>18. Ids(cleanupNodes)' = Ids(cleanupNodes) \union {<<spec, body[spec].calls>>}
  <2>1. Ids(t) = Ids(s) \union {c.id}
    <3>1. 1..Len(s) \subseteq 1..(Len(s) + 1) /\ Len(s) + 1 \in 1..(Len(s) + 1)
      BY <1>10
    <3>2. \A i \in 1..(Len(s) + 1): i \in 1..Len(s) \/ i = Len(s) + 1
      BY <1>10
    <3> QED
      BY <1>10, <1>11, <3>1, <3>2 DEF Ids
  <2>2. Ids(cleanupNodes)' = Ids(t)
    BY <1>16 DEF Ids
  <2> QED
    BY <1>3, <1>8, <1>9, <2>1, <2>2
<1> QED
  BY <1>2, <1>3, <1>4, <1>17, <1>18

\* The steps of the generators leave the cleanup nodes alone.
LEMMA CleaningGenerates ==
  ASSUME Own, Later, Cleaning, Generates, Uninterrupted' => Uninterrupted
  PROVE  Later' /\ Cleaning'
<1>1. UNCHANGED <<reports, currentNode, cleanupNodes, main, body, ran>> /\ spec' = spec
  BY GeneratorFrame DEF Own
<1>2. Later'
  BY <1>1 DEF Later, Unstarted
<1>3. ~LeakedPush' => ~LeakedPush
  BY <1>1 DEF LeakedPush
<1>4. Deferring => Deferring'
  BY <1>1 DEF Deferring
<1>5. Listed(cleanupNodes) => Listed(cleanupNodes)'
  BY <1>1 DEF Listed, Rising
<1>6. Fresh => Fresh'
  BY <1>1 DEF Fresh
<1>7. Unwinding => Unwinding'
  <2>1. Listed(main.read) => Listed(main.read)'
    BY <1>1 DEF Listed, Rising
  <2> QED
    BY <1>1, <2>1 DEF Unwinding, Passed, Falling, Ids
<1>8. Ran => Ran'
  BY <1>1 DEF Ran
<1>9. Complete => Complete'
  BY <1>1 DEF Complete, Pending, Ids
<1> QED
  BY <1>2, <1>3, <1>4, <1>5, <1>6, <1>7, <1>8, <1>9 DEF Cleaning

\* The steps of the bodies.
LEMMA CleaningBodyMoves ==
  ASSUME Own, Own', Later, Cleaning, NEW n \in Specs, BodyMoves(n),
         Uninterrupted' => Uninterrupted
  PROVE  Later' /\ Cleaning'
<1>0. TypeOK /\ TypeOK' /\ Counted /\ Position /\ Running
  BY DEF Own
<1>1. /\ UNCHANGED <<reports, currentNode, gen, ran>> /\ spec' = spec
      /\ main.pc \notin {"end", "exited"} /\ body[n].state = "running"
      /\ \/ UNCHANGED main
         \/ Moved("exited") /\ UNCHANGED body /\ (currentNode = None \/ IsCleanup(currentNode))
      /\ \A m \in Specs: m # n => body'[m] = body[m]
      /\ body'[n].program = body[n].program /\ body'[n].leaked = body[n].leaked
  BY <1>0, BodyFrame
<1>2. main.pc \in InSpec \union {"spec"}
  BY <1>0, <1>1 DEF TypeOK, MainType, PCs
<1>3. InSpec = {"remove", "assign", "start", "enter", "context", "select", "leave", "clear",
                "next", "process", "reset"}
  BY DEF InSpec, Starting, Ending
<1>4. \A m \in Specs: Unstarted(m) => Unstarted(m)'
  BY <1>1 DEF Unstarted
<1>5. Later'
  <2>1. CASE UNCHANGED main
    BY <1>1, <1>4, <2>1 DEF Later
  <2>2. CASE main'.pc = "exited"
    BY <1>3, <2>2 DEF Later
  <2> QED
    BY <1>1, <2>1, <2>2 DEF Moved
<1>6. ~LeakedPush' => ~LeakedPush
  <2>1. \A m \in Specs: body[m].late => body'[m].late
    <3>1. body[n].late => body'[n].late
      BY <1>0, BodyProgress
    <3> QED
      BY <1>1, <3>1
  <2> QED
    BY <2>1 DEF LeakedPush
<1> SUFFICES ASSUME ~LeakedPush'
             PROVE  /\ Deferring' /\ Listed(cleanupNodes)' /\ Fresh' /\ Unwinding' /\ Ran'
                    /\ Complete'
  BY <1>5 DEF Cleaning
<1>7. Deferring /\ Listed(cleanupNodes) /\ Fresh /\ Unwinding /\ Ran /\ Complete
  BY <1>6 DEF Cleaning
<1>8. /\ DOMAIN reports = 1..Len(reports) /\ Len(reports) \in Nat
      /\ DOMAIN reports \subseteq Specs
      /\ main.pc \in InSpec => spec \in Specs /\ spec \in Nat
      /\ main.pc \in InSpec \ {"reset"} => spec \notin DOMAIN reports
  BY <1>0, <1>2, ReportedSpecs
<1>9. body[n].leaked \/ (main.pc = "select" /\ n = spec)
  <2>1. body[n].leaked \/ (main.pc = "select" /\ main.node = It(n))
    BY <1>0, <1>1 DEF Running
  <2>2. main.pc = "select" => main.node = It(spec)
    BY <1>0 DEF Position
  <2> QED
    BY <1>3, <1>8, <2>1, <2>2, SpecsTyped
\* The specs that are over
<1>10. Uninterrupted' => \A m \in DOMAIN reports: ~body'[m].leaked =>
         \A k \in 1..body'[m].calls: body'[m].program[k] = "DeferCleanup" => <<m, k>> \in Range(ran)
  <2>1. \A m \in DOMAIN reports: ~body'[m].leaked => body'[m] = body[m] /\ ~body[m].leaked
    BY <1>1, <1>3, <1>8, <1>9
  <2> QED
    BY <1>7, <2>1 DEF Complete
\* The process ends
<1>11. CASE Moved("exited") /\ UNCHANGED body
  <2>1. main'.pc = "exited" /\ main.pc # "exited"
    BY <1>1, <1>11 DEF Moved
  <2>2. ~PushCleanupNode(n)
    BY <2>1 DEF PushCleanupNode
  <2>3. UNCHANGED cleanupNodes
    BY <1>0, <2>2, BodyProgress
  <2>4. Listed(cleanupNodes)'
    BY <1>1, <1>7, <1>11, <2>3 DEF Listed, Rising
  <2>5. Deferring' /\ Fresh' /\ Unwinding'
    BY <2>1 DEF Deferring, Fresh, Unwinding, Starting, Ending
  <2>6. Ran'
    BY <1>1, <1>3, <1>7, <2>1 DEF Ran
  <2>7. Complete'
    BY <1>1, <1>3, <1>10, <2>1 DEF Complete
  <2> QED
    BY <2>4, <2>5, <2>6, <2>7
\* The body adds a cleanup node
<1>12. CASE PushCleanupNode(n)
  <2>1. ~body[n].leaked
    <3>1. body[n].leaked => body'[n].late
      BY <1>0, <1>12, BodyProgress
    <3> QED
      BY <3>1 DEF LeakedPush
  <2>2. /\ main.pc = "select" /\ n = spec /\ UNCHANGED <<main, ran, reports>> /\ spec' = spec
        /\ Listed(cleanupNodes)'
        /\ Ids(cleanupNodes)' = Ids(cleanupNodes) \union {<<spec, body[spec].calls>>}
    BY <1>0, <1>6, <1>12, <2>1, PushKeepsList
  <2>3. body'[n].call = "none" /\ body'[n].calls = body[n].calls
    BY <1>0, <1>12, BodyProgress
  <2>4. Deferring'
    BY <2>2, <2>3 DEF Deferring
  <2>5. Fresh' /\ Unwinding'
    BY <1>7, <2>2 DEF Fresh, Unwinding, Starting, Ending
  <2>6. Ran'
    BY <1>7, <2>2 DEF Ran
  <2>7. ASSUME Uninterrupted',
               NEW k \in 1..body[spec].calls, body[spec].program[k] = "DeferCleanup"
        PROVE  Pending(spec, k)'
    <3>1. Pending(spec, k)
      BY <1>3, <1>7, <2>1, <2>2, <2>7 DEF Complete
    <3>2. main.pc \notin Starting
      BY <2>2 DEF Starting
    <3>3. <<spec, k>> \in Range(ran) \/ <<spec, k>> \in Ids(cleanupNodes)'
      BY <2>2, <3>1, <3>2 DEF Pending
    <3> QED
      BY <2>2, <3>3 DEF Pending
  <2>8. Complete'
    BY <1>1, <1>10, <2>2, <2>3, <2>7 DEF Complete
  <2> QED
    BY <2>2, <2>4, <2>5, <2>6, <2>8
\* Any other step
<1>13. CASE UNCHANGED main /\ ~PushCleanupNode(n)
  <2>0. UNCHANGED cleanupNodes
    BY <1>0, <1>13, BodyProgress
  <2>1. \A s \in Seq(Cleanups): main.pc \in InSpec /\ Listed(s) => Listed(s)'
    <3>1. CASE main.pc \in InSpec
      <4>1. body[spec] \in BodyType
        BY <1>0, <1>8, <3>1 DEF TypeOK
      <4>2. body[spec].calls \in Nat
        BY <4>1 DEF BodyType
      <4>3. body[n].calls <= body'[n].calls
        BY <1>0, BodyProgress
      <4>4. body'[n].call = "DeferCleanup" =>
              (body[n].call = "DeferCleanup" /\ body'[n].calls = body[n].calls)
              \/ body'[n].calls > body[n].calls
        BY <1>0, BodyProgress
      <4>5. /\ body[spec].calls <= body'[spec].calls
            /\ (body'[spec].call = "DeferCleanup" =>
                  (body[spec].call = "DeferCleanup" /\ body'[spec].calls = body[spec].calls)
                  \/ body'[spec].calls > body[spec].calls)
        BY <1>1, <1>8, <3>1, <4>2, <4>3, <4>4
      <4> QED
        BY <1>0, <1>1, <1>8, <3>1, <4>5, ListedKept
    <3> QED
      BY <3>1
  <2>2. Listed(cleanupNodes)'
    <3>1. CASE main.pc \in InSpec
      <4>1. PICK s \in Seq(Cleanups): s = cleanupNodes
        BY <1>0 DEF TypeOK, ListsOK
      <4>2. Listed(s)'
        BY <1>7, <2>1, <3>1, <4>1
      <4> QED
        BY <2>0, <4>1, <4>2 DEF Listed, Rising
    <3>2. CASE main.pc = "spec"
      <4>1. cleanupNodes' = <<>>
        BY <1>7, <2>0, <3>2 DEF Fresh
      <4>2. Listed(<<>>)'
        BY ListedKept
      <4> QED
        BY <4>1, <4>2 DEF Listed, Rising
    <3> QED
      BY <1>2, <3>1, <3>2
  <2>3. Deferring'
    <3> SUFFICES ASSUME main.pc = "select", body'[spec].call = "DeferCleanup",
                        ~body'[spec].leaked
                 PROVE  /\ body'[spec].stage > 0 => body'[spec].owner = It(spec)
                        /\ body'[spec].stage = 2 => body'[spec].read = cleanupNodes
      BY <1>1, <1>13, <2>0 DEF Deferring
    <3>0. spec \in Specs /\ ~body[spec].leaked /\ currentNode = It(spec)
      BY <1>0, <1>1, <1>3, <1>8 DEF Position
    <3>1. CASE body'[spec] = body[spec]
      BY <1>7, <3>0, <3>1 DEF Deferring
    <3>2. CASE n = spec
      <4>1. body'[n].stage > 0 =>
              \/ body'[n].stage = 1 /\ body'[n].owner = currentNode
              \/ /\ body[n].stage > 0 /\ body[n].call = "DeferCleanup"
                 /\ body'[n].owner = body[n].owner /\ body'[n].read = cleanupNodes
              \/ UNCHANGED body
        BY <1>0, <3>2, BodyProgress
      <4>2. body[n].stage > 0 /\ body[n].call = "DeferCleanup" => body[n].owner = It(spec)
        BY <1>7, <3>0, <3>2 DEF Deferring
      <4> QED
        BY <3>0, <3>1, <3>2, <4>1, <4>2
    <3> QED
      BY <1>1, <3>0, <3>1, <3>2
  <2>4. Fresh'
    BY <1>1, <1>7, <1>13, <2>0 DEF Fresh
  <2>5. Unwinding'
    <3>1. main.pc = "assign" /\ Listed(main.read) => Listed(main.read)'
      <4>1. PICK s \in Seq(Cleanups): s = main.read
        BY <1>0 DEF TypeOK, MainType
      <4>2. main.pc = "assign" /\ Listed(s) => Listed(s)'
        BY <1>3, <2>1
      <4> QED
        BY <1>13, <4>1, <4>2 DEF Listed, Rising
    <3>2. UNCHANGED <<main, cleanupNodes, ran>> /\ spec' = spec /\ Unwinding
      BY <1>1, <1>7, <1>13, <2>0
    <3>3. main.node \in CleanupIds /\ main.pc = "assign" => Listed(main.read)'
      BY <3>1, <3>2 DEF Unwinding, Starting
    <3>4. Ids(cleanupNodes)' = Ids(cleanupNodes) /\ Ids(main.todo)' = Ids(main.todo)
          /\ Ids(main.read)' = Ids(main.read) /\ Falling(main.todo)' = Falling(main.todo)
      BY <3>2 DEF Ids, Falling
    <3> QED
      BY <3>2, <3>3, <3>4 DEF Unwinding, Passed
  <2>6. Ran'
    BY <1>1, <1>7, <1>13 DEF Ran
  <2>7. ASSUME Uninterrupted', main.pc \in InSpec, ~body'[spec].leaked,
               NEW k \in 1..body'[spec].calls, body'[spec].program[k] = "DeferCleanup"
        PROVE  Pending(spec, k)'
    <3>0. spec \in Specs /\ ~body[spec].leaked
      BY <1>1, <1>8, <2>7
    <3>1. body[spec] \in BodyType /\ body'[spec] \in BodyType
      BY <1>0, <3>0 DEF TypeOK
    <3>2. body[spec].calls \in Nat /\ body'[spec].calls \in Nat
      BY <3>1 DEF BodyType
    <3>3. ASSUME NEW j \in 1..body[spec].calls, body[spec].program[j] = "DeferCleanup"
          PROVE  Pending(spec, j)
      BY <1>7, <2>7, <3>0, <3>3 DEF Complete
    <3>4. CASE n # spec
      <4>1. body'[spec] = body[spec]
        BY <1>1, <3>0, <3>4
      <4>2. Pending(spec, k)
        BY <2>7, <3>3, <4>1
      <4> QED
        BY <1>1, <1>13, <2>0, <4>1, <4>2 DEF Pending, Ids
    <3>5. CASE n = spec /\ k <= body[spec].calls
      <4>1. Pending(spec, k)
        BY <1>1, <2>7, <3>2, <3>3, <3>5
      <4>2. body[spec].call = "DeferCleanup" =>
              body'[spec].call = "DeferCleanup" /\ body'[spec].calls = body[spec].calls
        BY <1>0, <1>13, <3>5, BodyProgress
      <4> QED
        BY <1>1, <1>13, <2>0, <4>1, <4>2 DEF Pending, Ids
    <3>6. CASE n = spec /\ ~(k <= body[spec].calls)
      <4>1. body'[n].calls > body[n].calls
        BY <2>7, <3>2, <3>6
      <4>2. body'[n].calls = body[n].calls + 1 /\ body'[n].call = body[n].program[body'[n].calls]
        BY <1>0, <4>1, BodyProgress
      <4>3. k = body'[n].calls
        BY <2>7, <3>2, <3>6, <4>2
      <4>4. body'[spec].call = "DeferCleanup"
        BY <1>1, <2>7, <3>6, <4>2, <4>3
      <4> QED
        BY <1>1, <3>6, <4>3, <4>4 DEF Pending
    <3> QED
      BY <3>4, <3>5, <3>6
  <2>8. Complete'
    BY <1>1, <1>10, <1>13, <2>7 DEF Complete
  <2> QED
    BY <2>2, <2>3, <2>4, <2>5, <2>6, <2>8
<1> QED
  BY <1>1, <1>11, <1>12, <1>13

\* WithoutNode takes exactly the node that is run off the list.
LEMMA NodeTakenOff ==
  ASSUME TypeOK, Listed(cleanupNodes), main.node \in Ids(cleanupNodes), NEW read, Without(read)
  PROVE  Listed(read) /\ Ids(read) = Ids(cleanupNodes) \ {main.node}
<1>0. PICK s \in Seq(Cleanups): s = cleanupNodes
  BY DEF TypeOK, ListsOK
<1>1. /\ DOMAIN s = 1..Len(s) /\ Len(s) \in Nat
      /\ \A i \in 1..Len(s): s[i].id \in CleanupIds /\ s[i].id[2] \in Nat
  BY CleanupFields
<1>2. PICK i \in First(Places(s)): i \in 1..Len(s) /\ read = RemoveAt(s, i)
  <2>1. Places(s) # {}
    BY <1>0 DEF Places, Ids
  <2> QED
    BY <1>0, <2>1 DEF Without
<1>3. s[i].id = main.node
  BY <1>2 DEF First, Places
<1>4. PICK t \in Seq(Cleanups):
        t = read /\ Len(t) = Len(s) - 1
        /\ \A j \in 1..(Len(s) - 1): t[j] = IF j < i THEN s[j] ELSE s[j + 1]
  <2>1. /\ RemoveAt(s, i) \in Seq(Cleanups) /\ Len(RemoveAt(s, i)) = Len(s) - 1
        /\ \A j \in 1..(Len(s) - 1): RemoveAt(s, i)[j] = IF j < i THEN s[j] ELSE s[j + 1]
    BY <1>2, Removed
  <2>2. read \in Seq(Cleanups)
    BY <1>2, <2>1
  <2> QED
    BY <1>2, <2>1, <2>2
<1>5. DOMAIN t = 1..(Len(s) - 1)
  BY <1>4
<1>6. Rising(s)
  BY <1>0 DEF Listed
<1>7. ASSUME NEW j \in 1..(Len(s) - 1)
      PROVE  \E m \in 1..Len(s): m # i /\ t[j] = s[m] /\ m = IF j < i THEN j ELSE j + 1
  <2>1. PICK m: m = IF j < i THEN j ELSE j + 1
    OBVIOUS
  <2>2. m \in 1..Len(s) /\ m # i
    BY <1>1, <1>2, <2>1
  <2>3. t[j] = s[m]
    BY <1>4, <2>1
  <2> QED
    BY <2>1, <2>2, <2>3
<1>8. Rising(t)
  <2>1. ASSUME NEW j \in DOMAIN t, NEW k \in DOMAIN t, j < k
        PROVE  t[j].id[2] < t[k].id[2]
    <3>1. PICK m \in 1..Len(s): t[j] = s[m] /\ m = IF j < i THEN j ELSE j + 1
      BY <1>5, <1>7
    <3>2. PICK p \in 1..Len(s): t[k] = s[p] /\ p = IF k < i THEN k ELSE k + 1
      BY <1>5, <1>7
    <3>3. m < p
      BY <1>1, <1>2, <1>5, <2>1, <3>1, <3>2
    <3> QED
      BY <1>1, <1>6, <3>1, <3>2, <3>3 DEF Rising
  <2> QED
    BY <2>1 DEF Rising
<1>9. Listed(t)
  <2>1. ASSUME NEW j \in DOMAIN t
        PROVE  \E m \in DOMAIN s: t[j] = s[m]
    BY <1>1, <1>5, <1>7
  <2> QED
    BY <1>0, <1>8, <2>1 DEF Listed
<1>10. Ids(t) = Ids(s) \ {main.node}
  <2>1. ASSUME NEW j \in DOMAIN t
        PROVE  t[j].id \in Ids(s) /\ t[j].id # main.node
    <3>1. PICK m \in 1..Len(s): m # i /\ t[j] = s[m]
      BY <1>5, <1>7
    <3>2. m < i \/ i < m
      BY <1>1, <1>2, <3>1
    <3>3. s[m].id[2] # s[i].id[2]
      BY <1>1, <1>2, <1>6, <3>2 DEF Rising
    <3> QED
      BY <1>1, <1>3, <3>1, <3>3 DEF Ids
  <2>2. ASSUME NEW m \in DOMAIN s, s[m].id # main.node
        PROVE  s[m].id \in Ids(t)
    <3>1. m # i /\ m \in 1..Len(s)
      BY <1>1, <1>3, <2>2
    <3>2. CASE m < i
      <4>1. m \in 1..(Len(s) - 1) /\ t[m] = s[m]
        BY <1>1, <1>2, <1>4, <3>1, <3>2
      <4> QED
        BY <1>5, <4>1 DEF Ids
    <3>3. CASE m > i
      <4>1. m - 1 \in 1..(Len(s) - 1) /\ ~(m - 1 < i) /\ (m - 1) + 1 = m
        BY <1>1, <1>2, <3>1, <3>3
      <4>2. t[m - 1] = s[m]
        BY <1>4, <4>1
      <4> QED
        BY <1>5, <4>1, <4>2 DEF Ids
    <3> QED
      BY <1>1, <1>2, <3>1, <3>2, <3>3
  <2> QED
    BY <2>1, <2>2 DEF Ids
<1> QED
  BY <1>0, <1>4, <1>9, <1>10

\* attemptSpec goes through the list from its end.
LEMMA ListReversed ==
  ASSUME NEW s \in Seq(Cleanups), Rising(s)
  PROVE  /\ Reverse(s) \in Seq(Cleanups) /\ Falling(Reverse(s)) /\ Ids(Reverse(s)) = Ids(s)
         /\ Len(Reverse(s)) = Len(s)
<1>0. DOMAIN s = 1..Len(s) /\ Len(s) \in Nat
  OBVIOUS
<1>1. PICK r \in Seq(Cleanups): r = Reverse(s)
  BY Reversed
<1>2. Len(r) = Len(s) /\ DOMAIN r = 1..Len(s) /\ \A j \in 1..Len(s): r[j] = s[(Len(s) - j) + 1]
  BY <1>1, Reversed
<1>3. Falling(r)
  <2>1. ASSUME NEW j \in DOMAIN r, NEW k \in DOMAIN r, j < k
        PROVE  r[k].id[2] < r[j].id[2]
    <3>1. /\ (Len(s) - j) + 1 \in 1..Len(s) /\ (Len(s) - k) + 1 \in 1..Len(s)
          /\ (Len(s) - k) + 1 < (Len(s) - j) + 1
      BY <1>0, <1>2, <2>1
    <3> QED
      BY <1>0, <1>2, <2>1, <3>1 DEF Rising
  <2> QED
    BY <2>1 DEF Falling
<1>4. Ids(r) = Ids(s)
  <2>1. \A j \in 1..Len(s): (Len(s) - j) + 1 \in 1..Len(s) /\ (Len(s) - ((Len(s) - j) + 1)) + 1 = j
    BY <1>0
  <2>2. \A j \in 1..Len(s): r[(Len(s) - j) + 1] = s[j]
    BY <1>2, <2>1
  <2> QED
    BY <1>0, <1>2, <2>1, <2>2 DEF Ids
<1> QED
  BY <1>1, <1>2, <1>3, <1>4

\* The first node of a list and the nodes after it.
LEMMA FirstOfList ==
  ASSUME NEW s \in Seq(Cleanups), Falling(s), NEW i \in First(DOMAIN s)
  PROVE  LET rest == SubSeq(s, i + 1, Len(s))
         IN  /\ Falling(rest) /\ s[i].id \in Ids(s) /\ Ids(s) = Ids(rest) \union {s[i].id}
             /\ \A x \in Ids(rest): x[2] < s[i].id[2]
<1> DEFINE rest == SubSeq(s, i + 1, Len(s))
<1>0. DOMAIN s = 1..Len(s) /\ Len(s) \in Nat
  OBVIOUS
<1>1. i = 1 /\ i \in 1..Len(s)
  BY <1>0 DEF First
<1>2. PICK t \in Seq(Cleanups): t = rest /\ Len(t) = Len(s) - 1
                                /\ \A j \in 1..(Len(s) - 1): t[j] = s[1 + j]
  <2>1. rest \in Seq(Cleanups)
    BY <1>1, Removed
  <2>2. Len(rest) = Len(s) - i /\ \A j \in 1..(Len(s) - i): rest[j] = s[i + j]
    BY <1>1, Removed
  <2> HIDE DEF rest
  <2> QED
    BY <1>1, <2>1, <2>2
<1>3. DOMAIN t = 1..(Len(s) - 1)
  <2> HIDE DEF rest
  <2> QED
    BY <1>2
<1>4. \A j \in 1..(Len(s) - 1): 1 + j \in 1..Len(s) /\ 1 < 1 + j
  BY <1>0
<1>5. Falling(t)
  <2>1. ASSUME NEW j \in DOMAIN t, NEW k \in DOMAIN t, j < k
        PROVE  t[k].id[2] < t[j].id[2]
    <3> HIDE DEF rest
    <3>1. 1 + j < 1 + k /\ 1 + j \in DOMAIN s /\ 1 + k \in DOMAIN s
      BY <1>0, <1>3, <1>4, <2>1
    <3>2. s[1 + k].id[2] < s[1 + j].id[2]
      BY <3>1 DEF Falling
    <3> QED
      BY <1>2, <1>3, <3>2
  <2> QED
    BY <2>1 DEF Falling
<1>6. Ids(s) = Ids(t) \union {s[i].id} /\ s[i].id \in Ids(s)
  <2> HIDE DEF rest
  <2>1. \A j \in 1..Len(s): j = 1 \/ (j - 1 \in 1..(Len(s) - 1) /\ 1 + (j - 1) = j)
    BY <1>0
  <2>2. \A j \in 1..Len(s): j = 1 \/ (j - 1 \in DOMAIN t /\ t[j - 1] = s[j])
    BY <1>2, <1>3, <2>1
  <2>3. \A j \in DOMAIN s: s[j].id \in Ids(t) \union {s[1].id}
    BY <1>0, <2>2 DEF Ids
  <2>4. \A j \in DOMAIN t: t[j].id \in Ids(s)
    BY <1>0, <1>2, <1>3, <1>4 DEF Ids
  <2>5. s[1].id \in Ids(s)
    BY <1>0, <1>1 DEF Ids
  <2>6. Ids(s) \subseteq Ids(t) \union {s[1].id}
    BY <2>3 DEF Ids
  <2>7. Ids(t) \subseteq Ids(s)
    BY <2>4 DEF Ids
  <2> QED
    BY <1>1, <2>5, <2>6, <2>7
<1>7. \A x \in Ids(t): x[2] < s[i].id[2]
  BY <1>0, <1>1, <1>2, <1>3, <1>4 DEF Ids, Falling
<1> QED
  BY <1>2, <1>5, <1>6, <1>7

SameLists == UNCHANGED <<body, reports, cleanupNodes, ran>> /\ spec' = spec

\* What the steps of the suite's goroutine do to the cleanup nodes.
LEMMA SuiteEffects ==
  ASSUME Own
  PROVE  /\ NewSpec =>
              /\ main.pc = "spec" /\ (Moved("remove") \/ Moved("process"))
              /\ UNCHANGED <<body, reports, cleanupNodes, ran>>
              /\ spec' = Len(reports) + 1 /\ main.node = It(spec') /\ spec' \in Specs
         /\ ReadCleanups =>
              /\ main.pc = "remove" /\ SameLists
              /\ main' \in MainType /\ main'.pc = "assign" /\ main'.node = main.node
              /\ main'.todo = main.todo /\ main'.over = main.over /\ Without(main'.read)
         /\ AssignCleanups =>
              /\ main.pc = "assign" /\ Moved("start") /\ UNCHANGED <<body, reports, ran>>
              /\ spec' = spec
              /\ cleanupNodes' = IF IsCleanup(main.node) THEN main.read ELSE cleanupNodes
         /\ SetNode => main.pc = "start" /\ Moved("enter") /\ SameLists
         /\ SkipNode => main.pc = "start" /\ Moved("next") /\ SameLists
         /\ NodeEvent => /\ SameLists
                         /\ \/ main.pc = "enter" /\ Moved("context")
                            \/ main.pc = "leave" /\ Moved("clear")
         /\ SetContext =>
              /\ main.pc = "context" /\ UNCHANGED <<reports, cleanupNodes>> /\ spec' = spec
              /\ IsCleanup(main.node) =>
                   Moved("leave") /\ ran' = Append(ran, main.node) /\ UNCHANGED body
              /\ ~IsCleanup(main.node) =>
                   /\ Moved("select") /\ UNCHANGED ran
                   /\ BodySet(spec, [body[spec] EXCEPT !.state = "running"])
         /\ BodyReturned => main.pc = "select" /\ Moved("leave") /\ SameLists
         /\ Leak => /\ main.pc = "select" /\ Moved("leave") /\ spec' = spec
                    /\ UNCHANGED <<reports, cleanupNodes, ran>>
                    /\ BodySet(spec, LeftBehind(body[spec]))
         /\ ClearNode => main.pc = "clear" /\ Moved("next") /\ SameLists
         /\ NextNode => /\ main.pc = "next" /\ SameLists
                        /\ \/ Left(Nodes) = {} /\ Moved("process")
                           \/ \E i \in First(Left(Nodes)): Begun(Nodes, i)
         /\ ProcessCurrentSpecReport =>
              /\ main.pc = "process" /\ Moved("reset") /\ UNCHANGED <<body, cleanupNodes, ran>>
              /\ spec' = spec /\ reports' = Append(reports, currentSpecReport)
         /\ ResetReport =>
              /\ main.pc = "reset" /\ UNCHANGED <<body, reports, cleanupNodes, ran>> /\ spec' = 0
              /\ main'.pc = IF spec + 1 \in Specs THEN "spec" ELSE "end"
              /\ main'.todo = <<>> /\ main'.over = {}
<1> USE DEF suiteVars, current
<1>0. TypeOK /\ Position
  BY DEF Own
<1>1. /\ InSpec = {"remove", "assign", "start", "enter", "context", "select", "leave", "clear",
                   "next", "process", "reset"}
      /\ PCs = InSpec \union {"spec", "end", "exited"}
  BY DEF PCs, InSpec, Starting, Ending
<1>2. ASSUME NewSpec
      PROVE  /\ main.pc = "spec" /\ (Moved("remove") \/ Moved("process"))
             /\ UNCHANGED <<body, reports, cleanupNodes, ran>>
             /\ spec' = Len(reports) + 1 /\ main.node = It(spec') /\ spec' \in Specs
  <2>0. Locked("spec", "remove") \/ Locked("spec", "process")
    BY <1>2 DEF NewSpec
  <2>1. /\ main.pc = "spec" /\ (Moved("remove") \/ Moved("process"))
        /\ UNCHANGED <<body, reports, cleanupNodes, ran>>
    BY <1>0, <1>1, <1>2, <2>0, MainEffects DEF NewSpec, Locked
  <2>2. main.node = It(Len(reports) + 1) /\ Len(reports) + 1 \in Specs
    BY <1>0, <2>1 DEF Position
  <2>3. main.node[1] = Len(reports) + 1 /\ Len(reports) + 1 \in Nat
    BY <2>2, SpecsTyped
  <2>4. spec' = Len(reports) + 1
    BY <1>0, <1>2, <2>3, ReportEffects DEF NewSpec, spec
  <2> QED
    BY <2>1, <2>2, <2>4
<1>3. ReadCleanups =>
        /\ main.pc = "remove" /\ SameLists
        /\ main' \in MainType /\ main'.pc = "assign" /\ main'.node = main.node
        /\ main'.todo = main.todo /\ main'.over = main.over /\ Without(main'.read)
  BY <1>0, MainEffects DEF ReadCleanups, SameLists, spec
<1>4. AssignCleanups =>
        /\ main.pc = "assign" /\ Moved("start") /\ UNCHANGED <<body, reports, ran>>
        /\ spec' = spec
        /\ cleanupNodes' = IF IsCleanup(main.node) THEN main.read ELSE cleanupNodes
  BY <1>0, <1>1, MainEffects DEF AssignCleanups, spec
<1>5. SetNode => main.pc = "start" /\ Moved("enter") /\ SameLists
  BY <1>0, <1>1, MainEffects DEF SetNode, Locked, SameLists, spec
<1>6. NodeEvent => /\ SameLists
                   /\ \/ main.pc = "enter" /\ Moved("context")
                      \/ main.pc = "leave" /\ Moved("clear")
  <2>1. NodeEvent => spec' = spec
    BY <1>0, ReportEffects DEF Reported, spec
  <2> QED
    BY <1>0, <1>1, <2>1, MainEffects DEF NodeEvent, Locked, SameLists
<1>7. ASSUME SetContext
      PROVE  /\ main.pc = "context" /\ UNCHANGED <<reports, cleanupNodes>> /\ spec' = spec
             /\ IsCleanup(main.node) =>
                  Moved("leave") /\ ran' = Append(ran, main.node) /\ UNCHANGED body
             /\ ~IsCleanup(main.node) =>
                  /\ Moved("select") /\ UNCHANGED ran
                  /\ BodySet(spec, [body[spec] EXCEPT !.state = "running"])
  <2>1. /\ main.pc = "context" /\ UNCHANGED <<reports, cleanupNodes>> /\ spec' = spec
        /\ Moved(IF IsCleanup(main.node) THEN "leave" ELSE "select")
    BY <1>0, <1>1, <1>7, MainEffects DEF SetContext, Locked, spec
  <2>2. IsCleanup(main.node) => ran' = Append(ran, main.node) /\ UNCHANGED body
    BY <1>7 DEF SetContext
  <2>3. ~IsCleanup(main.node) => main.node = It(spec) /\ UNCHANGED ran
    BY <1>0, <1>1, <1>7, <2>1, SpecsTyped DEF SetContext, Position
  <2>4. ~IsCleanup(main.node) => BodySet(spec, [body[spec] EXCEPT !.state = "running"])
    BY <1>0, <1>7, <2>3, BodyEffects
  <2> QED
    BY <2>1, <2>2, <2>3, <2>4
<1>8. BodyReturned => main.pc = "select" /\ Moved("leave") /\ SameLists
  BY <1>0, <1>1, MainEffects DEF BodyReturned, SameLists, spec
<1>9. Leak => /\ main.pc = "select" /\ Moved("leave") /\ spec' = spec
              /\ UNCHANGED <<reports, cleanupNodes, ran>>
              /\ BodySet(spec, LeftBehind(body[spec]))
  <2>1. Leak => BodySet(spec, LeftBehind(body[spec]))
    BY <1>0, BodyEffects
  <2>2. Leak => /\ main.pc = "select" /\ Moved("leave") /\ spec' = spec
                /\ UNCHANGED <<reports, cleanupNodes, ran>>
    BY <1>0, <1>1, MainEffects DEF Leak, spec
  <2> QED
    BY <2>1, <2>2
<1>10. ClearNode => main.pc = "clear" /\ Moved("next") /\ SameLists
  BY <1>0, <1>1, MainEffects DEF ClearNode, Locked, SameLists, spec
<1>11. NextNode => /\ main.pc = "next" /\ SameLists
                   /\ \/ Left(Nodes) = {} /\ Moved("process")
                      \/ \E i \in First(Left(Nodes)): Begun(Nodes, i)
  <2>1. NextNode => SameLists
    BY DEF NextNode, SameLists, spec
  <2> QED
    BY <1>0, <2>1, MainEffects
<1>12. ProcessCurrentSpecReport =>
         /\ main.pc = "process" /\ Moved("reset") /\ UNCHANGED <<body, cleanupNodes, ran>>
         /\ spec' = spec /\ reports' = Append(reports, currentSpecReport)
  BY <1>0, <1>1, MainEffects DEF ProcessCurrentSpecReport, spec
<1>13. ResetReport =>
         /\ main.pc = "reset" /\ UNCHANGED <<body, reports, cleanupNodes, ran>> /\ spec' = 0
         /\ main'.pc = IF spec + 1 \in Specs THEN "spec" ELSE "end"
         /\ main'.todo = <<>> /\ main'.over = {}
  <2>1. ResetReport => spec' = 0
    BY <1>0, ReportEffects DEF ResetReport, spec
  <2> QED
    BY <1>0, <2>1, MainEffects DEF ResetReport
<1>14. SkipNode => main.pc = "start" /\ Moved("next") /\ SameLists
  BY <1>0, <1>1, MainEffects DEF SkipNode, SameLists, spec
<1> QED
  BY <1>2, <1>3, <1>4, <1>5, <1>6, <1>7, <1>8, <1>9, <1>10, <1>11, <1>12, <1>13, <1>14

\* The bodies of later specs are not started by the suite's goroutine.
LEMMA LaterSuiteStep ==
  ASSUME Own, Later, SuiteStep
  PROVE  Later'
<1>0. TypeOK /\ Position /\ body \in [Specs -> BodyType]
  BY DEF Own, TypeOK
<1>1. /\ InSpec = {"remove", "assign", "start", "enter", "context", "select", "leave", "clear",
                   "next", "process", "reset"}
      /\ Starting = {"remove", "assign", "start", "enter", "context"}
  BY DEF InSpec, Starting, Ending
<1>2. Specs \subseteq Nat /\ spec \in Nat /\ \A n \in Specs: It(n) \notin CleanupIds
  BY <1>0, SpecsTyped DEF TypeOK, StructOK, ReportType, spec
<1>3. ASSUME spec' = spec, main.pc \in InSpec, main'.pc \in InSpec, UNCHANGED body,
             main'.pc \in Starting /\ main'.node = It(spec) =>
               main.pc \in Starting /\ main.node = It(spec)
      PROVE  Later'
  BY <1>1, <1>3 DEF Later, Unstarted
<1>4. CASE NewSpec
  <2>1. /\ main.pc = "spec" /\ UNCHANGED body /\ spec' = Len(reports) + 1
        /\ main'.pc \in {"remove", "process"}
    BY <1>4, SuiteEffects DEF Moved
  <2>2. Len(reports) \in Nat
    BY <1>0 DEF TypeOK, StructOK
  <2>3. \A n \in Specs: n > Len(reports) => Unstarted(n)
    BY <2>1 DEF Later
  <2> QED
    BY <1>1, <1>2, <2>1, <2>2, <2>3 DEF Later, Unstarted
<1>5. CASE ReadCleanups \/ AssignCleanups \/ SkipNode \/ SetNode \/ NodeEvent
  <2>1. /\ spec' = spec /\ main.pc \in InSpec /\ main'.pc \in InSpec /\ UNCHANGED body
        /\ main'.node = main.node /\ (main'.pc \in Starting => main.pc \in Starting)
    BY <1>1, <1>5, SuiteEffects DEF Moved, SameLists
  <2> QED
    BY <1>3, <2>1
<1>6. CASE SetContext
  <2>1. /\ spec' = spec /\ main.pc \in InSpec /\ main'.pc \in InSpec /\ main'.pc \notin Starting
        /\ \/ UNCHANGED body
           \/ BodySet(spec, [body[spec] EXCEPT !.state = "running"])
    BY <1>1, <1>6, SuiteEffects DEF Moved
  <2>2. \A n \in Specs: n > spec => Unstarted(n)'
    <3>1. \A n \in Specs: n > spec => Unstarted(n) /\ n # spec
      BY <1>2, <2>1 DEF Later
    <3> QED
      BY <2>1, <3>1 DEF BodySet, Unstarted
  <2> QED
    BY <1>1, <1>2, <2>1, <2>2 DEF Later
<1>7. CASE BodyReturned \/ ClearNode
  <2>1. /\ spec' = spec /\ main.pc \in InSpec /\ main'.pc \in InSpec /\ main'.pc \notin Starting
        /\ UNCHANGED body
    BY <1>1, <1>7, SuiteEffects DEF Moved, SameLists
  <2> QED
    BY <1>3, <2>1
<1>8. CASE Leak
  <2>1. /\ spec' = spec /\ main.pc \in InSpec /\ main'.pc \in InSpec /\ main'.pc \notin Starting
        /\ BodySet(spec, LeftBehind(body[spec]))
    BY <1>1, <1>8, SuiteEffects DEF Moved
  <2>2. \A n \in Specs: n > spec => Unstarted(n)'
    <3>1. \A n \in Specs: n > spec => Unstarted(n) /\ n # spec
      BY <1>2, <2>1 DEF Later
    <3> QED
      BY <2>1, <3>1 DEF BodySet, Unstarted
  <2> QED
    BY <1>1, <1>2, <2>1, <2>2 DEF Later
<1>9. CASE NextNode
  <2>1. /\ spec' = spec /\ main.pc \in InSpec /\ UNCHANGED body
        /\ main'.pc = "process" \/ (main'.pc = "remove" /\ main'.node \in CleanupIds)
    BY <1>1, <1>9, SuiteEffects DEF Moved, Begun, SameLists
  <2>2. spec \in Specs
    BY <1>0, <2>1 DEF Position
  <2> QED
    BY <1>1, <1>2, <1>3, <2>1, <2>2
<1>10. CASE ProcessCurrentSpecReport
  <2>1. /\ spec' = spec /\ main.pc \in InSpec /\ main'.pc \in InSpec /\ main'.pc \notin Starting
        /\ UNCHANGED body
    BY <1>1, <1>10, SuiteEffects DEF Moved
  <2> QED
    BY <1>3, <2>1
<1>11. CASE ResetReport
  <2>1. /\ main.pc = "reset" /\ UNCHANGED <<body, reports>> /\ main'.pc \in {"spec", "end"}
    BY <1>11, SuiteEffects
  <2>2. spec = Len(reports)
    BY <1>0, <1>1, <1>2, <2>1 DEF Position, TypeOK, StructOK
  <2> QED
    BY <1>1, <2>1, <2>2 DEF Later, Unstarted
<1> QED
  BY <1>4, <1>5, <1>6, <1>7, <1>8, <1>9, <1>10, <1>11 DEF SuiteStep

\* attemptSpec takes the cleanup nodes from the last to the first, and goes on to
\* the report only when there is none left.
LEMMA NextCleanup ==
  ASSUME Own, Listed(cleanupNodes), Fresh, Unwinding, main.pc = "next"
  PROVE  /\ Left(Nodes) = {} => cleanupNodes = <<>>
         /\ \A i \in First(Left(Nodes)): Begun(Nodes, i) =>
              /\ main'.node[1] = spec /\ Passed(main'.over, main'.node)
              /\ Falling(main'.todo)
              /\ \A x \in Ids(main'.todo): x[1] = spec /\ x[2] < main'.node[2]
              /\ Ids(cleanupNodes) = Ids(main'.todo) \union {main'.node}
              /\ \A j \in DOMAIN ran: ran[j][1] = spec => main'.node[2] < ran[j][2]
<1>0. TypeOK /\ Position
  BY DEF Own
<1>1. /\ main.pc \in InSpec /\ main.pc \in Ending /\ main.pc \notin Starting
      /\ main.pc \notin {"remove", "assign"}
  BY DEF InSpec, Ending, Starting
<1>2. spec \in Specs /\ (main.node = It(spec) \/ main.node \in CleanupIds)
  BY <1>0, <1>1 DEF Position
<1>3. cleanupNodes \in Seq(Cleanups) /\ main.todo \in Seq(Cleanups)
      /\ ran \in Seq(CleanupIds) /\ DOMAIN ran = 1..Len(ran)
  BY <1>0 DEF TypeOK, ListsOK, MainType
<1>4. \A j \in DOMAIN ran: ran[j] \in CleanupIds /\ ran[j][1] \in Specs /\ ran[j][2] \in Nat
  BY <1>3, SpecsTyped
\* A list whose nodes were not run
<1>5. ASSUME NEW s \in Seq(Cleanups), Ids(s) = Ids(cleanupNodes), Falling(s),
             \A x \in Ids(s): x \notin Over /\ Passed(Over, x), Nodes = s,
             \A x \in Ids(s): \A j \in DOMAIN ran: ran[j][1] = spec => x[2] < ran[j][2]
      PROVE  /\ Left(Nodes) = {} => cleanupNodes = <<>>
             /\ \A i \in First(Left(Nodes)): Begun(Nodes, i) =>
                  /\ main'.node[1] = spec /\ Passed(main'.over, main'.node)
                  /\ Falling(main'.todo)
                  /\ \A x \in Ids(main'.todo): x[1] = spec /\ x[2] < main'.node[2]
                  /\ Ids(cleanupNodes) = Ids(main'.todo) \union {main'.node}
                  /\ \A j \in DOMAIN ran: ran[j][1] = spec => main'.node[2] < ran[j][2]
  <2>1. Left(Nodes) = DOMAIN s
    BY <1>5 DEF Left, Ids
  <2>2. Left(Nodes) = {} => cleanupNodes = <<>>
    <3>1. ASSUME DOMAIN s = {} PROVE DOMAIN cleanupNodes = {}
      <4>1. Ids(cleanupNodes) = {}
        BY <1>5, <3>1 DEF Ids
      <4> QED
        BY <4>1 DEF Ids
    <3>2. DOMAIN cleanupNodes = {} => cleanupNodes = <<>>
      BY <1>3
    <3> QED
      BY <2>1, <3>1, <3>2
  <2>3. ASSUME NEW i \in First(DOMAIN s), Begun(s, i)
        PROVE  /\ main'.node[1] = spec /\ Passed(main'.over, main'.node)
               /\ Falling(main'.todo)
               /\ \A x \in Ids(main'.todo): x[1] = spec /\ x[2] < main'.node[2]
               /\ Ids(cleanupNodes) = Ids(main'.todo) \union {main'.node}
               /\ \A j \in DOMAIN ran: ran[j][1] = spec => main'.node[2] < ran[j][2]
    <3>1. PICK rest: rest = SubSeq(s, i + 1, Len(s))
      OBVIOUS
    <3>2. /\ Falling(rest) /\ s[i].id \in Ids(s) /\ Ids(s) = Ids(rest) \union {s[i].id}
          /\ \A x \in Ids(rest): x[2] < s[i].id[2]
      BY <1>5, <3>1, FirstOfList
    <3>3. main'.node = s[i].id /\ main'.todo = rest /\ main'.over = Over
      BY <2>3, <3>1 DEF Begun, Over
    <3>4. \A x \in Ids(s): x[1] = spec
      BY <1>5 DEF Ids, Listed
    <3> QED
      BY <1>5, <3>2, <3>3, <3>4
  <2> QED
    BY <1>5, <2>1, <2>2, <2>3
<1>6. CASE main.node = It(spec)
  <2>1. main.todo = <<>> /\ main.over = {} /\ \A i \in DOMAIN ran: ran[i][1] < spec
    BY <1>1, <1>6 DEF Fresh
  <2>2. Over = {It(spec)}
    BY <1>6, <2>1 DEF Over
  <2>3. Left(main.todo) = {}
    BY <2>1 DEF Left
  <2>4. Rising(cleanupNodes)
    BY DEF Listed
  <2>5. PICK s \in Seq(Cleanups): s = Reverse(cleanupNodes)
    BY <1>3, <2>4, ListReversed
  <2>6. Falling(s) /\ Ids(s) = Ids(cleanupNodes) /\ Nodes = s
    BY <1>3, <2>3, <2>4, <2>5, ListReversed DEF Nodes
  <2>7. \A x \in Ids(s): x \notin Over /\ Passed(Over, x)
    <3>1. \A i \in DOMAIN s: s[i].id \in CleanupIds
      BY CleanupFields
    <3>2. It(spec) \notin CleanupIds
      BY <1>2, SpecsTyped
    <3> QED
      BY <2>2, <3>1, <3>2 DEF Ids, Passed
  <2>8. \A j \in DOMAIN ran: ran[j][1] # spec
    BY <1>2, <1>4, <2>1, SpecsTyped
  <2> QED
    BY <1>5, <2>2, <2>6, <2>7, <2>8
<1>7. CASE main.node \in CleanupIds
  <2>1. /\ main.node[1] = spec /\ Passed(main.over, main.node)
        /\ Falling(main.todo) /\ \A x \in Ids(main.todo): x[1] = spec /\ x[2] < main.node[2]
        /\ \A i \in DOMAIN ran: ran[i][1] = spec =>
             main.node[2] < ran[i][2] \/ main.node[2] = ran[i][2]
    BY <1>1, <1>7 DEF Unwinding
  <2>2. Ids(cleanupNodes) = Ids(main.todo)
    BY <1>1, <1>7 DEF Unwinding
  <2>4. main.node[2] \in Nat /\ \A x \in Ids(main.todo): x[2] \in Nat /\ x \in CleanupIds
    BY <1>3, <1>7, CleanupFields, SpecsTyped DEF Ids
  <2>5. ASSUME NEW x \in Ids(main.todo), NEW j \in DOMAIN ran, ran[j][1] = spec
        PROVE  x[2] < ran[j][2]
    BY <1>4, <2>1, <2>4, <2>5
  <2>6. ASSUME NEW x \in Ids(main.todo)
        PROVE  x \notin Over /\ Passed(Over, x)
    <3>1. x # It(spec) /\ x[2] < main.node[2]
      BY <1>2, <2>1, <2>4, SpecsTyped
    <3>2. ASSUME NEW y \in Over
          PROVE  y = It(spec) \/ (y \in CleanupIds /\ x[2] < y[2])
      <4>1. CASE y = main.node
        BY <1>7, <3>1, <4>1
      <4>2. CASE y \in main.over
        <5>1. y = It(spec) \/ (y \in CleanupIds /\ main.node[2] < y[2])
          BY <2>1, <4>2 DEF Passed
        <5>2. y \in CleanupIds => y[2] \in Nat
          BY SpecsTyped
        <5> QED
          BY <2>4, <3>1, <5>1, <5>2
      <4> QED
        BY <3>2, <4>1, <4>2 DEF Over
    <3> QED
      BY <2>4, <3>1, <3>2 DEF Passed
  <2>7. CASE main.todo # <<>>
    <3>1. Left(main.todo) = DOMAIN main.todo /\ DOMAIN main.todo # {}
      <4>1. DOMAIN main.todo # {}
        <5>1. PICK s \in Seq(Cleanups): s = main.todo
          BY <1>3
        <5>2. DOMAIN s = {} => s = <<>>
          OBVIOUS
        <5> QED
          BY <2>7, <5>1, <5>2
      <4>2. \A i \in DOMAIN main.todo: main.todo[i].id \notin Over
        BY <2>6 DEF Ids
      <4> QED
        BY <4>1, <4>2 DEF Left
    <3>2. Nodes = main.todo
      BY <3>1 DEF Nodes
    <3>3. PICK s \in Seq(Cleanups): s = main.todo
      BY <1>3
    <3> QED
      BY <1>5, <2>1, <2>2, <2>5, <2>6, <3>2, <3>3
  <2>8. CASE main.todo = <<>>
    <3>1. Ids(main.todo) = {}
      BY <2>8, ListedKept
    <3>2. Ids(cleanupNodes) = {}
      BY <2>2, <3>1
    <3>3. DOMAIN cleanupNodes = {}
      BY <3>2 DEF Ids
    <3>4. cleanupNodes = <<>>
      BY <1>3, <3>3
    <3>5. Nodes = Reverse(cleanupNodes)
      BY <2>8 DEF Nodes, Left
    <3>6. PICK s \in Seq(Cleanups): s = Reverse(cleanupNodes) /\ Len(s) = 0
      <4>1. Rising(cleanupNodes) /\ Len(cleanupNodes) = 0
        BY <3>4 DEF Listed
      <4>2. Reverse(cleanupNodes) \in Seq(Cleanups)
        BY <1>3, <4>1, ListReversed
      <4>3. Len(Reverse(cleanupNodes)) = 0
        BY <1>3, <4>1, ListReversed
      <4> QED
        BY <4>2, <4>3
    <3>7. DOMAIN s = {}
      BY <3>6
    <3>8. Left(Nodes) = {}
      BY <3>5, <3>6, <3>7 DEF Left
    <3> QED
      BY <3>4, <3>8 DEF First
  <2> QED
    BY <2>7, <2>8
<1> QED
  BY <1>2, <1>6, <1>7

\* The steps of the suite's goroutine.
LEMMA CleaningSuiteStep ==
  ASSUME Own, Own', Later, Cleaning, SuiteStep, status.level \in Nat,
         Uninterrupted' => Uninterrupted
  PROVE  Cleaning'
<1>0. TypeOK /\ TypeOK' /\ Counted /\ Position /\ Running /\ body \in [Specs -> BodyType]
  BY DEF Own, TypeOK
<1>1. /\ InSpec = {"remove", "assign", "start", "enter", "context", "select", "leave", "clear",
                   "next", "process", "reset"}
      /\ Starting = {"remove", "assign", "start", "enter", "context"}
      /\ Ending = {"leave", "clear", "next"}
  BY DEF InSpec, Starting, Ending
<1>2. /\ spec \in Nat /\ Len(reports) \in Nat /\ DOMAIN reports = 1..Len(reports)
      /\ ran \in Seq(CleanupIds) /\ DOMAIN ran = 1..Len(ran) /\ Len(ran) \in Nat
      /\ cleanupNodes \in Seq(Cleanups) /\ main.node \in NodeIds
  BY <1>0 DEF TypeOK, StructOK, ListsOK, ReportType, MainType, spec
<1>3. \A j \in DOMAIN ran: ran[j] \in CleanupIds /\ ran[j][1] \in Nat /\ ran[j][2] \in Nat
  BY <1>2, SpecsTyped
<1>4. \A m \in Specs: body[m].late => body'[m].late
  <2>1. CASE UNCHANGED body
    BY <2>1
  <2>2. ASSUME NEW v, BodySet(spec, v), v.late = body[spec].late
        PROVE  \A m \in Specs: body[m].late => body'[m].late
    BY <2>2, Zenon DEF BodySet
  <2>3. CASE BodySet(spec, [body[spec] EXCEPT !.state = "running"])
    <3>1. spec \in Specs
      BY <2>3 DEF BodySet
    <3>2. PICK v: v = [body[spec] EXCEPT !.state = "running"]
      OBVIOUS
    <3>3. v.late = body[spec].late
      BY <1>0, <3>1, <3>2 DEF BodyType
    <3> QED
      BY <2>2, <2>3, <3>2, <3>3
  <2>4. CASE BodySet(spec, LeftBehind(body[spec]))
    <3>1. spec \in Specs
      BY <2>4 DEF BodySet
    <3>2. PICK v: v = LeftBehind(body[spec])
      OBVIOUS
    <3>3. v.late = body[spec].late
      BY <1>0, <3>1, <3>2 DEF BodyType, LeftBehind
    <3> QED
      BY <2>2, <2>4, <3>2, <3>3
  <2> QED
    BY <2>1, <2>3, <2>4, SuiteEffects DEF SuiteStep, SameLists
<1> SUFFICES ASSUME ~LeakedPush'
             PROVE  /\ Deferring' /\ Listed(cleanupNodes)' /\ Fresh' /\ Unwinding' /\ Ran'
                    /\ Complete'
  BY DEF Cleaning
<1>5. Deferring /\ Listed(cleanupNodes) /\ Fresh /\ Unwinding /\ Ran /\ Complete
  BY <1>4 DEF Cleaning, LeakedPush
<1>6. main.pc \in InSpec =>
        /\ spec \in Specs /\ (main.node = It(spec) \/ main.node \in CleanupIds)
        /\ It(spec) \notin CleanupIds
  BY <1>0, SpecsTyped DEF Position
\* A step of the suite's goroutine alone, to another place in the run of a node
<1>7. ASSUME SameLists, main.pc \in InSpec, main'.pc \in InSpec \ {"select"}, Fresh', Unwinding',
             \/ ~Uninterrupted
             \/ main.pc \in Starting => main'.pc \in Starting /\ main'.node = main.node
      PROVE  /\ Deferring' /\ Listed(cleanupNodes)' /\ Fresh' /\ Unwinding' /\ Ran' /\ Complete'
  <2>1. Deferring'
    BY <1>7 DEF Deferring
  <2>2. Listed(cleanupNodes)'
    BY <1>5, <1>7 DEF SameLists, Listed, Rising
  <2>3. Ran'
    BY <1>1, <1>5, <1>7 DEF SameLists, Ran
  <2>4. Uninterrupted => \A k: Pending(spec, k) => Pending(spec, k)'
    BY <1>7 DEF SameLists, Pending, Ids
  <2>5. Complete'
    BY <1>5, <1>7, <2>4 DEF SameLists, Complete
  <2> QED
    BY <1>7, <2>1, <2>2, <2>3, <2>5
\* ... with the same node and the same list of nodes to come
<1>8. ASSUME NEW to, Moved(to), SameLists,
             \/ main.pc \in Starting \ {"remove", "assign"} /\ to \in Starting \ {"remove", "assign"}
             \/ main.pc \in Ending /\ to \in Ending
      PROVE  /\ Deferring' /\ Listed(cleanupNodes)' /\ Fresh' /\ Unwinding' /\ Ran' /\ Complete'
  <2>1. Fresh'
    BY <1>1, <1>5, <1>8 DEF Fresh, SameLists, Moved
  <2>2. /\ Ids(cleanupNodes)' = Ids(cleanupNodes) /\ Ids(main.todo)' = Ids(main.todo)
        /\ Falling(main.todo)' = Falling(main.todo)
    BY <1>8 DEF Ids, Falling, SameLists, Moved
  <2>3. Unwinding'
    BY <1>1, <1>5, <1>8, <2>2 DEF Unwinding, Passed, SameLists, Moved
  <2> QED
    BY <1>1, <1>7, <1>8, <2>1, <2>3 DEF Moved
<1>9. CASE NewSpec
  <2>1. /\ main.pc = "spec" /\ main'.pc \in {"remove", "process"} /\ main'.node = main.node
        /\ main'.todo = main.todo /\ main'.over = main.over
        /\ UNCHANGED <<body, reports, cleanupNodes, ran>>
        /\ spec' = Len(reports) + 1 /\ main.node = It(spec') /\ spec' \in Specs
    BY <1>9, SuiteEffects DEF Moved
  <2>2. cleanupNodes = <<>> /\ main.todo = <<>> /\ main.over = {}
        /\ \A i \in DOMAIN ran: ran[i][1] <= Len(reports)
    BY <1>5, <2>1 DEF Fresh, Ran
  <2>3. \A i \in DOMAIN ran: ran[i][1] < spec'
    BY <1>2, <1>3, <2>1, <2>2
  <2>4. Listed(cleanupNodes)'
    <3>1. Listed(<<>>)'
      BY ListedKept
    <3> QED
      BY <2>1, <2>2, <3>1 DEF Listed, Rising
  <2>5. Fresh' /\ Deferring'
    BY <1>1, <2>1, <2>2, <2>3 DEF Fresh, Deferring
  <2>6. Unwinding'
    BY <2>1, SpecsTyped DEF Unwinding
  <2>7. Ran'
    BY <1>1, <1>2, <1>3, <1>5, <2>1, <2>3 DEF Ran
  <2>8. Unstarted(spec')
    BY <1>2, <2>1 DEF Later
  <2>9. Complete'
    BY <1>5, <2>1, <2>8 DEF Complete, Unstarted
  <2> QED
    BY <2>4, <2>5, <2>6, <2>7, <2>9
<1>10. CASE ReadCleanups
  <2>1. /\ main.pc = "remove" /\ SameLists
        /\ main'.pc = "assign" /\ main'.node = main.node
        /\ main'.todo = main.todo /\ main'.over = main.over /\ Without(main'.read)
    BY <1>10, SuiteEffects
  <2>2. Fresh'
    BY <1>1, <1>5, <2>1 DEF Fresh, SameLists
  <2>3. /\ Ids(cleanupNodes)' = Ids(cleanupNodes) /\ Ids(main.todo)' = Ids(main.todo)
        /\ Falling(main.todo)' = Falling(main.todo)
    BY <2>1 DEF Ids, Falling, SameLists
  <2>4. main.node \in CleanupIds => Listed(main.read)' /\ Ids(main.read)' = Ids(main.todo)
    <3> SUFFICES ASSUME main.node \in CleanupIds
                 PROVE  Listed(main.read)' /\ Ids(main.read)' = Ids(main.todo)
      OBVIOUS
    <3>1. /\ Ids(cleanupNodes) = Ids(main.todo) \union {main.node}
          /\ \A x \in Ids(main.todo): x[2] < main.node[2]
      BY <1>1, <1>5, <2>1 DEF Unwinding
    <3>2. main.node \notin Ids(main.todo)
      BY <3>1, SpecsTyped
    <3>3. PICK r: r = main'.read
      OBVIOUS
    <3>4. Listed(r) /\ Ids(r) = Ids(cleanupNodes) \ {main.node}
      BY <1>0, <1>5, <2>1, <3>1, <3>3, NodeTakenOff
    <3>5. Listed(main.read)'
      BY <2>1, <3>3, <3>4 DEF SameLists, Listed, Rising
    <3>6. Ids(main.read)' = Ids(r)
      BY <3>3 DEF Ids
    <3> QED
      BY <3>1, <3>2, <3>4, <3>5, <3>6
  <2>5. Unwinding'
    BY <1>1, <1>5, <2>1, <2>3, <2>4 DEF Unwinding, Passed, SameLists
  <2> QED
    BY <1>1, <1>7, <2>1, <2>2, <2>5
<1>11. CASE AssignCleanups
  <2>1. /\ main.pc = "assign" /\ Moved("start") /\ UNCHANGED <<body, reports, ran>>
        /\ spec' = spec
        /\ cleanupNodes' = IF IsCleanup(main.node) THEN main.read ELSE cleanupNodes
    BY <1>11, SuiteEffects
  <2>2. /\ main'.pc = "start" /\ main'.node = main.node /\ main'.todo = main.todo
        /\ main'.over = main.over /\ main'.read = main.read
    BY <2>1 DEF Moved
  <2>3. CASE main.node = It(spec)
    <3>1. UNCHANGED cleanupNodes
      BY <2>1, <2>3, SpecsTyped
    <3>2. Fresh'
      BY <1>1, <1>5, <2>1, <2>2, <3>1 DEF Fresh
    <3>3. Unwinding'
      BY <1>1, <1>6, <2>1, <2>2, <2>3 DEF Unwinding
    <3> QED
      BY <1>1, <1>7, <2>1, <2>2, <3>1, <3>2, <3>3 DEF SameLists
  <2>4. CASE main.node \in CleanupIds
    <3>1. cleanupNodes' = main.read
      BY <2>1, <2>4, SpecsTyped
    <3>2. /\ Listed(main.read) /\ Ids(main.read) = Ids(main.todo)
          /\ Ids(cleanupNodes) = Ids(main.todo) \union {main.node}
      BY <1>1, <1>5, <2>1, <2>4 DEF Unwinding
    <3>3. Listed(cleanupNodes)'
      BY <2>1, <3>1, <3>2 DEF Listed, Rising
    <3>4. /\ Ids(cleanupNodes)' = Ids(main.todo) /\ Ids(main.todo)' = Ids(main.todo)
          /\ Falling(main.todo)' = Falling(main.todo)
      BY <2>2, <3>1, <3>2 DEF Ids, Falling
    <3>5. Deferring' /\ Fresh'
      BY <1>1, <1>6, <2>1, <2>2, <2>4 DEF Deferring, Fresh
    <3>6. Unwinding'
      BY <1>1, <1>5, <2>1, <2>2, <2>4, <3>4 DEF Unwinding, Passed
    <3>7. Ran'
      BY <1>1, <1>5, <2>1, <2>2 DEF Ran
    <3>8. ASSUME NEW k, Pending(spec, k)
          PROVE  Pending(spec, k)'
      <4>1. <<spec, k>> \in Ids(cleanupNodes) =>
              <<spec, k>> \in Ids(cleanupNodes)' \/ main.node = <<spec, k>>
        BY <3>2, <3>4
      <4> QED
        BY <1>1, <2>1, <2>2, <3>8, <4>1 DEF Pending
    <3>9. Complete'
      BY <1>1, <1>5, <2>1, <3>8 DEF Complete
    <3> QED
      BY <3>3, <3>5, <3>6, <3>7, <3>9
  <2> QED
    BY <1>1, <1>6, <2>1, <2>3, <2>4
<1>12. CASE SetNode
  BY <1>1, <1>8, <1>12, SuiteEffects
<1>13. CASE NodeEvent
  BY <1>1, <1>8, <1>13, SuiteEffects
<1>14. CASE SetContext /\ main.node \in CleanupIds
  <2>1. /\ main.pc = "context" /\ UNCHANGED <<reports, cleanupNodes, body>> /\ spec' = spec
        /\ Moved("leave") /\ ran' = Append(ran, main.node)
    BY <1>14, SuiteEffects, SpecsTyped
  <2>2. /\ main'.pc = "leave" /\ main'.node = main.node /\ main'.todo = main.todo
        /\ main'.over = main.over
    BY <2>1 DEF Moved
  <2>3. /\ DOMAIN ran' = 1..(Len(ran) + 1) /\ \A i \in 1..Len(ran): ran'[i] = ran[i]
        /\ ran'[Len(ran) + 1] = main.node /\ Range(ran') = Range(ran) \union {main.node}
    BY <1>2, <1>14, <2>1, Appended
  <2>4. \A i \in DOMAIN ran': i \in DOMAIN ran \/ i = Len(ran) + 1
    BY <1>2, <2>3
  <2>5. /\ main.node[1] = spec /\ Passed(main.over, main.node)
        /\ Falling(main.todo) /\ \A x \in Ids(main.todo): x[1] = spec /\ x[2] < main.node[2]
        /\ Ids(cleanupNodes) = Ids(main.todo)
        /\ \A i \in DOMAIN ran: ran[i][1] = spec => main.node[2] < ran[i][2]
    BY <1>1, <1>5, <1>14, <2>1 DEF Unwinding
  <2>6. Listed(cleanupNodes)'
    BY <1>5, <2>1 DEF Listed, Rising
  <2>7. Deferring' /\ Fresh'
    BY <1>1, <1>6, <1>14, <2>1, <2>2 DEF Deferring, Fresh
  <2>8. Unwinding'
    <3>1. /\ Ids(cleanupNodes)' = Ids(cleanupNodes) /\ Ids(main.todo)' = Ids(main.todo)
          /\ Falling(main.todo)' = Falling(main.todo)
      BY <2>1, <2>2 DEF Ids, Falling
    <3>3. \A i \in DOMAIN ran': ran'[i][1] = spec =>
             main.node[2] < ran'[i][2] \/ main.node[2] = ran'[i][2]
      BY <1>2, <2>3, <2>4, <2>5
    <3> QED
      BY <1>1, <2>1, <2>2, <2>5, <3>1, <3>3 DEF Unwinding, Passed
  <2>9. \A i \in DOMAIN ran: ran[i][1] <= spec
    BY <1>1, <1>5, <2>1 DEF Ran
  <2>10. Ran'
    <3>1. ASSUME NEW i \in DOMAIN ran', NEW j \in DOMAIN ran', i < j
          PROVE  ran'[i][1] < ran'[j][1] \/ (ran'[i][1] = ran'[j][1] /\ ran'[i][2] > ran'[j][2])
      <4>1. i \in DOMAIN ran
        BY <1>2, <2>3, <3>1
      <4>2. CASE j \in DOMAIN ran
        BY <1>2, <1>5, <2>3, <3>1, <4>1, <4>2 DEF Ran
      <4>3. CASE j = Len(ran) + 1
        <5>1. ran'[i] = ran[i] /\ ran'[j] = main.node
          BY <1>2, <2>3, <4>1, <4>3
        <5>2. main.node[2] \in Nat /\ main.node[1] \in Nat
          BY <1>14, SpecsTyped
        <5> QED
          BY <1>2, <1>3, <2>5, <2>9, <4>1, <5>1, <5>2
      <4> QED
        BY <2>4, <4>2, <4>3
    <3>2. \A i \in DOMAIN ran': ran'[i][1] <= spec
      BY <1>2, <2>3, <2>4, <2>5, <2>9
    <3> QED
      BY <2>1, <2>2, <3>1, <3>2 DEF Ran
  <2>11. \A k: Pending(spec, k) => Pending(spec, k)'
    BY <2>1, <2>3 DEF Pending, Ids, Range
  <2>12. Complete'
    BY <1>1, <1>5, <2>1, <2>3, <2>11 DEF Complete, Range
  <2> QED
    BY <2>6, <2>7, <2>8, <2>10, <2>12
<1>15. CASE SetContext /\ main.node = It(spec)
  <2>1. /\ main.pc = "context" /\ UNCHANGED <<reports, cleanupNodes, ran>> /\ spec' = spec
        /\ Moved("select") /\ BodySet(spec, [body[spec] EXCEPT !.state = "running"])
    BY <1>15, SuiteEffects, SpecsTyped
  <2>2. spec \in Specs /\ Unstarted(spec)
    BY <1>1, <1>6, <1>15, <2>1 DEF Later
  <2>3. PICK v: v = [body[spec] EXCEPT !.state = "running"]
    OBVIOUS
  <2>4. v.calls = 0 /\ v.call = "none"
    <3>1. v.calls = body[spec].calls /\ v.call = body[spec].call
      BY <1>0, <2>2, <2>3 DEF BodyType
    <3>2. body[spec].calls = 0 /\ body[spec].call = "none"
      BY <1>0, <2>2 DEF Unstarted, Counted
    <3> QED
      BY <3>1, <3>2
  <2>5. /\ body'[spec].calls = 0 /\ body'[spec].call = "none"
        /\ \A m \in Specs: m # spec => body'[m] = body[m]
    BY <2>1, <2>3, <2>4 DEF BodySet
  <2>6. /\ main'.pc = "select" /\ main'.node = main.node /\ main'.todo = main.todo
        /\ main'.over = main.over
    BY <2>1 DEF Moved
  <2>7. cleanupNodes' = <<>>
    BY <1>1, <1>5, <1>15, <2>1 DEF Fresh
  <2>8. Listed(cleanupNodes)'
    <3>1. Listed(<<>>)'
      BY ListedKept
    <3> QED
      BY <2>7, <3>1 DEF Listed, Rising
  <2>9. Deferring'
    BY <2>1, <2>5 DEF Deferring
  <2>10. Fresh'
    BY <1>1, <1>5, <1>15, <2>1, <2>6 DEF Fresh
  <2>11. Unwinding'
    BY <1>1, <2>6 DEF Unwinding
  <2>12. Ran'
    BY <1>1, <1>5, <2>1, <2>6 DEF Ran
  <2>13. Complete'
    <3>1. \A m \in DOMAIN reports: m # spec /\ m \in Specs
      BY <1>0, <1>1, <2>1, ReportedSpecs
    <3> QED
      BY <1>5, <2>1, <2>5, <3>1 DEF Complete
  <2> QED
    BY <2>8, <2>9, <2>10, <2>11, <2>12, <2>13
<1>16. CASE BodyReturned
  <2>1. main.pc = "select" /\ Moved("leave") /\ SameLists
    BY <1>16, SuiteEffects
  <2>2. main.node = It(spec)
    BY <1>0, <2>1 DEF Position
  <2>3. Fresh'
    BY <1>1, <1>5, <2>1, <2>2 DEF Fresh, SameLists, Moved
  <2>4. Unwinding'
    BY <1>1, <1>6, <2>1, <2>2 DEF Unwinding, Moved
  <2> QED
    BY <1>1, <1>7, <2>1, <2>3, <2>4 DEF Moved
<1>17. CASE Leak
  <2>1. /\ main.pc = "select" /\ Moved("leave") /\ spec' = spec
        /\ UNCHANGED <<reports, cleanupNodes, ran>>
        /\ BodySet(spec, LeftBehind(body[spec]))
    BY <1>17, SuiteEffects
  <2>2. main.node = It(spec) /\ spec \in Specs
    BY <1>0, <1>1, <1>6, <2>1 DEF Position
  <2>3. PICK v: v = LeftBehind(body[spec])
    OBVIOUS
  <2>4. /\ v.calls = body[spec].calls /\ v.call = body[spec].call
        /\ v.program = body[spec].program /\ (body[spec].leaked => v.leaked)
    BY <1>0, <2>2, <2>3 DEF BodyType, LeftBehind
  <2>5. /\ body'[spec].calls = body[spec].calls /\ body'[spec].call = body[spec].call
        /\ body'[spec].program = body[spec].program /\ (body[spec].leaked => body'[spec].leaked)
        /\ \A m \in Specs: m # spec => body'[m] = body[m]
    BY <2>1, <2>3, <2>4 DEF BodySet
  <2>6. /\ main'.pc = "leave" /\ main'.node = main.node /\ main'.todo = main.todo
        /\ main'.over = main.over
    BY <2>1 DEF Moved
  <2>7. Listed(cleanupNodes)'
    BY <1>5, <2>1, <2>5 DEF Listed, Rising
  <2>8. Deferring'
    BY <2>6 DEF Deferring
  <2>9. Fresh'
    BY <1>1, <1>5, <2>1, <2>2, <2>6 DEF Fresh
  <2>10. Unwinding'
    BY <1>1, <1>6, <2>1, <2>2, <2>6 DEF Unwinding
  <2>11. Ran'
    BY <1>1, <1>5, <2>1, <2>6 DEF Ran
  <2>12. Complete'
    <3>1. \A m \in DOMAIN reports: m # spec /\ m \in Specs
      BY <1>0, <1>1, <2>1, ReportedSpecs
    <3>2. \A k: Pending(spec, k) => Pending(spec, k)'
      BY <1>1, <2>1, <2>5, <2>6 DEF Pending, Ids
    <3> QED
      BY <1>1, <1>5, <2>1, <2>5, <3>1, <3>2 DEF Complete
  <2> QED
    BY <2>7, <2>8, <2>9, <2>10, <2>11, <2>12
<1>18. CASE ClearNode
  BY <1>1, <1>8, <1>18, SuiteEffects
<1>19. CASE NextNode
  <2>1. /\ main.pc = "next" /\ SameLists
        /\ \/ Left(Nodes) = {} /\ Moved("process")
           \/ \E i \in First(Left(Nodes)): Begun(Nodes, i)
    BY <1>19, SuiteEffects
  <2>2. CASE Left(Nodes) = {} /\ Moved("process")
    <3>1. cleanupNodes = <<>>
      BY <1>5, <2>1, <2>2, NextCleanup
    <3>2. Fresh' /\ Unwinding'
      BY <1>1, <2>1, <2>2, <3>1 DEF Fresh, Unwinding, SameLists, Moved
    <3> QED
      BY <1>1, <1>7, <2>1, <2>2, <3>2 DEF Moved
  <2>3. ASSUME NEW i \in First(Left(Nodes)), Begun(Nodes, i)
        PROVE  /\ Deferring' /\ Listed(cleanupNodes)' /\ Fresh' /\ Unwinding' /\ Ran' /\ Complete'
    <3>1. main'.pc = "remove" /\ main'.node \in CleanupIds
      BY <2>3 DEF Begun
    <3>2. /\ main'.node[1] = spec /\ Passed(main'.over, main'.node)
          /\ Falling(main'.todo)
          /\ \A x \in Ids(main'.todo): x[1] = spec /\ x[2] < main'.node[2]
          /\ Ids(cleanupNodes) = Ids(main'.todo) \union {main'.node}
          /\ \A j \in DOMAIN ran: ran[j][1] = spec => main'.node[2] < ran[j][2]
      BY <1>5, <2>1, <2>3, NextCleanup
    <3>3. Fresh'
      BY <1>1, <1>6, <2>1, <3>1 DEF Fresh, SameLists
    <3>4. /\ Ids(cleanupNodes)' = Ids(cleanupNodes) /\ Ids(main.todo)' = Ids(main'.todo)
          /\ Falling(main.todo)' = Falling(main'.todo)
      BY <2>1 DEF Ids, Falling, SameLists
    <3>5. Unwinding'
      BY <1>1, <2>1, <3>1, <3>2, <3>4 DEF Unwinding, Passed, SameLists
    <3> QED
      BY <1>1, <1>7, <2>1, <3>1, <3>3, <3>5
  <2> QED
    BY <2>1, <2>2, <2>3
<1>20. CASE ProcessCurrentSpecReport
  <2>1. /\ main.pc = "process" /\ Moved("reset") /\ UNCHANGED <<body, cleanupNodes, ran>>
        /\ spec' = spec /\ reports' = Append(reports, currentSpecReport)
    BY <1>20, SuiteEffects
  <2>2. main'.pc = "reset" /\ cleanupNodes = <<>>
    BY <1>5, <2>1 DEF Moved, Fresh
  <2>3. DOMAIN reports' = 1..(Len(reports) + 1) /\ spec = Len(reports) + 1
    BY <1>0, <1>1, <2>1, Appended DEF Position, TypeOK, StructOK
  <2>4. Listed(cleanupNodes)'
    BY <1>5, <2>1 DEF Listed, Rising
  <2>5. Deferring' /\ Fresh' /\ Unwinding'
    BY <1>1, <2>1, <2>2 DEF Deferring, Fresh, Unwinding
  <2>6. Ran'
    BY <1>1, <1>5, <2>1, <2>2 DEF Ran
  <2>7. Uninterrupted /\ ~body[spec].leaked => \A k \in 1..body[spec].calls:
          body[spec].program[k] = "DeferCleanup" => <<spec, k>> \in Range(ran)
    <3>1. ~body[spec].leaked => body[spec].call # "DeferCleanup"
      BY <1>0, <1>1, <1>6, <2>1 DEF Counted, Running
    <3>2. main.pc \notin Starting /\ Ids(cleanupNodes) = {}
      BY <1>1, <2>1, <2>2, ListedKept
    <3> QED
      BY <1>1, <1>5, <2>1, <3>1, <3>2 DEF Complete, Pending
  <2>8. Complete'
    <3>1. \A n \in DOMAIN reports': n \in DOMAIN reports \/ n = spec
      BY <1>2, <2>3
    <3>2. Uninterrupted =>
            \A n \in DOMAIN reports': ~body[n].leaked => \A k \in 1..body[n].calls:
              body[n].program[k] = "DeferCleanup" => <<n, k>> \in Range(ran)
      BY <1>5, <2>7, <3>1 DEF Complete
    <3>3. \A k: <<spec, k>> \in Range(ran) => Pending(spec, k)'
      BY <2>1 DEF Pending, Range
    <3> QED
      BY <2>1, <2>7, <3>2, <3>3 DEF Complete
  <2> QED
    BY <2>4, <2>5, <2>6, <2>8
<1>21. CASE ResetReport
  <2>1. /\ main.pc = "reset" /\ UNCHANGED <<body, reports, cleanupNodes, ran>> /\ spec' = 0
        /\ main'.pc \in {"spec", "end"} /\ main'.todo = <<>> /\ main'.over = {}
    BY <1>21, SuiteEffects
  <2>2. spec = Len(reports)
    BY <1>0, <1>1, <1>2, <2>1 DEF Position
  <2>3. cleanupNodes' = <<>>
    BY <1>5, <2>1 DEF Fresh
  <2>4. Listed(cleanupNodes)'
    <3>1. Listed(<<>>)'
      BY ListedKept
    <3> QED
      BY <2>3, <3>1 DEF Listed, Rising
  <2>5. Deferring' /\ Fresh' /\ Unwinding'
    BY <1>1, <2>1, <2>3 DEF Deferring, Fresh, Unwinding
  <2>6. Ran'
    BY <1>1, <1>5, <2>1, <2>2 DEF Ran
  <2>7. Complete'
    BY <1>1, <1>5, <2>1 DEF Complete
  <2> QED
    BY <2>4, <2>5, <2>6, <2>7
<1>23. CASE SkipNode
  <2>1. main.pc = "start" /\ Moved("next") /\ SameLists
    BY <1>23, SuiteEffects
  <2>2. Fresh'
    BY <1>1, <1>5, <2>1 DEF Fresh, SameLists, Moved
  <2>3. /\ Ids(cleanupNodes)' = Ids(cleanupNodes) /\ Ids(main.todo)' = Ids(main.todo)
        /\ Falling(main.todo)' = Falling(main.todo)
    BY <2>1 DEF Ids, Falling, SameLists, Moved
  <2>4. Unwinding'
    BY <1>1, <1>5, <2>1, <2>3 DEF Unwinding, Passed, SameLists, Moved
  <2>5. main.pc \in InSpec /\ main'.pc \in InSpec \ {"select"}
    BY <1>1, <2>1 DEF Moved
  <2>6. CASE main.node \in CleanupIds
    <3>1. IsCleanup(main.node)
      BY <2>6, SpecsTyped
    <3>2. ~Uninterrupted
      BY <1>23, <3>1 DEF SkipNode, HeldBack, Uninterrupted
    <3> QED
      BY <1>7, <2>1, <2>2, <2>4, <2>5, <3>2
  <2>7. CASE main.node = It(spec)
    <3>1. Unstarted(spec) /\ body[spec].calls = 0
      BY <1>1, <1>6, <2>1, <2>5, <2>7 DEF Later, Unstarted
    <3>2. Deferring' /\ Listed(cleanupNodes)' /\ Ran'
      BY <1>1, <1>5, <2>1, <2>5 DEF Deferring, Listed, Rising, Ran, SameLists, Moved
    <3>3. Complete'
      BY <1>5, <2>1, <3>1 DEF Complete, SameLists
    <3> QED
      BY <2>2, <2>4, <3>2, <3>3
  <2> QED
    BY <1>6, <2>5, <2>6, <2>7
<1>22. SetContext => main.node = It(spec) \/ main.node \in CleanupIds
  BY <1>1, <1>6, SuiteEffects
<1> QED
  BY <1>9, <1>10, <1>11, <1>12, <1>13, <1>14, <1>15, <1>16, <1>17, <1>18, <1>19, <1>20, <1>21,
     <1>22, <1>23 DEF SuiteStep

\* The cleanup nodes when the suite starts.
LEMMA CleaningInit == Init => Later /\ Cleaning
<1> SUFFICES ASSUME Init PROVE Later /\ Cleaning
  OBVIOUS
<1>1. PICK p \in Programs: body = [n \in Specs |-> NewBody(p[n])]
  BY DEF Init
<1>2. \A n \in Specs: Unstarted(n)
  BY <1>1 DEF NewBody, Unstarted
<1>3. main.pc = "spec" /\ main.todo = <<>> /\ main.over = {}
  BY DEF Init, NewMain
<1>4. /\ cleanupNodes = <<>> /\ ran = <<>> /\ reports = <<>>
      /\ DOMAIN ran = {} /\ DOMAIN reports = {}
  BY DEF Init
<1>5. Later
  BY <1>2, <1>3 DEF Later, InSpec, Starting, Ending
<1>6. Listed(cleanupNodes)
  BY <1>4, ListedKept
<1>7. Deferring /\ Fresh /\ Unwinding
  BY <1>3, <1>4 DEF Deferring, Fresh, Unwinding, Starting, Ending
<1>8. Ran /\ Complete
  BY <1>3, <1>4 DEF Ran, Complete, InSpec, Starting, Ending
<1> QED
  BY <1>5, <1>6, <1>7, <1>8 DEF Cleaning

\* The level of the interrupts never falls.
LEMMA LevelsRise ==
  ASSUME status.level \in Nat, [Next]_vars
  PROVE  status'.level \in Nat /\ (Uninterrupted' => Uninterrupted)
<1> USE DEF suiteVars, current
<1>1. ASSUME NEW shown, Interrupt(shown)
      PROVE  status'.level \in Nat /\ (Uninterrupted' => Uninterrupted)
  BY <1>1 DEF Interrupt, Uninterrupted
<1>2. SuiteStep => UNCHANGED status
  BY DEF SuiteStep, NewSpec, ReadCleanups, AssignCleanups, SkipNode, SetNode, NodeEvent, SetContext,
         BodyReturned, Leak, ClearNode, NextNode, ProcessCurrentSpecReport, ResetReport
<1>3. SelectStep \/ HandleProgressSignal => UNCHANGED status
  BY DEF SelectStep, PollProgress, NodeTimesOut, SeeInterrupt, ReportLeak, EndGrace, Case,
         HandleProgressSignal, NoSuiteVars
<1>4. \A g \in Generators: GeneratorStep(g) => UNCHANGED status
  BY DEF GeneratorStep, Acquire, Answers, ReporterDeadline, NewProgressReport, NoSuiteVars,
         EmitProgressReport
<1>5. \A n \in Specs: BodyMoves(n) => UNCHANGED status
  BY DEF BodyMoves, Begin, BodyStep, Return, AddReportEntry, HandleByEvent, By,
         AttachProgressReporter, ReadOwner, ReadForAppend, PushCleanupNode
<1>6. UNCHANGED vars => UNCHANGED status
  BY DEF vars
<1>7. UNCHANGED status => status'.level \in Nat /\ (Uninterrupted' => Uninterrupted)
  BY DEF Uninterrupted
<1> QED
  BY <1>1, <1>2, <1>3, <1>4, <1>5, <1>6, <1>7 DEF Next, Done, BodyMoves

\* The cleanup nodes after every step.
LEMMA CleaningNext ==
  ASSUME Own, Later, Cleaning, status.level \in Nat, [Next]_vars
  PROVE  Later' /\ Cleaning'
<1>0. Own' /\ (Uninterrupted' => Uninterrupted)
  BY OwnNext, LevelsRise
<1>1. CASE SuiteStep
  BY <1>0, <1>1, LaterSuiteStep, CleaningSuiteStep
<1>2. CASE Generates
  BY <1>0, <1>2, CleaningGenerates
<1>3. CASE \E n \in Specs: BodyMoves(n)
  BY <1>0, <1>3, CleaningBodyMoves
<1>4. CASE UNCHANGED <<suiteVars, lock, main, body, gen, ran>>
  <2>0. UNCHANGED <<reports, cleanupNodes, main, body, ran>> /\ spec' = spec
    BY <1>4 DEF suiteVars, spec
  <2>1. Later'
    BY <2>0 DEF Later, Unstarted
  <2>2. ~LeakedPush' => ~LeakedPush
    BY <2>0 DEF LeakedPush
  <2>3. Deferring => Deferring'
    BY <2>0 DEF Deferring
  <2>4. Listed(cleanupNodes) => Listed(cleanupNodes)'
    BY <2>0 DEF Listed, Rising
  <2>5. Fresh => Fresh'
    BY <2>0 DEF Fresh
  <2>6. Unwinding => Unwinding'
    <3>1. Listed(main.read) => Listed(main.read)'
      BY <2>0 DEF Listed, Rising
    <3> QED
      BY <2>0, <3>1 DEF Unwinding, Passed, Falling, Ids
  <2>7. (Ran => Ran') /\ (Complete => Complete')
    BY <1>0, <2>0 DEF Ran, Complete, Pending, Ids
  <2> QED
    BY <2>1, <2>2, <2>3, <2>4, <2>5, <2>6, <2>7 DEF Cleaning
<1> QED
  BY <1>1, <1>2, <1>3, <1>4, NextMoves

\* As long as no leaked body makes a cleanup node, each node that pushCleanupNode
\* appends belongs to the node that asked for it, and attemptSpec and runNode run
\* it at most once, the last one first, before the report of its spec is filed; it
\* is run unless there were two interrupts.
THEOREM CleanupsAreRun == Spec => []CleanupsRunOnce
<1>1. ASSUME Own, Cleaning
      PROVE  CleanupsRunOnce
  <2>1. main.pc = "exited" => \E n \in Specs: body[n].leaked
    BY <1>1 DEF Own, Exited
  <2>2. ASSUME ~LeakedPush
        PROVE  /\ IsInjective(ran)
               /\ \A c \in Range(cleanupNodes): c.owner = It(c.by) /\ c.by = currentSpecReport.spec
               /\ \A n \in DOMAIN reports: ~body[n].leaked /\ status.level < 2 =>
                    \A k \in 1..body[n].calls: body[n].program[k] = "DeferCleanup" =>
                      <<n, k>> \in Range(ran)
               /\ \A i, j \in DOMAIN ran: i < j /\ ran[i][1] = ran[j][1] => ran[i][2] > ran[j][2]
    <3>1. Listed(cleanupNodes) /\ Ran /\ Complete
      BY <1>1, <2>2 DEF Cleaning
    <3>2. ran \in Seq(CleanupIds) /\ DOMAIN ran = 1..Len(ran) /\ Len(ran) \in Nat
      BY <1>1 DEF Own, TypeOK, ListsOK
    <3>3. \A i \in DOMAIN ran: ran[i] \in CleanupIds /\ ran[i][1] \in Nat /\ ran[i][2] \in Nat
      BY <3>2, SpecsTyped
    <3>4. IsInjective(ran)
      <4>1. ASSUME NEW i \in DOMAIN ran, NEW j \in DOMAIN ran, i < j
            PROVE  ran[i] # ran[j]
        <5>1. ran[i][1] < ran[j][1] \/ (ran[i][1] = ran[j][1] /\ ran[i][2] > ran[j][2])
          BY <3>1, <4>1 DEF Ran
        <5> QED
          BY <3>3, <5>1
      <4>2. \A i, j \in DOMAIN ran: i = j \/ i < j \/ j < i
        BY <3>2
      <4> QED
        BY <4>1, <4>2 DEF IsInjective
    <3>5. \A i, j \in DOMAIN ran: i < j /\ ran[i][1] = ran[j][1] => ran[i][2] > ran[j][2]
      BY <3>1, <3>3 DEF Ran
    <3>6. \A c \in Range(cleanupNodes): c.owner = It(c.by) /\ c.by = currentSpecReport.spec
      BY <3>1 DEF Listed, Range, spec
    <3> QED
      BY <3>1, <3>4, <3>5, <3>6 DEF Complete, Uninterrupted
  <2> QED
    BY <2>1, <2>2 DEF CleanupsRunOnce
<1>2. Init => Own /\ Later /\ Cleaning /\ status.level \in Nat
  BY OwnInit, CleaningInit DEF Init
<1>3. Own /\ Later /\ Cleaning /\ status.level \in Nat /\ [Next]_vars =>
        (Own /\ Later /\ Cleaning /\ status.level \in Nat)'
  BY OwnNext, CleaningNext, LevelsRise
<1>4. Own /\ Later /\ Cleaning => CleanupsRunOnce
  BY <1>1
<1> QED
  BY <1>2, <1>3, <1>4, PTL DEF Spec
==============================================================================
