--------------------------- MODULE NodeRunProofs ----------------------------
(***************************************************************************)
(* runNode for any plan of nodes, any timeouts and any interrupts.         *)
(*                                                                         *)
(* The timers: while runNode waits there is a deadline, or a grace period, *)
(* or neither, and never both; each of them keeps the latest time at which *)
(* the node may still hold up the suite, and an interrupt or a timeout     *)
(* only replaces the former by a latter that ends no later.                *)
(*                                                                         *)
(* The Failer: a goroutine that is leaked stays leaked, so as long as none *)
(* is, the only goroutine that can touch the Failer is the current one,    *)
(* and what the Failer holds is what that goroutine recorded.              *)
(***************************************************************************)
EXTENDS NodeRun, TLAPS

States  == {"passed", "failed", "skipped", "aborted", "panicked"}
Timers  == Nat \union {NoTimer}
Active  == {"running", "panicking", "drain", "send"}

TypeOK ==
  /\ level \in Levels /\ cause \in Causes /\ c \in Nat
  /\ plan \in PlanType
  /\ now \in Nat
  /\ k \in Nat \ {0}
  /\ main \in {"idle", "select"}
  /\ outcome \in {"invalid", "timedout", "interrupted"}
  /\ deadline \in Timers /\ grace \in Timers /\ cancelledAt \in Timers
  /\ seen \in [level: Levels, ch: Nat]
  /\ started \in [at: Nat, outOfTime: BOOLEAN]
  /\ body \in [Runs -> {"none", "gone"} \union Active]
  /\ own \in [Runs -> States] /\ sent \in [Runs -> States]
  /\ failer \in States
  /\ result \in [Runs -> States \union {"none", "timedout", "interrupted"}]
  /\ additional \in [Runs -> States]

\* The nodes before the current one have returned, those after it have not
\* been touched; the current one has a goroutine exactly in the select.
InOrder ==
  /\ main = "select" => InPlan
  /\ \A n \in Runs:
       /\ n < k => result[n] # "none"
       /\ n >= k => result[n] = "none"
       /\ n > k \/ (n = k /\ main = "idle") => body[n] = "none"
       /\ n = k /\ main = "select" => body[n] \in Active
       /\ body[n] = "none" => own[n] = "passed"

\* A cancelled node is in its grace period, and has no other timer.
GraceFollowsCancel ==
  main = "select" =>
    /\ cancelledAt = NoTimer <=> grace = NoTimer
    /\ outcome = "invalid" <=> grace = NoTimer
    /\ grace # NoTimer => /\ deadline = NoTimer
                          /\ grace = cancelledAt + GracePeriod(Node)
                          /\ now <= grace
    /\ deadline # NoTimer => now <= deadline

\* Some timer ends the node by t.
EndsBy(t) ==
  \/ deadline # NoTimer /\ deadline + GracePeriod(Node) <= t
  \/ grace # NoTimer /\ grace <= t

TimersKept == main = "select" => \A t \in LongestRun(Node): EndsBy(t)

NoneLeaked(n) == \A m \in Runs: m < n => ~Leaked(m)

\* With no leaked goroutine about, the Failer belongs to the current one.
FailerIsOwn ==
  NoneLeaked(k) =>
    /\ main = "idle" => failer = "passed"
    /\ main = "select" =>
         /\ body[k] \in {"running", "drain"} => failer = own[k]
         /\ body[k] = "panicking" =>
              /\ own[k] # "passed"
              /\ failer = own[k] \/ (failer = "passed" /\ own[k] = "panicked")
         /\ body[k] = "send" => failer = "passed" /\ sent[k] = own[k]

IndInv == /\ TypeOK
          /\ InOrder
          /\ GraceFollowsCancel
          /\ TimersKept
          /\ FailerIsOwn
          /\ ResultIsOwn

-----------------------------------------------------------------------------
USE DEF NoTimer, Uninterrupted, CleanupAndReport, ReportOnly, BailOut, Levels,
        Causes

\* No step changes the plan.
LEMMA PlanKept == [Next]_vars => plan' = plan /\ Runs' = Runs
BY DEF Runs, vars, nodeVars, bodyVars, ivars, Next, SkipNode, StartNode, Deliver,
       GraceElapsed, DeadlineElapsed, InterruptSeen, HelperFails, BodyEnd,
       Recover, Drain, SendSignal, OtherProcessAborts, Tick, Done

\* The node that is run is one of the plan.
LEMMA NodeTyped ==
  ASSUME TypeOK, InPlan
  PROVE  /\ k \in Runs
         /\ Node \in NodeType
         /\ Node.nodeTimeout \in Nat /\ Node.gracePeriod \in Nat
         /\ Node.hasContext \in BOOLEAN
         /\ GracePeriod(Node) \in Nat
<1>1. plan.nodes \in Seq(NodeType)  BY DEF TypeOK, PlanType
<1>2. k \in Runs  BY <1>1 DEF TypeOK, InPlan, Runs
<1>3. Node \in NodeType  BY <1>1, <1>2 DEF Runs, Node
<1>4. Node.nodeTimeout \in Nat /\ Node.gracePeriod \in Nat
      /\ Node.hasContext \in BOOLEAN
  BY <1>3 DEF NodeType
<1>5. GracePeriod(Node) \in Nat  BY <1>4 DEF GracePeriod
<1>6. QED BY <1>2, <1>3, <1>4, <1>5

\* What runNode computes for the deadline of a node: no later than any of the
\* times that count, and not before the present.
LEMMA DeadlineBound ==
  ASSUME TypeOK, InPlan
  PROVE  /\ OutOfTime(Node) \in BOOLEAN
         /\ Deadline(Node) \in Timers
         /\ Deadline(Node) # NoTimer => now <= Deadline(Node)
         /\ OutOfTime(Node) =>
              Deadline(Node) = now + (IF Node.nodeTimeout > 0
                                      THEN Node.nodeTimeout ELSE Node.gracePeriod)
         /\ ~OutOfTime(Node) =>
              \A d \in ({plan.suiteDeadline, plan.specDeadline} \ {0})
                       \union (IF Node.nodeTimeout > 0
                               THEN {now + Node.nodeTimeout} ELSE {}):
                Deadline(Node) # NoTimer /\ Deadline(Node) <= d
<1> DEFINE sd == plan.suiteDeadline
           pd == plan.specDeadline
           nt == Node.nodeTimeout
           gp == Node.gracePeriod
           d  == SpecOrSuiteDeadline
           f  == FirstDeadline(Node)
<1>1. sd \in Nat /\ pd \in Nat /\ nt \in Nat /\ gp \in Nat /\ now \in Nat
  BY NodeTyped DEF TypeOK, PlanType
<1>2. /\ d \in Nat
      /\ sd # 0 => d # 0 /\ d <= sd
      /\ pd # 0 => d # 0 /\ d <= pd
  BY <1>1 DEF SpecOrSuiteDeadline
<1>3. /\ f \in Nat
      /\ d # 0 => f # 0 /\ f <= d
      /\ nt > 0 => f # 0 /\ f <= now + nt
  <2>1. f = IF nt > 0 /\ (d = 0 \/ d - now > nt) THEN now + nt ELSE d
    BY DEF FirstDeadline
  <2> HIDE DEF d, f, nt
  <2>2. QED BY <1>1, <1>2, <2>1
<1>4. OutOfTime(Node) \in BOOLEAN  BY DEF OutOfTime
<1>5. OutOfTime(Node) => Deadline(Node) = now + (IF nt > 0 THEN nt ELSE gp)
  BY DEF Deadline
<1>6. ~OutOfTime(Node) => /\ Deadline(Node) = IF f = 0 THEN NoTimer ELSE f
                          /\ f # 0 => now <= f
  <2>1. ~OutOfTime(Node) => f = 0 \/ ~(f < now)  BY DEF OutOfTime
  <2> HIDE DEF f
  <2>2. ~OutOfTime(Node) => Deadline(Node) = IF f = 0 THEN NoTimer ELSE f
    BY DEF Deadline, f
  <2>3. QED BY <2>1, <2>2, <1>1, <1>3
<1> HIDE DEF d, f, nt, gp, sd, pd
<1>7. Deadline(Node) \in Timers
  BY <1>1, <1>3, <1>4, <1>5, <1>6 DEF Timers
<1>8. Deadline(Node) # NoTimer => now <= Deadline(Node)
  BY <1>1, <1>3, <1>4, <1>5, <1>6
<1>9. ASSUME ~OutOfTime(Node),
             NEW e \in ({sd, pd} \ {0}) \union (IF nt > 0 THEN {now + nt} ELSE {})
      PROVE  Deadline(Node) # NoTimer /\ Deadline(Node) <= e
  BY <1>1, <1>2, <1>3, <1>6, <1>9
<1>10. QED BY <1>4, <1>5, <1>7, <1>8, <1>9 DEF nt, gp, sd, pd

\* The times that count are points in time.
LEMMA LongestRunTyped ==
  ASSUME TypeOK, InPlan PROVE LongestRun(Node) \subseteq Nat
<1>1. /\ Node.hasContext \in BOOLEAN /\ Node.gracePeriod \in Nat
      /\ Node.nodeTimeout \in Nat /\ started.at \in Nat
      /\ plan.suiteDeadline \in Nat /\ plan.specDeadline \in Nat
  BY NodeTyped DEF TypeOK, PlanType
<1>2. QED BY <1>1 DEF LongestRun

\* The invariant holds before the first node.
LEMMA InitIndInv == Init => IndInv
<1> SUFFICES ASSUME Init PROVE IndInv
  OBVIOUS
<1> USE DEF Init, InterruptsInit
<1>1. plan \in PlanType  BY NodeRunAssumption
<1>2. TypeOK
  BY <1>1 DEF TypeOK, Timers, States, Active
<1>3. InOrder
  BY <1>1 DEF InOrder, Runs, PlanType
<1>4. GraceFollowsCancel /\ TimersKept
  BY DEF GraceFollowsCancel, TimersKept
<1>5. FailerIsOwn
  BY DEF FailerIsOwn
<1>6. ResultIsOwn
  BY DEF ResultIsOwn
<1>7. QED BY <1>2, <1>3, <1>4, <1>5, <1>6 DEF IndInv

-----------------------------------------------------------------------------
\* Every step keeps the types.
LEMMA NextTypeOK ==
  TypeOK /\ InOrder /\ GraceFollowsCancel /\ [Next]_vars => TypeOK'
<1> SUFFICES ASSUME TypeOK, InOrder, GraceFollowsCancel, [Next]_vars
             PROVE  TypeOK'
  OBVIOUS
<1> USE DEF nodeVars, bodyVars, ivars
<1>0. Runs' = Runs  BY PlanKept
<1>20. InPlan => k \in Runs /\ GracePeriod(Node) \in Nat  BY NodeTyped
<1>21. main = "select" => InPlan  BY DEF InOrder
<1>1. CASE SkipNode
  BY <1>0, <1>1, <1>20 DEF SkipNode, TypeOK, States
<1>2. CASE StartNode
  <2>1. OutOfTime(Node) \in BOOLEAN /\ Deadline(Node) \in Timers
    BY <1>2, DeadlineBound DEF StartNode
  <2>2. started' \in [at: Nat, outOfTime: BOOLEAN]
    BY <1>2, <2>1 DEF StartNode, TypeOK
  <2>3. body' \in [Runs -> {"none", "gone"} \union Active]
    BY <1>2, <1>20 DEF StartNode, TypeOK, Active
  <2> HIDE DEF NoTimer
  <2>4. seen' \in [level: Levels, ch: Nat]  BY <1>2 DEF StartNode, TypeOK
  <2>5. QED BY <1>0, <1>2, <2>1, <2>2, <2>3, <2>4 DEF StartNode, TypeOK, Timers
<1>3. CASE Deliver
  BY <1>0, <1>3, <1>20, <1>21 DEF Deliver, Return, TypeOK, States, Active
<1>4. CASE GraceElapsed
  BY <1>0, <1>4, <1>20, <1>21
  DEF GraceElapsed, Return, TypeOK, States, GraceFollowsCancel
<1>5. CASE DeadlineElapsed
  BY <1>0, <1>5, <1>20, <1>21 DEF DeadlineElapsed, TypeOK, Timers
<1>6. CASE InterruptSeen
  <2>1. seen' \in [level: Levels, ch: Nat]  BY <1>6 DEF InterruptSeen, TypeOK
  <2>2. CASE Undisturbed
    BY <1>0, <1>6, <2>1, <2>2 DEF InterruptSeen, TypeOK
  <2>3. CASE ~Undisturbed
    <3>1. /\ outcome' \in {"invalid", "timedout", "interrupted"}
          /\ deadline' \in Timers /\ cancelledAt' \in Timers
      BY <1>6, <2>3 DEF InterruptSeen, TypeOK, Timers
    <3>2. grace' \in Timers /\ k' \in Nat \ {0} /\ main' \in {"idle", "select"}
      BY <1>6, <1>20, <1>21, <2>3 DEF InterruptSeen, TypeOK, Timers
    <3>3. result' \in [Runs -> States \union {"none", "timedout", "interrupted"}]
      BY <1>6, <1>20, <1>21, <2>3 DEF InterruptSeen, TypeOK
    <3>4. QED BY <1>0, <1>6, <2>1, <3>1, <3>2, <3>3 DEF InterruptSeen, TypeOK
  <2>4. QED BY <2>2, <2>3
<1>7. ASSUME NEW n \in Runs, HelperFails(n) PROVE TypeOK'
  BY <1>0, <1>7 DEF HelperFails, Record, Own, TypeOK, States
<1>8. ASSUME NEW n \in Runs, NEW how \in Endings, BodyEnd(n, how) PROVE TypeOK'
  <2>1. how \in States  BY NodeRunAssumption DEF States
  <2>2. QED BY <1>0, <1>8, <2>1 DEF BodyEnd, Record, Own, TypeOK, Active
<1>9. ASSUME NEW n \in Runs, Recover(n) PROVE TypeOK'
  BY <1>0, <1>9 DEF Recover, Record, TypeOK, States, Active
<1>10. ASSUME NEW n \in Runs, Drain(n) PROVE TypeOK'
  BY <1>0, <1>10 DEF Drain, TypeOK, States, Active
<1>11. CASE SendSignal
  BY <1>0, <1>11 DEF SendSignal, Signal, TypeOK
<1>12. CASE OtherProcessAborts
  BY <1>0, <1>12 DEF OtherProcessAborts, Abort, TypeOK
<1>13. CASE Tick
  BY <1>0, <1>13 DEF Tick, TypeOK
<1>14. CASE UNCHANGED vars
  BY <1>0, <1>14 DEF vars, TypeOK
<1>15. QED
  BY <1>1, <1>2, <1>3, <1>4, <1>5, <1>6, <1>7, <1>8, <1>9, <1>10, <1>11,
     <1>12, <1>13, <1>14 DEF Next, Done

\* The nodes are run one after the other.
LEMMA NextInOrder == TypeOK /\ InOrder /\ [Next]_vars => InOrder'
<1> SUFFICES ASSUME TypeOK, InOrder, [Next]_vars PROVE InOrder'
  OBVIOUS
<1> USE DEF nodeVars, bodyVars, ivars, Active
<1>0. Runs' = Runs /\ plan' = plan  BY PlanKept
<1>20. /\ k \in Nat \ {0} /\ \A n \in Runs: n \in Nat
       /\ InPlan => k \in Runs
       /\ main = "select" => InPlan
  BY NodeTyped DEF InOrder, TypeOK, Runs
<1> USE <1>0, <1>20 DEF InOrder
<1>21. ASSUME k' = k + 1, main' = "idle", k \in Runs, UNCHANGED own,
              \/ UNCHANGED body /\ body[k] \in {"none"} \union Active
              \/ body' = [body EXCEPT ![k] = "gone"] /\ body[k] \in Active,
              NEW r, r # "none", result' = [result EXCEPT ![k] = r]
       PROVE  InOrder'
  <2> SUFFICES ASSUME NEW n \in Runs
               PROVE  /\ n < k + 1 => result'[n] # "none"
                      /\ n >= k + 1 => result'[n] = "none"
                      /\ n >= k + 1 => body'[n] = "none"
                      /\ body'[n] = "none" => own'[n] = "passed"
    BY <1>21
  <2>1. CASE n = k
    BY <1>21, <2>1 DEF TypeOK
  <2>2. CASE n # k
    BY <1>21, <2>2 DEF TypeOK
  <2>3. QED BY <2>1, <2>2
<1>1. CASE SkipNode
  BY <1>1, <1>21 DEF SkipNode
<1>2. CASE StartNode
  BY <1>2 DEF StartNode, TypeOK, InPlan
<1>3. CASE Deliver
  <2>1. outcome # "none" /\ sent[k] # "none"  BY <1>3 DEF Deliver, TypeOK, States
  <2>2. QED BY <1>3, <1>21, <2>1 DEF Deliver, Return
<1>4. CASE GraceElapsed
  BY <1>4 DEF GraceElapsed, Return, TypeOK, InPlan
<1>5. CASE DeadlineElapsed
  BY <1>5 DEF DeadlineElapsed, InPlan
<1>6. CASE InterruptSeen
  <2>1. CASE k' = k
    BY <1>6, <2>1 DEF InterruptSeen, TypeOK, InPlan
  <2>2. CASE k' # k
    <3>1. outcome # "none"  BY DEF TypeOK
    <3>2. QED BY <1>6, <1>21, <2>2, <3>1 DEF InterruptSeen
  <2>3. QED BY <2>1, <2>2
<1>7. ASSUME NEW n \in Runs, HelperFails(n) PROVE InOrder'
  BY <1>7 DEF HelperFails, Own, TypeOK, InPlan
<1>8. ASSUME NEW n \in Runs, NEW how \in Endings, BodyEnd(n, how) PROVE InOrder'
  BY <1>8 DEF BodyEnd, Own, TypeOK, InPlan
<1>9. ASSUME NEW n \in Runs, Recover(n) PROVE InOrder'
  BY <1>9 DEF Recover, TypeOK, InPlan
<1>10. ASSUME NEW n \in Runs, Drain(n) PROVE InOrder'
  BY <1>10 DEF Drain, TypeOK, InPlan
<1>11. CASE SendSignal
  BY <1>11 DEF SendSignal, InPlan
<1>12. CASE OtherProcessAborts
  BY <1>12 DEF OtherProcessAborts, InPlan
<1>13. CASE Tick
  BY <1>13 DEF Tick, InPlan
<1>14. CASE UNCHANGED vars
  BY <1>14 DEF vars, InPlan
<1>15. QED
  BY <1>1, <1>2, <1>3, <1>4, <1>5, <1>6, <1>7, <1>8, <1>9, <1>10, <1>11,
     <1>12, <1>13, <1>14 DEF Next, Done

\* No step lets a node run past its timers: the ones that replace a timer
\* replace it by one that ends no later.
LEMMA NextTimers ==
  TypeOK /\ InOrder /\ GraceFollowsCancel /\ TimersKept /\ [Next]_vars
    => GraceFollowsCancel' /\ TimersKept'
<1> SUFFICES ASSUME TypeOK, InOrder, GraceFollowsCancel, TimersKept, [Next]_vars,
                    main' = "select"
             PROVE  GraceFollowsCancel' /\ TimersKept'
  BY DEF GraceFollowsCancel, TimersKept
<1> USE DEF nodeVars, bodyVars, ivars
<1>20. /\ main = "select" => InPlan
       /\ InPlan => GracePeriod(Node) \in Nat
       /\ now \in Nat /\ deadline \in Timers /\ grace \in Timers
       /\ cancelledAt \in Timers
  BY NodeTyped DEF InOrder, TypeOK
<1>2. CASE StartNode
  <2> DEFINE G == GracePeriod(Node)
             D == Deadline(Node)
  <2>1. Node' = Node /\ k' = k /\ plan' = plan /\ InPlan
    BY <1>2 DEF StartNode, Node
  <2>2. GracePeriod(Node)' = G  BY <2>1 DEF GracePeriod
  <2>3. /\ deadline' = D /\ grace' = NoTimer /\ cancelledAt' = NoTimer
        /\ outcome' = "invalid" /\ now' = now
        /\ started' = [at |-> now, outOfTime |-> OutOfTime(Node)]
    BY <1>2 DEF StartNode
  <2>4. GraceFollowsCancel'
    BY <2>1, <2>3, DeadlineBound DEF GraceFollowsCancel
  <2>5. ASSUME NEW t \in LongestRun(Node)' PROVE EndsBy(t)'
    <3>1. /\ Node.hasContext \in BOOLEAN /\ Node.gracePeriod \in Nat
          /\ Node.nodeTimeout \in Nat
          /\ plan.suiteDeadline \in Nat /\ plan.specDeadline \in Nat
      BY <2>1, NodeTyped DEF TypeOK, PlanType
    <3>2. CASE OutOfTime(Node)
      <4>1. t = now + G + (IF Node.nodeTimeout > 0
                           THEN Node.nodeTimeout ELSE Node.gracePeriod)
        BY <2>1, <2>3, <2>5, <3>1, <3>2 DEF LongestRun, GracePeriod
      <4>2. D # NoTimer /\ D + G <= t
        BY <1>20, <2>1, <3>1, <3>2, <4>1, DeadlineBound
      <4>3. QED BY <2>2, <2>3, <4>2 DEF EndsBy
    <3>3. CASE ~OutOfTime(Node)
      <4>1. PICK d \in ({plan.suiteDeadline, plan.specDeadline} \ {0})
                       \union (IF Node.nodeTimeout > 0
                               THEN {now + Node.nodeTimeout} ELSE {}):
              t = d + G
        BY <2>1, <2>3, <2>5, <3>1, <3>3 DEF LongestRun, GracePeriod
      <4>2. D # NoTimer /\ D <= d
        BY <2>1, <3>3, DeadlineBound
      <4>3. d \in Nat /\ D \in Int  BY <1>20, <2>1, <3>1, DeadlineBound DEF Timers
      <4>4. D + G <= t  BY <1>20, <2>1, <4>1, <4>2, <4>3
      <4>5. QED BY <2>2, <2>3, <4>2, <4>4 DEF EndsBy
    <3>4. QED BY <3>2, <3>3
  <2>6. QED BY <2>4, <2>5 DEF TimersKept
\* Otherwise the node is the same one, and so are the times that count.
<1>3. ASSUME main = "select", k' = k, plan' = plan, started' = started,
             GraceFollowsCancel', \A t \in Nat: EndsBy(t) => EndsBy(t)'
      PROVE  GraceFollowsCancel' /\ TimersKept'
  <2>1. LongestRun(Node)' = LongestRun(Node)  BY <1>3 DEF LongestRun, Node
  <2>2. \A t \in LongestRun(Node): t \in Nat  BY <1>3, <1>20, LongestRunTyped
  <2>3. QED BY <1>3, <2>1, <2>2 DEF TimersKept
<1>4. ASSUME main = "select", k' = k, plan' = plan, started' = started,
             now' = now, UNCHANGED <<outcome, deadline, grace, cancelledAt>>
      PROVE  GraceFollowsCancel' /\ TimersKept'
  <2>1. GracePeriod(Node)' = GracePeriod(Node)  BY <1>4 DEF GracePeriod, Node
  <2>2. GraceFollowsCancel'  BY <1>4, <2>1 DEF GraceFollowsCancel
  <2>3. \A t \in Nat: EndsBy(t) => EndsBy(t)'  BY <1>4, <2>1 DEF EndsBy
  <2>4. QED BY <1>3, <1>4, <2>2, <2>3
<1>5. CASE DeadlineElapsed
  <2> USE <1>5, <1>20 DEF DeadlineElapsed, Timers
  <2>1. GracePeriod(Node)' = GracePeriod(Node)  BY DEF GracePeriod, Node
  <2>2. GraceFollowsCancel'  BY <2>1 DEF GraceFollowsCancel
  <2>3. now = deadline  BY DEF GraceFollowsCancel
  <2>4. \A t \in Nat: EndsBy(t) => EndsBy(t)'
    BY <2>1, <2>3 DEF EndsBy, GraceFollowsCancel
  <2>5. QED BY <1>3, <2>2, <2>4
<1>6. CASE InterruptSeen
  <2>1. CASE Undisturbed
    BY <1>4, <1>6, <2>1 DEF InterruptSeen
  <2>2. CASE ~Undisturbed
    <3> USE <1>6, <1>20, <2>2 DEF InterruptSeen, Timers
    <3>1. grace = NoTimer /\ k' = k /\ grace' = now + GracePeriod(Node)
      BY DEF NoGraceLeft
    <3>2. GracePeriod(Node)' = GracePeriod(Node)  BY <3>1 DEF GracePeriod, Node
    <3>3. GraceFollowsCancel'  BY <3>1, <3>2 DEF GraceFollowsCancel, TypeOK
    <3>4. \A t \in Nat: EndsBy(t) => EndsBy(t)'
      BY <3>1, <3>2 DEF EndsBy, GraceFollowsCancel
    <3>5. QED BY <1>3, <3>1, <3>3, <3>4
  <2>3. QED BY <2>1, <2>2
<1>7. ASSUME NEW n \in Runs,
             \/ HelperFails(n)
             \/ \E how \in Endings: BodyEnd(n, how)
             \/ Recover(n)
             \/ Drain(n)
      PROVE  GraceFollowsCancel' /\ TimersKept'
  BY <1>4, <1>7 DEF HelperFails, BodyEnd, Recover, Drain
<1>8. CASE SendSignal \/ OtherProcessAborts
  BY <1>4, <1>8 DEF SendSignal, OtherProcessAborts
<1>9. CASE Tick
  <2> USE <1>9, <1>20 DEF Tick, Timers
  <2>1. GracePeriod(Node)' = GracePeriod(Node)  BY DEF GracePeriod, Node
  <2>2. GraceFollowsCancel'  BY <2>1 DEF GraceFollowsCancel, Urgent
  <2>3. \A t \in Nat: EndsBy(t) => EndsBy(t)'  BY <2>1 DEF EndsBy
  <2>4. QED BY <1>3, <2>2, <2>3
<1>10. CASE UNCHANGED vars
  BY <1>4, <1>10 DEF vars
<1>11. CASE SkipNode \/ Deliver \/ GraceElapsed
  BY <1>11 DEF SkipNode, Deliver, GraceElapsed, Return
<1>12. QED
  BY <1>2, <1>5, <1>6, <1>7, <1>8, <1>9, <1>10, <1>11 DEF Next, Done

-----------------------------------------------------------------------------
\* A leaked goroutine stays leaked: it never finds anyone to deliver to.
LEMMA LeakedForGood ==
  ASSUME TypeOK, InOrder, [Next]_vars, NEW m \in Runs, Leaked(m)
  PROVE  Leaked(m)' /\ m < k
<1> USE DEF nodeVars, bodyVars, ivars, Leaked
<1>1. m \in Nat /\ k \in Nat  BY DEF Runs, TypeOK
<1>2. m < k  BY <1>1 DEF InOrder
<1>3. main = "select" => k \in Runs  BY NodeTyped DEF InOrder
<1>4. result'[m] = result[m]
  BY <1>1, <1>2, <1>3
  DEF TypeOK, vars, Next, SkipNode, StartNode, Deliver, Return, GraceElapsed,
      DeadlineElapsed, InterruptSeen, HelperFails, BodyEnd, Recover, Drain,
      SendSignal, OtherProcessAborts, Tick, Done
<1>5. body'[m] \notin {"none", "gone"}
  BY <1>1, <1>2, <1>3
  DEF TypeOK, vars, Next, SkipNode, StartNode, Deliver, Return, GraceElapsed,
      DeadlineElapsed, InterruptSeen, HelperFails, BodyEnd, Recover, Drain,
      SendSignal, OtherProcessAborts, Tick, Done
<1>6. QED BY <1>2, <1>4, <1>5

\* Only the current goroutine is active when none is leaked.
LEMMA OnlyCurrent ==
  ASSUME TypeOK, InOrder, NoneLeaked(k), NEW n \in Runs, body[n] \in Active
  PROVE  n = k /\ main = "select"
<1>1. n \in Nat /\ k \in Nat /\ 1 <= n  BY DEF Runs, TypeOK
<1>2. ~(n < k)  BY <1>1 DEF InOrder, NoneLeaked, Leaked, Active
<1>3. QED BY <1>1, <1>2 DEF InOrder, Active, TypeOK

\* The Failer holds what the current goroutine recorded, and is passed on.
LEMMA NextFailerIsOwn ==
  TypeOK /\ InOrder /\ FailerIsOwn /\ [Next]_vars => FailerIsOwn'
<1> SUFFICES ASSUME TypeOK, InOrder, FailerIsOwn, [Next]_vars, NoneLeaked(k)'
             PROVE  FailerIsOwn'
  BY DEF FailerIsOwn
<1> USE DEF nodeVars, bodyVars, ivars, Active
<1>20. /\ k \in Nat \ {0} /\ \A m \in Runs: m \in Nat
       /\ InPlan => k \in Runs
       /\ main = "select" => InPlan
  BY NodeTyped DEF InOrder, TypeOK, Runs
<1>21. Runs' = Runs /\ (k' = k \/ (k' = k + 1 /\ main' = "idle"))
  BY PlanKept
  DEF vars, Next, SkipNode, StartNode, Deliver, Return, GraceElapsed,
         DeadlineElapsed, InterruptSeen, HelperFails, BodyEnd, Recover, Drain,
         SendSignal, OtherProcessAborts, Tick, Done
<1>22. NoneLeaked(k)
  BY <1>20, <1>21, LeakedForGood DEF NoneLeaked
<1>23. \A n \in Runs: body[n] \in Active => n = k /\ main = "select"
  BY <1>22, OnlyCurrent
<1> USE <1>20, <1>21, <1>22 DEF FailerIsOwn
<1>1. CASE SkipNode
  BY <1>1 DEF SkipNode
<1>2. CASE StartNode
  BY <1>2 DEF StartNode, InOrder, TypeOK
<1>3. CASE Deliver
  BY <1>3 DEF Deliver, Return
\* These leave the goroutine behind, leaked.
<1>4. CASE GraceElapsed
  <2>1. \A n \in Runs: n = k => Leaked(n)'
    BY <1>4 DEF GraceElapsed, Return, Leaked, InOrder, TypeOK
  <2>2. QED BY <1>4, <2>1 DEF GraceElapsed, Return, NoneLeaked
<1>6. CASE InterruptSeen
  <2>1. CASE k' = k
    BY <1>6, <2>1 DEF InterruptSeen
  <2>2. CASE k' # k
    <3>1. \A n \in Runs: n = k => Leaked(n)'
      BY <1>6, <2>2 DEF InterruptSeen, Leaked, InOrder, TypeOK
    <3>2. QED BY <1>6, <2>2, <3>1 DEF InterruptSeen, NoneLeaked
  <2>3. QED BY <2>1, <2>2
<1>5. CASE DeadlineElapsed
  BY <1>5 DEF DeadlineElapsed
<1>7. ASSUME NEW n \in Runs, HelperFails(n) PROVE FailerIsOwn'
  <2>1. n = k /\ main = "select"  BY <1>7, <1>23 DEF HelperFails
  <2>2. QED BY <1>7, <2>1 DEF HelperFails, Record, Own, TypeOK
<1>8. ASSUME NEW n \in Runs, NEW how \in Endings, BodyEnd(n, how)
      PROVE  FailerIsOwn'
  <2>1. n = k /\ main = "select"  BY <1>8, <1>23 DEF BodyEnd
  <2>2. failer = own[k]  BY <1>8, <2>1 DEF BodyEnd
  <2>3. QED BY <1>8, <2>1, <2>2 DEF BodyEnd, Record, Own, TypeOK
<1>9. ASSUME NEW n \in Runs, Recover(n) PROVE FailerIsOwn'
  <2>1. n = k /\ main = "select"  BY <1>9, <1>23 DEF Recover
  <2>2. QED BY <1>9, <2>1 DEF Recover, Record, TypeOK
<1>10. ASSUME NEW n \in Runs, Drain(n) PROVE FailerIsOwn'
  <2>1. n = k /\ main = "select"  BY <1>10, <1>23 DEF Drain
  <2>2. QED BY <1>10, <2>1 DEF Drain, TypeOK
<1>11. CASE SendSignal \/ OtherProcessAborts
  BY <1>11 DEF SendSignal, OtherProcessAborts
<1>12. CASE Tick
  BY <1>12 DEF Tick
<1>13. CASE UNCHANGED vars
  BY <1>13 DEF vars
<1>14. QED
  BY <1>1, <1>2, <1>3, <1>4, <1>5, <1>6, <1>7, <1>8, <1>9, <1>10, <1>11,
     <1>12, <1>13 DEF Next, Done

\* What runNode has returned for a node stands, and it is the node's own.
LEMMA NextResultIsOwn ==
  TypeOK /\ InOrder /\ FailerIsOwn /\ GraceFollowsCancel /\ ResultIsOwn
    /\ [Next]_vars => ResultIsOwn'
<1> SUFFICES ASSUME TypeOK, InOrder, FailerIsOwn, GraceFollowsCancel, ResultIsOwn,
                    [Next]_vars, NEW n \in Runs,
                    result'[n] # "none", body'[n] = "gone",
                    \A m \in 1..(n - 1): ~Leaked(m)'
             PROVE  \/ result'[n] = own'[n]
                    \/ /\ result'[n] \in {"timedout", "interrupted"}
                       /\ additional'[n] = own'[n]
  BY PlanKept DEF ResultIsOwn
<1> USE DEF nodeVars, bodyVars, ivars, Active
<1>20. /\ k \in Nat \ {0} /\ \A m \in Runs: m \in Nat \ {0}
       /\ InPlan => k \in Runs
       /\ main = "select" => InPlan
  BY NodeTyped DEF InOrder, TypeOK, Runs
<1>21. \A m \in 1..(n - 1): m \in Runs /\ ~Leaked(m)
  BY <1>20, LeakedForGood DEF Runs, TypeOK, PlanType
<1>22. CASE body[n] = "gone"
  <2>1. result[n] # "none" /\ n # k
    BY <1>20, <1>22 DEF InOrder, TypeOK
  <2>2. result'[n] = result[n] /\ additional'[n] = additional[n]
    BY <1>20, <1>22, <2>1
    DEF TypeOK, vars, Next, SkipNode, StartNode, Deliver, Return, GraceElapsed,
        DeadlineElapsed, InterruptSeen, HelperFails, BodyEnd, Recover, Drain,
        SendSignal, OtherProcessAborts, Tick, Done
  <2>4. own'[n] = own[n]
    <3>1. ASSUME NEW m \in Runs, HelperFails(m) \/ \E how \in Endings: BodyEnd(m, how)
          PROVE  own'[n] = own[n]
      BY <1>22, <3>1 DEF HelperFails, BodyEnd, Own, TypeOK
    <3>2. QED
      BY <3>1
      DEF vars, Next, SkipNode, StartNode, Deliver, GraceElapsed, DeadlineElapsed,
          InterruptSeen, Recover, Drain, SendSignal, OtherProcessAborts, Tick, Done
  <2>3. QED BY <1>21, <1>22, <2>1, <2>2, <2>4 DEF ResultIsOwn
<1>23. CASE body[n] # "gone"
  <2>0. ASSUME NEW m \in Runs, \/ HelperFails(m)
                               \/ \E how \in Endings: BodyEnd(m, how)
                               \/ Recover(m) \/ Drain(m)
        PROVE  FALSE
    BY <1>23, <2>0 DEF HelperFails, BodyEnd, Recover, Drain, TypeOK
  <2>1. Deliver /\ n = k
    <3>1. Deliver
      BY <1>20, <1>23, <2>0
      DEF TypeOK, vars, Next, SkipNode, StartNode, GraceElapsed, DeadlineElapsed,
          InterruptSeen, SendSignal, OtherProcessAborts, Tick, Done
    <3>2. QED BY <1>20, <1>23, <3>1 DEF Deliver, TypeOK
  <2>2. NoneLeaked(k)  BY <1>20, <1>21, <2>1 DEF NoneLeaked
  <2>3. sent[k] = own[k]  BY <2>1, <2>2 DEF Deliver, FailerIsOwn
  <2>4. QED BY <1>20, <2>1, <2>3 DEF Deliver, Return, TypeOK
<1>24. QED BY <1>22, <1>23

-----------------------------------------------------------------------------
\* The invariant is inductive.
THEOREM Invariance == Spec => []IndInv
<1>1. IndInv /\ [Next]_vars => IndInv'
  BY NextTypeOK, NextInOrder, NextTimers, NextFailerIsOwn, NextResultIsOwn
  DEF IndInv
<1>2. QED BY <1>1, InitIndInv, PTL DEF Spec

\* The types of runNode's state; in particular runNode never returns the
\* zero value of its outcome.
THEOREM TypeCorrect == Spec => []TypeOK
<1>1. IndInv => TypeOK  BY DEF IndInv
<1>2. QED BY <1>1, Invariance, PTL

\* However timeouts and interrupts mix, a body that was told to stop is
\* waited for no longer than one grace period.
THEOREM GracePeriodOnce == Spec => []OneGracePeriod
<1>1. IndInv => OneGracePeriod
  BY DEF IndInv, GraceFollowsCancel, OneGracePeriod
<1>2. QED BY <1>1, Invariance, PTL

\* No node holds up the suite past the earliest of the deadlines over it and
\* a grace period, and no interrupt puts that off.
THEOREM DeadlinesKept == Spec => []DeadlineKept
<1>1. IndInv => DeadlineKept
  <2> SUFFICES ASSUME IndInv, main = "select", NEW t \in LongestRun(Node)
               PROVE  now <= t
    BY DEF DeadlineKept
  <2>1. InPlan /\ TypeOK  BY DEF IndInv, InOrder
  <2>2. t \in Nat /\ GracePeriod(Node) \in Nat
    BY <2>1, LongestRunTyped, NodeTyped
  <2>3. EndsBy(t)  BY DEF IndInv, TimersKept
  <2>4. QED
    BY <2>1, <2>2, <2>3 DEF IndInv, GraceFollowsCancel, EndsBy, TypeOK, Timers
<1>2. QED BY <1>1, Invariance, PTL

\* Nothing that a body reports is lost or lands in another node, as long as
\* no earlier node has leaked its goroutine.
THEOREM ResultsAreOwn == Spec => []ResultIsOwn
<1>1. IndInv => ResultIsOwn  BY DEF IndInv
<1>2. QED BY <1>1, Invariance, PTL
=============================================================================
