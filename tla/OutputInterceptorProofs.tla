----------------------- MODULE OutputInterceptorProofs ----------------------
(***************************************************************************)
(* Proofs about OutputInterceptor, for every sequence of segments a code   *)
(* path of the suite makes, and every number of writes and pauses: the     *)
(* interceptor lets go of stdout, and the output of a body ends up in the  *)
(* report of its spec.  That its calls return is liveness and stays with   *)
(* TLC.                                                                    *)
(***************************************************************************)
EXTENDS OutputInterceptor, TLAPS

-----------------------------------------------------------------------------
(* The parts of the inductive invariant                                    *)

PipeType ==
  [writers: SUBSET {"writer", "fd", "child"}, data: Seq(Nat), buf: Seq(Nat),
   fwd: BOOLEAN, copier: {"copy", "finished"},
   select: {"wait", "content", "empty", "sent"}, bailout: BOOLEAN, broken: BOOLEAN]

WriteType == [by: {"body", "leaked", "child"}, seg: Nat, to: Int]

Pausing == {"close", "restore", "await", "bailed"}
PCs     == Pausing \union {"between", "pipe", "connect", "body", "stopped",
                           "shutdown", "end", "killed"}

\* The suite is inside a segment and may still finish it.
InSegment ==
  pc \in {"pipe", "connect", "body", "stopped"} \/ (pc \in Pausing /\ ret # "shutdown")

ControlOK ==
  /\ work \in Workloads /\ impl \in Impls
  /\ seg \in Nat \ {0} /\ (InSegment => seg <= Len(Segments))
  /\ seg <= Len(Segments) + 1
  /\ pc \in PCs /\ ret \in {"body", "stopped", "shutdown"} /\ pauses \in Nat
  /\ intercepting \in BOOLEAN /\ clones \in BOOLEAN /\ factory \in BOOLEAN
  /\ forwardTo \in BOOLEAN
PipesOK ==
  /\ pipes \in Seq(PipeType)
  /\ stdout \in 0..Len(pipes)
  /\ child \in {Nothing, Exited} \union 0..Len(pipes)
Specs == {Segments[i].spec: i \in DOMAIN Segments}
OutputOK ==
  /\ accumulatedOutput \in Seq(Nat) /\ buffer \in Seq(Nat)
  /\ report \in [Specs -> [out: Seq(Nat), gw: Seq(Nat)]]
  /\ wrote \in Seq(WriteType)

TypeOK == ControlOK /\ PipesOK /\ OutputOK

\* The interceptor is through with pipe p.
Spent(p) ==
  /\ pipes[p].writers \subseteq {"child"}
  /\ pipes[p].select = "sent"
  /\ pipes[p].copier = "copy" => pipes[p].bailout

\* The last pipe is the one in use.
Live == intercepting /\ pc \notin {"pipe", "killed"}

\* What stdout is, and who holds the write end of the pipe, at each point of
\* an interception; all pipes but the one in use are spent.
Shape ==
  /\ \A p \in DOMAIN pipes:
       /\ p < Len(pipes) \/ ~intercepting \/ pc = "pipe" => Spent(p)
       /\ pipes[p].select = "content" => pipes[p].copier = "finished"
       /\ pipes[p].select = "empty" => pipes[p].bailout
  /\ Live => Len(pipes) > 0
  /\ pc \in Pausing \union {"pipe", "connect"} => intercepting
  /\ pc \in {"stopped", "shutdown", "end"} => ~intercepting
  /\ stdout \in {Console, Pipe}
  /\ ~intercepting \/ pc \in {"pipe", "connect", "await", "bailed"} => stdout = Console
  /\ pc \in {"restore", "await", "bailed"} => "writer" \notin pipes[Pipe].writers
  /\ pc \in {"await", "bailed"} => "fd" \notin pipes[Pipe].writers

Below(A, B) == \A x \in A, y \in B: x < y
InUse == pipes[Pipe]

\* The accumulated output is not in a report yet, and may get there; so may
\* what the GinkgoWriter holds.
Unfiled   == pc \notin {"killed", "end", "shutdown"} /\ (pc = "between" => intercepting)
UnfiledGW == InSegment \/ (pc = "between" /\ seg > 1 /\ ~Segments[seg - 1].closes)

\* Output keeps its order on the way from the pipe through the buffer and the
\* accumulated output to the reports.
InOrder ==
  /\ Increasing(accumulatedOutput) /\ Increasing(buffer)
  /\ \A spec \in DOMAIN report: Increasing(report[spec].out) /\ Increasing(report[spec].gw)
  /\ Live => /\ Increasing(InUse.buf) /\ Increasing(InUse.data)
             /\ Below(Range(accumulatedOutput), Range(InUse.buf) \union Range(InUse.data))
             /\ Below(Range(InUse.buf), Range(InUse.data))
  /\ \A spec \in DOMAIN report:
       /\ Unfiled => Below(Range(report[spec].out), Range(accumulatedOutput))
       /\ Live => Below(Range(report[spec].out), Range(InUse.buf) \union Range(InUse.data))
       /\ UnfiledGW => Below(Range(report[spec].gw), Range(buffer))

\* Everything on that way is a write that was made.
Made ==
  /\ Range(accumulatedOutput) \subseteq DOMAIN wrote /\ Range(buffer) \subseteq DOMAIN wrote
  /\ \A spec \in DOMAIN report: Range(report[spec].out) \union Range(report[spec].gw)
                                  \subseteq DOMAIN wrote
  /\ Live => Range(InUse.buf) \union Range(InUse.data) \subseteq DOMAIN wrote
  /\ \A t \in DOMAIN wrote:
       /\ wrote[t].to \in -2..Len(pipes)
       /\ wrote[t].by = "body" => wrote[t].seg \in 1..(IF pc = "between" THEN seg - 1 ELSE seg)
                                  /\ wrote[t].seg <= Len(Segments)

\* What a body wrote is on its way to the report of its own spec, or an early
\* return has come between.
Astray(t) == \E s \in wrote[t].seg..(seg - 1): Segments[s].early
Current   == IF pc = "between" THEN seg - 1 ELSE seg
Attributed ==
  /\ \A t \in Range(accumulatedOutput):
       Unfiled /\ wrote[t].by = "body" => (wrote[t].seg = seg /\ pc # "between") \/ Astray(t)
  /\ Live => \A t \in Range(InUse.buf) \union Range(InUse.data):
       wrote[t].by = "body" => (wrote[t].seg = seg /\ pc # "between") \/ Astray(t)
  /\ UnfiledGW => \A t \in Range(buffer):
       wrote[t].by = "body" => Segments[wrote[t].seg].spec = Segments[Current].spec
  /\ \A spec \in DOMAIN report:
       /\ \A t \in Range(report[spec].out):
            wrote[t].by = "body" => Segments[wrote[t].seg].spec = spec \/ Astray(t)
       /\ \A t \in Range(report[spec].gw):
            wrote[t].by = "body" => Segments[wrote[t].seg].spec = spec

\* Nothing a body wrote is lost on the way.
Intact(t) == LET p == wrote[t].to IN p > 0 /\ ~pipes[p].bailout /\ ~pipes[p].broken
Drained == \A p \in DOMAIN pipes:
  pipes[p].copier = "finished" /\ ~pipes[p].broken => pipes[p].data = <<>>
Held(t) ==
  \/ t \in Range(accumulatedOutput)
  \/ Live /\ wrote[t].to = Pipe /\ t \in Range(InUse.buf) \union Range(InUse.data)
KeptGW(t) == LET s == wrote[t].seg IN
  wrote[t].to = GinkgoWriter =>
    \/ t \in Range(report[Segments[s].spec].gw)
    \/ t \in Range(buffer) /\ \A e \in s..(seg - 1): ~Segments[e].closes
KeptOut(t) == LET s == wrote[t].seg IN
  Intact(t) /\ Segments[s].keep =>
    IF s < seg THEN t \in Range(report[Segments[s].spec].out) ELSE Unfiled => Held(t)
Kept ==
  \A t \in DOMAIN wrote:
    wrote[t].by = "body" /\ ~Segments[wrote[t].seg].early => KeptGW(t) /\ KeptOut(t)

-----------------------------------------------------------------------------
(* Sequences of numbers                                                    *)

\* The empty sequence has no elements.
LEMMA NothingIn == \A e: e = <<>> => Range(e) = {} /\ Increasing(e)
<1>1. ASSUME NEW e, DOMAIN e = {} PROVE Range(e) = {} /\ Increasing(e)
  BY <1>1 DEF Range, Increasing
<1>2. \A e: e = <<>> => DOMAIN e = {}
  OBVIOUS
<1> QED
  BY <1>1, <1>2

\* What the operations on sequences do to the set of their elements.
LEMMA Ranges ==
  ASSUME NEW s \in Seq(Nat), NEW t \in Seq(Nat), NEW e \in Nat
  PROVE  /\ Range(<<>>) = {}
         /\ Range(Append(s, e)) = Range(s) \union {e}
         /\ Range(s \o t) = Range(s) \union Range(t)
         /\ s # <<>> => /\ Head(s) \in Nat /\ Tail(s) \in Seq(Nat)
                        /\ Range(s) = {Head(s)} \union Range(Tail(s))
         /\ Range(s) \subseteq Nat
<1>1. Range(<<>>) = {} /\ Range(s) \subseteq Nat
  BY DEF Range
<1>2. Range(Append(s, e)) = Range(s) \union {e}
  <2>1. /\ DOMAIN Append(s, e) = 1..(Len(s) + 1) /\ DOMAIN s = 1..Len(s)
        /\ \A i \in 1..Len(s): Append(s, e)[i] = s[i]
        /\ Append(s, e)[Len(s) + 1] = e
    OBVIOUS
  <2>2. ASSUME NEW i \in 1..(Len(s) + 1) PROVE Append(s, e)[i] \in Range(s) \union {e}
    <3>1. i \in 1..Len(s) \/ i = Len(s) + 1
      OBVIOUS
    <3> QED
      BY <2>1, <3>1 DEF Range
  <2>3. ASSUME NEW x \in Range(s) \union {e}
        PROVE  \E i \in 1..(Len(s) + 1): x = Append(s, e)[i]
    <3>1. CASE x = e
      BY <2>1, <3>1
    <3>2. CASE x \in Range(s)
      BY <2>1, <3>2 DEF Range
    <3> QED
      BY <3>1, <3>2
  <2> QED
    BY <2>1, <2>2, <2>3 DEF Range
<1>3. Range(s \o t) = Range(s) \union Range(t)
  <2>1. /\ DOMAIN (s \o t) = 1..(Len(s) + Len(t))
        /\ DOMAIN s = 1..Len(s) /\ DOMAIN t = 1..Len(t)
        /\ \A i \in 1..Len(s): (s \o t)[i] = s[i]
        /\ \A i \in 1..Len(t): (s \o t)[Len(s) + i] = t[i]
    OBVIOUS
  <2>2. ASSUME NEW i \in 1..(Len(s) + Len(t)) PROVE (s \o t)[i] \in Range(s) \union Range(t)
    <3>1. CASE i \in 1..Len(s)
      BY <2>1, <3>1 DEF Range
    <3>2. CASE i \notin 1..Len(s)
      <4>1. i - Len(s) \in 1..Len(t) /\ Len(s) + (i - Len(s)) = i
        BY <3>2
      <4> QED
        BY <2>1, <4>1 DEF Range
    <3> QED
      BY <3>1, <3>2
  <2>3. ASSUME NEW x \in Range(s) \union Range(t)
        PROVE  \E i \in 1..(Len(s) + Len(t)): x = (s \o t)[i]
    <3>1. CASE x \in Range(s)
      BY <2>1, <3>1 DEF Range
    <3>2. CASE x \in Range(t)
      <4>1. PICK i \in 1..Len(t): x = t[i]
        BY <2>1, <3>2 DEF Range
      <4>2. Len(s) + i \in 1..(Len(s) + Len(t))
        OBVIOUS
      <4> QED
        BY <2>1, <4>1, <4>2
    <3> QED
      BY <3>1, <3>2
  <2> QED
    BY <2>1, <2>2, <2>3 DEF Range
<1>4. ASSUME s # <<>>
      PROVE  /\ Head(s) \in Nat /\ Tail(s) \in Seq(Nat)
             /\ Range(s) = {Head(s)} \union Range(Tail(s))
  <2>1. /\ Head(s) = s[1] /\ Head(s) \in Nat /\ Tail(s) \in Seq(Nat)
        /\ DOMAIN s = 1..Len(s) /\ Len(s) > 0
        /\ DOMAIN Tail(s) = 1..(Len(s) - 1)
        /\ \A i \in 1..(Len(s) - 1): Tail(s)[i] = s[i + 1]
    BY <1>4
  <2>2. ASSUME NEW i \in 1..Len(s) PROVE s[i] \in {Head(s)} \union Range(Tail(s))
    <3>1. CASE i # 1
      <4>1. i - 1 \in 1..(Len(s) - 1) /\ (i - 1) + 1 = i
        BY <3>1
      <4> QED
        BY <2>1, <4>1 DEF Range
    <3> QED
      BY <2>1, <3>1
  <2>3. ASSUME NEW i \in 1..(Len(s) - 1) PROVE Tail(s)[i] \in Range(s)
    <3>1. i + 1 \in 1..Len(s)
      OBVIOUS
    <3> QED
      BY <2>1, <3>1 DEF Range
  <2>4. Head(s) \in Range(s)
    BY <2>1 DEF Range
  <2> QED
    BY <2>1, <2>2, <2>3, <2>4 DEF Range
<1> QED
  BY <1>1, <1>2, <1>3, <1>4

\* And to their order.
LEMMA Orders ==
  ASSUME NEW s \in Seq(Nat), NEW t \in Seq(Nat), NEW e \in Nat
  PROVE  /\ Increasing(<<>>)
         /\ Increasing(s) /\ Below(Range(s), {e}) => Increasing(Append(s, e))
         /\ Increasing(s) /\ Increasing(t) /\ Below(Range(s), Range(t))
              => Increasing(s \o t)
         /\ Increasing(s) /\ s # <<>>
              => Increasing(Tail(s)) /\ Below({Head(s)}, Range(Tail(s)))
<1> USE DEF Range, Increasing, Below
<1>1. Increasing(<<>>)
  OBVIOUS
<1>2. ASSUME Increasing(s), Below(Range(s), {e}) PROVE Increasing(Append(s, e))
  BY <1>2
<1>3. ASSUME Increasing(s), Increasing(t), Below(Range(s), Range(t))
      PROVE  Increasing(s \o t)
  <2>1. /\ DOMAIN (s \o t) = 1..(Len(s) + Len(t))
        /\ DOMAIN s = 1..Len(s) /\ DOMAIN t = 1..Len(t)
        /\ \A i \in 1..(Len(s) + Len(t)):
             (s \o t)[i] = IF i <= Len(s) THEN s[i] ELSE t[i - Len(s)]
    OBVIOUS
  <2>2. ASSUME NEW i \in 1..(Len(s) + Len(t)), NEW j \in 1..(Len(s) + Len(t)), i < j
        PROVE  (s \o t)[i] < (s \o t)[j]
    <3>1. CASE j <= Len(s)
      <4>1. i \in DOMAIN s /\ j \in DOMAIN s
        BY <2>1, <2>2, <3>1
      <4>2. (s \o t)[i] = s[i] /\ (s \o t)[j] = s[j]
        BY <2>1, <2>2, <3>1
      <4> QED
        BY <1>3, <2>2, <4>1, <4>2
    <3>2. CASE i > Len(s)
      <4>1. i - Len(s) \in 1..Len(t) /\ j - Len(s) \in 1..Len(t) /\ i - Len(s) < j - Len(s)
        BY <2>2, <3>2
      <4>2. (s \o t)[i] = t[i - Len(s)] /\ (s \o t)[j] = t[j - Len(s)]
        BY <2>1, <2>2, <3>2
      <4> QED
        BY <1>3, <2>1, <4>1, <4>2
    <3>3. CASE i <= Len(s) /\ j > Len(s)
      <4>1. i \in 1..Len(s) /\ j - Len(s) \in 1..Len(t)
        BY <2>2, <3>3
      <4>2. (s \o t)[i] = s[i] /\ (s \o t)[j] = t[j - Len(s)]
        BY <2>1, <2>2, <3>3
      <4> QED
        BY <1>3, <2>1, <4>1, <4>2
    <3> QED
      BY <3>1, <3>2, <3>3
  <2> QED
    BY <2>1, <2>2
<1>4. ASSUME Increasing(s), s # <<>>
      PROVE  Increasing(Tail(s)) /\ Below({Head(s)}, Range(Tail(s)))
  <2>1. /\ Head(s) = s[1] /\ DOMAIN s = 1..Len(s) /\ Len(s) > 0
        /\ DOMAIN Tail(s) = 1..(Len(s) - 1)
        /\ \A i \in 1..(Len(s) - 1): Tail(s)[i] = s[i + 1]
    BY <1>4
  <2>2. \A i \in 1..(Len(s) - 1): i + 1 \in 1..Len(s) /\ 1 < i + 1
    OBVIOUS
  <2>3. ASSUME NEW i \in 1..(Len(s) - 1), NEW j \in 1..(Len(s) - 1), i < j
        PROVE  Tail(s)[i] < Tail(s)[j]
    <3>1. i + 1 < j + 1
      BY <2>3
    <3> QED
      BY <1>4, <2>1, <2>2, <3>1
  <2>4. \A j \in 1..(Len(s) - 1): Head(s) < Tail(s)[j]
    <3>1. 1 \in 1..Len(s)
      BY <2>1
    <3> QED
      BY <1>4, <2>1, <2>2, <3>1
  <2> QED
    BY <2>1, <2>3, <2>4
<1> QED
  BY <1>1, <1>2, <1>3, <1>4

-----------------------------------------------------------------------------
(* Types                                                                   *)

\* The segments are a code path of the suite.
LEMMA Paths ==
  ASSUME work \in Workloads
  PROVE  /\ Segments \in Seq(SegmentType) /\ CodePath(Segments)
         /\ Len(Segments) \in Nat /\ DOMAIN Segments = 1..Len(Segments)
         /\ work.writes \in Nat /\ work.pauses \in Nat
  BY InterceptorAssumption DEF WorkloadType, Segments

\* Every pipe but p is as it was.
Others(p) ==
  /\ pipes' \in Seq(PipeType) /\ Len(pipes') = Len(pipes) /\ DOMAIN pipes' = DOMAIN pipes
  /\ \A q \in DOMAIN pipes: q # p => pipes'[q] = pipes[q]

Becomes(p, v) == p \in DOMAIN pipes /\ Others(p) /\ pipes'[p] = v

\* The pipe after a copy, after the content was sent, and after an error.
LEMMA PipeFields ==
  ASSUME NEW r \in PipeType
  PROVE  /\ Sent(r) \in PipeType /\ Sent(r).writers = r.writers /\ Sent(r).data = r.data
         /\ Sent(r).copier = r.copier /\ Sent(r).select = "sent"
         /\ Sent(r).bailout = r.bailout /\ Sent(r).broken = r.broken
         /\ r.data # <<>> =>
              /\ Head(r.data) \in Nat /\ Tail(r.data) \in Seq(Nat)
              /\ Copied(r) \in PipeType /\ Copied(r).writers = r.writers
              /\ Copied(r).data = Tail(r.data) /\ Copied(r).buf = Append(r.buf, Head(r.data))
              /\ Copied(r).copier = r.copier /\ Copied(r).select = r.select
              /\ Copied(r).bailout = r.bailout /\ Copied(r).broken = r.broken
              /\ Broken(r) \in PipeType /\ Broken(r).writers = r.writers
              /\ Broken(r).data = Tail(r.data) /\ Broken(r).buf = Append(r.buf, Head(r.data))
              /\ Broken(r).copier = "finished" /\ Broken(r).select = r.select
              /\ Broken(r).bailout = r.bailout /\ Broken(r).broken
<1>1. r.data \in Seq(Nat) /\ r.buf \in Seq(Nat)
  BY DEF PipeType
<1>2. ASSUME NEW b \in Seq(Nat), NEW s, s = [r EXCEPT !.select = "sent", !.buf = b]
      PROVE  /\ s \in PipeType /\ s.writers = r.writers /\ s.data = r.data
             /\ s.copier = r.copier /\ s.select = "sent"
             /\ s.bailout = r.bailout /\ s.broken = r.broken
  BY <1>2 DEF PipeType
<1>4. ASSUME NEW u \in PipeType, NEW s, s = [u EXCEPT !.copier = "finished", !.broken = TRUE]
      PROVE  /\ s \in PipeType /\ s.writers = u.writers
             /\ s.data = u.data /\ s.buf = u.buf
             /\ s.copier = "finished" /\ s.select = u.select
             /\ s.bailout = u.bailout /\ s.broken
  BY <1>4 DEF PipeType
<1>5. ASSUME r.data # <<>>
      PROVE  /\ Head(r.data) \in Nat /\ Tail(r.data) \in Seq(Nat)
             /\ Append(r.buf, Head(r.data)) \in Seq(Nat)
  BY <1>1, <1>5
<1>6. (IF r.bailout THEN r.buf ELSE <<>>) \in Seq(Nat)
  BY <1>1
<1>7. /\ Sent(r) \in PipeType /\ Sent(r).writers = r.writers /\ Sent(r).data = r.data
      /\ Sent(r).copier = r.copier /\ Sent(r).select = "sent"
      /\ Sent(r).bailout = r.bailout /\ Sent(r).broken = r.broken
  <2>1. PICK b \in Seq(Nat): b = IF r.bailout THEN r.buf ELSE <<>>
    BY <1>6
  <2>2. Sent(r) = [r EXCEPT !.select = "sent", !.buf = b]
    BY <2>1 DEF Sent
  <2> HIDE <2>1
  <2> QED
    BY <1>2, <2>2
<1>8. ASSUME r.data # <<>>
      PROVE  /\ Copied(r) \in PipeType /\ Copied(r).writers = r.writers
             /\ Copied(r).data = Tail(r.data) /\ Copied(r).buf = Append(r.buf, Head(r.data))
             /\ Copied(r).copier = r.copier /\ Copied(r).select = r.select
             /\ Copied(r).bailout = r.bailout /\ Copied(r).broken = r.broken
  <2>1. PICK d \in Seq(Nat), b \in Seq(Nat): d = Tail(r.data) /\ b = Append(r.buf, Head(r.data))
    BY <1>5, <1>8
  <2>2. Copied(r) = [r EXCEPT !.data = d, !.buf = b]
    BY <2>1 DEF Copied
  <2>3. /\ Copied(r) \in PipeType /\ Copied(r).writers = r.writers
        /\ Copied(r).data = d /\ Copied(r).buf = b
        /\ Copied(r).copier = r.copier /\ Copied(r).select = r.select
        /\ Copied(r).bailout = r.bailout /\ Copied(r).broken = r.broken
    BY <2>2 DEF PipeType
  <2> QED
    BY <2>1, <2>3
<1>9. ASSUME r.data # <<>>
      PROVE  /\ Broken(r) \in PipeType /\ Broken(r).writers = r.writers
             /\ Broken(r).data = Tail(r.data) /\ Broken(r).buf = Append(r.buf, Head(r.data))
             /\ Broken(r).copier = "finished" /\ Broken(r).select = r.select
             /\ Broken(r).bailout = r.bailout /\ Broken(r).broken
  <2>1. PICK u \in PipeType: u = Copied(r)
    BY <1>8, <1>9
  <2>2. Broken(r) = [u EXCEPT !.copier = "finished", !.broken = TRUE]
    BY <2>1 DEF Broken
  <2>3. /\ Broken(r) \in PipeType /\ Broken(r).writers = u.writers
        /\ Broken(r).data = u.data /\ Broken(r).buf = u.buf
        /\ Broken(r).copier = "finished" /\ Broken(r).select = u.select
        /\ Broken(r).bailout = u.bailout /\ Broken(r).broken
    BY <1>4, <2>2
  <2> QED
    BY <1>8, <1>9, <2>1, <2>3
<1> QED
  BY <1>5, <1>7, <1>8, <1>9

\* A pipe is replaced by another.
LEMMA Replaced ==
  ASSUME pipes \in Seq(PipeType), NEW p \in DOMAIN pipes, NEW v \in PipeType,
         pipes' = [pipes EXCEPT ![p] = v]
  PROVE  Becomes(p, v)
  BY DEF Becomes, Others

\* The types of the pipes that there are.
LEMMA PipesTyped ==
  ASSUME TypeOK
  PROVE  /\ pipes \in Seq(PipeType) /\ Len(pipes) \in Nat /\ DOMAIN pipes = 1..Len(pipes)
         /\ \A p \in DOMAIN pipes:
              /\ pipes[p] \in PipeType
              /\ pipes[p].writers \in SUBSET {"writer", "fd", "child"}
              /\ pipes[p].data \in Seq(Nat) /\ pipes[p].buf \in Seq(Nat)
              /\ pipes[p].copier \in {"copy", "finished"}
              /\ pipes[p].select \in {"wait", "content", "empty", "sent"}
              /\ pipes[p].bailout \in BOOLEAN /\ pipes[p].broken \in BOOLEAN
<1>1. /\ pipes \in Seq(PipeType) /\ Len(pipes) \in Nat /\ DOMAIN pipes = 1..Len(pipes)
      /\ \A p \in DOMAIN pipes: pipes[p] \in PipeType
  BY DEF TypeOK, PipesOK
<1>2. \A r \in PipeType: /\ r.writers \in SUBSET {"writer", "fd", "child"}
                         /\ r.data \in Seq(Nat) /\ r.buf \in Seq(Nat)
                         /\ r.copier \in {"copy", "finished"}
                         /\ r.select \in {"wait", "content", "empty", "sent"}
                         /\ r.bailout \in BOOLEAN /\ r.broken \in BOOLEAN
  BY DEF PipeType
<1> QED
  BY <1>1, <1>2

\* What the steps do to the pipes.
LEMMA Effects ==
  ASSUME TypeOK, Shape
  PROVE  /\ ConnectPipeToStdoutStderr =>
              /\ Pipe \in DOMAIN pipes
              /\ IF impl = "dup"
                 THEN Becomes(Pipe, [pipes[Pipe] EXCEPT !.writers = @ \union {"fd"}])
                 ELSE UNCHANGED pipes
         /\ CloseWriter => Becomes(Pipe, [pipes[Pipe] EXCEPT !.writers = @ \ {"writer"}])
         /\ RestoreStdoutStderrFromClones =>
              Becomes(Pipe, [pipes[Pipe] EXCEPT !.writers = @ \ {"fd"}])
         /\ Bailout => Becomes(Pipe, [pipes[Pipe] EXCEPT !.bailout = TRUE])
         /\ \A p \in DOMAIN pipes: ReceiveContent(p) =>
              Becomes(p, Sent(pipes[p]))
         /\ \A p \in DOMAIN pipes: Copy(p) =>
              Becomes(p, Copied(pipes[p]))
         /\ \A p \in DOMAIN pipes: CopyFinished(p) =>
              Becomes(p, [pipes[p] EXCEPT !.copier = "finished"])
         /\ \A p \in DOMAIN pipes: ForwardFails(p) =>
              \/ UNCHANGED pipes /\ pc' = "killed"
              \/ /\ Becomes(p, Broken(pipes[p]))
                 /\ OnlyPipes
         /\ \A p \in DOMAIN pipes: Select(p) =>
              \/ pipes[p].copier = "finished" /\ Becomes(p, [pipes[p] EXCEPT !.select = "content"])
              \/ pipes[p].bailout /\ Becomes(p, [pipes[p] EXCEPT !.select = "empty"])
         /\ StartChild => IF stdout = Console THEN UNCHANGED pipes
                          ELSE Becomes(stdout, [pipes[stdout] EXCEPT !.writers = @ \union {"child"}])
         /\ ChildExits => IF child = Console THEN UNCHANGED pipes
                          ELSE Becomes(child, [pipes[child] EXCEPT !.writers = @ \ {"child"}])
<1>0. /\ pipes \in Seq(PipeType) /\ Len(pipes) \in Nat /\ DOMAIN pipes = 1..Len(pipes)
      /\ \A p \in DOMAIN pipes: pipes[p] \in PipeType
      /\ Live => Pipe \in DOMAIN pipes
  BY DEF TypeOK, PipesOK, Shape, Pipe
<1>1. \A p \in DOMAIN pipes:
        /\ pipes[p].data \in Seq(Nat) /\ pipes[p].buf \in Seq(Nat)
        /\ pipes[p].writers \in SUBSET {"writer", "fd", "child"}
  BY <1>0 DEF PipeType
<1>2. \A r \in PipeType:
        /\ \A w \in SUBSET {"writer", "fd", "child"}: [r EXCEPT !.writers = w] \in PipeType
        /\ [r EXCEPT !.copier = "finished"] \in PipeType
        /\ \A c \in {"content", "empty"}: [r EXCEPT !.select = c] \in PipeType
        /\ [r EXCEPT !.bailout = TRUE] \in PipeType
  BY DEF PipeType
<1>3. \A r \in PipeType:
        Sent(r) \in PipeType /\ (r.data # <<>> => Copied(r) \in PipeType /\ Broken(r) \in PipeType)
  BY PipeFields
<1>20. ASSUME ConnectPipeToStdoutStderr
       PROVE  /\ Pipe \in DOMAIN pipes
              /\ IF impl = "dup"
                 THEN Becomes(Pipe, [pipes[Pipe] EXCEPT !.writers = @ \union {"fd"}])
                 ELSE UNCHANGED pipes
  <2>1. Pipe \in DOMAIN pipes
    BY <1>0, <1>20 DEF ConnectPipeToStdoutStderr, Shape, Live
  <2>2. CASE impl = "dup"
    <3> DEFINE v == [pipes[Pipe] EXCEPT !.writers = @ \union {"fd"}]
    <3>1. v \in PipeType
      BY <1>0, <1>1, <1>2, <2>1
    <3>2. pipes' = [pipes EXCEPT ![Pipe] = v]
      BY <1>20, <2>2 DEF ConnectPipeToStdoutStderr
    <3> HIDE DEF v
    <3>3. Becomes(Pipe, v)
      BY <1>0, <2>1, <3>1, <3>2, Replaced
    <3> QED
      BY <2>1, <2>2, <3>3 DEF v
  <2>3. CASE impl # "dup"
    BY <1>20, <2>1, <2>3 DEF ConnectPipeToStdoutStderr
  <2> QED
    BY <2>2, <2>3
<1>21. ASSUME CloseWriter
       PROVE  Becomes(Pipe, [pipes[Pipe] EXCEPT !.writers = @ \ {"writer"}])
  <2> DEFINE v == [pipes[Pipe] EXCEPT !.writers = @ \ {"writer"}]
  <2>1. Pipe \in DOMAIN pipes
    BY <1>0, <1>21 DEF CloseWriter, Shape, Live, Pausing
  <2>2. v \in PipeType
    BY <1>0, <1>1, <1>2, <1>3, <1>21, <2>1
  <2>3. pipes' = [pipes EXCEPT ![Pipe] = v]
    BY <1>21 DEF CloseWriter
  <2> HIDE DEF v
  <2>4. Becomes(Pipe, v)
    BY <1>0, <2>1, <2>2, <2>3, Replaced
  <2> QED
    BY <2>4 DEF v
<1>22. ASSUME RestoreStdoutStderrFromClones
       PROVE  Becomes(Pipe, [pipes[Pipe] EXCEPT !.writers = @ \ {"fd"}])
  <2> DEFINE v == [pipes[Pipe] EXCEPT !.writers = @ \ {"fd"}]
  <2>1. Pipe \in DOMAIN pipes
    BY <1>0, <1>22 DEF RestoreStdoutStderrFromClones, Shape, Live, Pausing
  <2>2. v \in PipeType
    BY <1>0, <1>1, <1>2, <1>3, <1>22, <2>1
  <2>3. pipes' = [pipes EXCEPT ![Pipe] = v]
    BY <1>22 DEF RestoreStdoutStderrFromClones
  <2> HIDE DEF v
  <2>4. Becomes(Pipe, v)
    BY <1>0, <2>1, <2>2, <2>3, Replaced
  <2> QED
    BY <2>4 DEF v
<1>23. ASSUME Bailout
       PROVE  Becomes(Pipe, [pipes[Pipe] EXCEPT !.bailout = TRUE])
  <2> DEFINE v == [pipes[Pipe] EXCEPT !.bailout = TRUE]
  <2>1. Pipe \in DOMAIN pipes
    BY <1>0, <1>23 DEF Bailout, Shape, Live, Pausing
  <2>2. v \in PipeType
    BY <1>0, <1>1, <1>2, <1>3, <1>23, <2>1
  <2>3. pipes' = [pipes EXCEPT ![Pipe] = v]
    BY <1>23 DEF Bailout
  <2> HIDE DEF v
  <2>4. Becomes(Pipe, v)
    BY <1>0, <2>1, <2>2, <2>3, Replaced
  <2> QED
    BY <2>4 DEF v
<1>24. ASSUME NEW p \in DOMAIN pipes, ReceiveContent(p)
       PROVE  Becomes(p, Sent(pipes[p]))
  <2> DEFINE v == Sent(pipes[p])
  <2>1. p \in DOMAIN pipes
    BY <1>0, <1>24 DEF ReceiveContent
  <2>2. v \in PipeType
    BY <1>0, <1>1, <1>2, <1>3, <1>24, <2>1
  <2>3. pipes' = [pipes EXCEPT ![p] = v]
    BY <1>24 DEF ReceiveContent
  <2> HIDE DEF v
  <2>4. Becomes(p, v)
    BY <1>0, <2>1, <2>2, <2>3, Replaced
  <2> QED
    BY <2>4 DEF v
<1>25. ASSUME NEW p \in DOMAIN pipes, Copy(p)
       PROVE  Becomes(p, Copied(pipes[p]))
  <2> DEFINE v == Copied(pipes[p])
  <2>1. p \in DOMAIN pipes
    BY <1>0, <1>25 DEF Copy
  <2>2. v \in PipeType
    BY <1>0, <1>1, <1>2, <1>3, <1>25, <2>1 DEF Copy
  <2>3. pipes' = [pipes EXCEPT ![p] = v]
    BY <1>25 DEF Copy
  <2> HIDE DEF v
  <2>4. Becomes(p, v)
    BY <1>0, <2>1, <2>2, <2>3, Replaced
  <2> QED
    BY <2>4 DEF v
<1>26. ASSUME NEW p \in DOMAIN pipes, CopyFinished(p)
       PROVE  Becomes(p, [pipes[p] EXCEPT !.copier = "finished"])
  <2> DEFINE v == [pipes[p] EXCEPT !.copier = "finished"]
  <2>1. p \in DOMAIN pipes
    BY <1>0, <1>26 DEF CopyFinished
  <2>2. v \in PipeType
    BY <1>0, <1>1, <1>2, <1>3, <1>26, <2>1
  <2>3. pipes' = [pipes EXCEPT ![p] = v]
    BY <1>26 DEF CopyFinished
  <2> HIDE DEF v
  <2>4. Becomes(p, v)
    BY <1>0, <2>1, <2>2, <2>3, Replaced
  <2> QED
    BY <2>4 DEF v
<1>27. ASSUME NEW p \in DOMAIN pipes, ForwardFails(p), ~(UNCHANGED pipes /\ pc' = "killed")
       PROVE  Becomes(p, Broken(pipes[p]))
  <2> DEFINE v == Broken(pipes[p])
  <2>1. p \in DOMAIN pipes
    BY <1>0, <1>27 DEF ForwardFails
  <2>2. v \in PipeType
    BY <1>0, <1>1, <1>2, <1>3, <1>27, <2>1 DEF ForwardFails
  <2>3. pipes' = [pipes EXCEPT ![p] = v]
    BY <1>27 DEF ForwardFails
  <2> HIDE DEF v
  <2>4. Becomes(p, v)
    BY <1>0, <2>1, <2>2, <2>3, Replaced
  <2> QED
    BY <2>4 DEF v
<1>28. ASSUME NEW p \in DOMAIN pipes,
              pipes' = [pipes EXCEPT ![p].select = "content"]
       PROVE  Becomes(p, [pipes[p] EXCEPT !.select = "content"])
  <2> DEFINE v == [pipes[p] EXCEPT !.select = "content"]
  <2>1. p \in DOMAIN pipes
    BY <1>0, <1>28 
  <2>2. v \in PipeType
    BY <1>0, <1>1, <1>2, <1>3, <1>28, <2>1
  <2>3. pipes' = [pipes EXCEPT ![p] = v]
    BY <1>28 
  <2> HIDE DEF v
  <2>4. Becomes(p, v)
    BY <1>0, <2>1, <2>2, <2>3, Replaced
  <2> QED
    BY <2>4 DEF v
<1>29. ASSUME NEW p \in DOMAIN pipes,
              pipes' = [pipes EXCEPT ![p].select = "empty"]
       PROVE  Becomes(p, [pipes[p] EXCEPT !.select = "empty"])
  <2> DEFINE v == [pipes[p] EXCEPT !.select = "empty"]
  <2>1. p \in DOMAIN pipes
    BY <1>0, <1>29 
  <2>2. v \in PipeType
    BY <1>0, <1>1, <1>2, <1>3, <1>29, <2>1
  <2>3. pipes' = [pipes EXCEPT ![p] = v]
    BY <1>29 
  <2> HIDE DEF v
  <2>4. Becomes(p, v)
    BY <1>0, <2>1, <2>2, <2>3, Replaced
  <2> QED
    BY <2>4 DEF v
<1>30. ASSUME StartChild, stdout # Console
       PROVE  Becomes(stdout, [pipes[stdout] EXCEPT !.writers = @ \union {"child"}])
  <2> DEFINE v == [pipes[stdout] EXCEPT !.writers = @ \union {"child"}]
  <2>1. stdout \in DOMAIN pipes
    BY <1>0, <1>30 DEF StartChild, PipesOK, TypeOK, Console
  <2>2. v \in PipeType
    BY <1>0, <1>1, <1>2, <1>3, <1>30, <2>1
  <2>3. pipes' = [pipes EXCEPT ![stdout] = v]
    BY <1>30 DEF StartChild
  <2> HIDE DEF v
  <2>4. Becomes(stdout, v)
    BY <1>0, <2>1, <2>2, <2>3, Replaced
  <2> QED
    BY <2>4 DEF v
<1>31. ASSUME ChildExits, child # Console
       PROVE  Becomes(child, [pipes[child] EXCEPT !.writers = @ \ {"child"}])
  <2> DEFINE v == [pipes[child] EXCEPT !.writers = @ \ {"child"}]
  <2>1. child \in DOMAIN pipes
    BY <1>0, <1>31 DEF ChildExits, PipesOK, TypeOK, Console, Nothing, Exited
  <2>2. v \in PipeType
    BY <1>0, <1>1, <1>2, <1>3, <1>31, <2>1
  <2>3. pipes' = [pipes EXCEPT ![child] = v]
    BY <1>31 DEF ChildExits
  <2> HIDE DEF v
  <2>4. Becomes(child, v)
    BY <1>0, <2>1, <2>2, <2>3, Replaced
  <2> QED
    BY <2>4 DEF v
<1> QED
  BY <1>20, <1>21, <1>22, <1>23, <1>24, <1>25, <1>26, <1>27, <1>28, <1>29, <1>30, <1>31
     DEF ForwardFails, Select, StartChild, ChildExits

\* ... and what a write does, at q, where this writer's stdout is.
StdoutOf(by) == IF by = "child" THEN child ELSE stdout
Writer(by)   == by \in {"body", "leaked", "child"} /\ (by = "child" => child \notin {Nothing, Exited})

\* A write goes to the console, is lost, or is appended to the pipe.
LEMMA WriteEffects ==
  ASSUME TypeOK, Shape, NEW by, Writer(by), WriteStdout(by)
  PROVE  /\ StdoutOf(by) \in 0..Len(pipes)
         /\ \/ UNCHANGED pipes /\ Record(by, StdoutOf(by)) /\ StdoutOf(by) = Console
            \/ UNCHANGED pipes /\ Record(by, Nothing)
            \/ /\ Record(by, StdoutOf(by))
               /\ StdoutOf(by) \in DOMAIN pipes
               /\ pipes[StdoutOf(by)].copier = "copy"
               /\ "writer" \notin pipes[StdoutOf(by)].writers => by = "child" \/ impl = "dup"
               /\ Becomes(StdoutOf(by),
                          [pipes[StdoutOf(by)] EXCEPT !.data = Append(@, Len(wrote) + 1)])
<1>1. /\ pipes \in Seq(PipeType) /\ Len(pipes) \in Nat /\ DOMAIN pipes = 1..Len(pipes)
      /\ \A p \in DOMAIN pipes: pipes[p] \in PipeType
      /\ Len(wrote) \in Nat
  BY DEF TypeOK, PipesOK, OutputOK
<1>2. StdoutOf(by) \in 0..Len(pipes)
  BY DEF StdoutOf, Writer, TypeOK, PipesOK
<1>3. PICK q \in 0..Len(pipes): q = StdoutOf(by)
  BY <1>2
<1>4. ASSUME q # Console, pipes' = [pipes EXCEPT ![q].data = Append(@, Len(wrote) + 1)]
      PROVE  q \in DOMAIN pipes /\ Becomes(q, [pipes[q] EXCEPT !.data = Append(@, Len(wrote) + 1)])
  <2>1. q \in DOMAIN pipes
    BY <1>1, <1>4 DEF Console
  <2>2. PICK d \in Seq(Nat): d = Append(pipes[q].data, Len(wrote) + 1)
    <3>1. pipes[q].data \in Seq(Nat) /\ Len(wrote) + 1 \in Nat
      BY <1>1, <2>1 DEF PipeType
    <3>2. Append(pipes[q].data, Len(wrote) + 1) \in Seq(Nat)
      BY <3>1
    <3> QED
      BY <3>2
  <2>3. PICK v: v = [pipes[q] EXCEPT !.data = d]
    OBVIOUS
  <2>4. v \in PipeType
    BY <1>1, <2>1, <2>3 DEF PipeType
  <2>5. pipes' = [pipes EXCEPT ![q] = v]
    BY <1>4, <2>2, <2>3
  <2>6. Becomes(q, v)
    BY <1>1, <2>1, <2>4, <2>5, Replaced
  <2> QED
    BY <2>1, <2>2, <2>3, <2>6
<1>5. \A p \in DOMAIN pipes: pipes[p].copier \in {"copy", "finished"}
  BY <1>1 DEF PipeType
<1>6. \/ UNCHANGED pipes /\ Record(by, q) /\ q = Console
      \/ UNCHANGED pipes /\ Record(by, Nothing)
      \/ /\ Record(by, q) /\ q # Console
         /\ pipes[q].copier # "finished"
         /\ "writer" \notin pipes[q].writers => by = "child" \/ impl = "dup"
         /\ pipes' = [pipes EXCEPT ![q].data = Append(@, Len(wrote) + 1)]
  BY <1>3 DEF WriteStdout, StdoutOf, Console, TypeOK, ControlOK, Impls
<1> QED
  BY <1>2, <1>3, <1>4, <1>5, <1>6

-----------------------------------------------------------------------------
(* Types, and the shape of an interception                                 *)

\* No step changes the workload or the implementation.
LEMMA Unchanged ==
  ASSUME [Next]_vars
  PROVE  UNCHANGED <<work, impl, Segments, Specs>>
<1>1. UNCHANGED <<work, impl>>
  BY DEF Next, vars, fixed, Calls, Receive, Goroutines, Faults, BodyWrites, LeakedWrites,
         ChildWrites, Done, StartIntercepting, StopIntercepting, ReturnEarly, Shutdown, TakePipe,
         ConnectPipeToStdoutStderr, CloseWriter, RestoreStdoutStderrFromClones, Bailout,
         ReceiveContent, Stopped, ShutdownClones, Copy, CopyFinished, Select, ForwardFails,
         OnlyPipes, PauseOutputInterception, ResumeOutputInterception, WriteStdout,
         WriteGinkgoWriter, StartChild, ChildExits
<1> QED
  BY <1>1 DEF Segments, Specs

\* The control state: the suite goes through the segments one by one.
LEMMA StepControl ==
  ASSUME TypeOK, [Next]_vars
  PROVE  ControlOK'
<1> USE DEF self, caller, OnlyPipes
<1>0. /\ UNCHANGED <<work, impl, Segments>>
      /\ Segments \in Seq(SegmentType) /\ Len(Segments) \in Nat
      /\ \A i \in 1..Len(Segments): Segments[i].forward \in BOOLEAN
  <2>1. Segments \in Seq(SegmentType) /\ Len(Segments) \in Nat
    BY Paths DEF TypeOK, ControlOK
  <2>2. \A s \in SegmentType: s.forward \in BOOLEAN
    BY DEF SegmentType
  <2> QED
    BY <2>1, <2>2, Unchanged
<1>1. /\ work \in Workloads /\ impl \in Impls
      /\ seg \in Nat \ {0} /\ (InSegment => seg <= Len(Segments))
      /\ seg <= Len(Segments) + 1
      /\ pc \in PCs /\ ret \in {"body", "stopped", "shutdown"} /\ pauses \in Nat
      /\ intercepting \in BOOLEAN /\ clones \in BOOLEAN /\ factory \in BOOLEAN
      /\ forwardTo \in BOOLEAN
  BY DEF TypeOK, ControlOK
<1>2. CASE StartIntercepting
  <2>1. seg \in 1..Len(Segments) /\ forwardTo' \in BOOLEAN
    BY <1>0, <1>1, <1>2 DEF StartIntercepting, Segment
  <2> QED
    BY <1>0, <1>1, <1>2, <2>1
       DEF ControlOK, InSegment, Pausing, PCs, StartIntercepting, ResumeIntercepting
<1>3. CASE StopIntercepting \/ Shutdown \/ PauseOutputInterception
  BY <1>0, <1>1, <1>3 DEF ControlOK, InSegment, Pausing, PCs, StopIntercepting, Shutdown, PauseOutputInterception, Pause
<1>4. CASE ReturnEarly \/ Stopped
  BY <1>0, <1>1, <1>4 DEF ControlOK, InSegment, Pausing, PCs, ReturnEarly, Stopped
<1>5. CASE TakePipe \/ ConnectPipeToStdoutStderr
  BY <1>0, <1>1, <1>5 DEF ControlOK, InSegment, Pausing, PCs, TakePipe, ConnectPipeToStdoutStderr
<1>6. CASE CloseWriter \/ RestoreStdoutStderrFromClones \/ Bailout
  BY <1>0, <1>1, <1>6 DEF ControlOK, InSegment, Pausing, PCs, CloseWriter, RestoreStdoutStderrFromClones, Bailout
<1>7. CASE Receive
  BY <1>0, <1>1, <1>7 DEF ControlOK, InSegment, Pausing, PCs, Receive, ReceiveContent
<1>8. CASE ShutdownClones
  BY <1>0, <1>1, <1>8 DEF ControlOK, InSegment, Pausing, PCs, ShutdownClones
<1>9. CASE Goroutines \/ Faults
  BY <1>0, <1>1, <1>9 DEF ControlOK, InSegment, Pausing, PCs, Goroutines, Faults, Copy, CopyFinished, Select, ForwardFails
<1>10. CASE ResumeOutputInterception
  BY <1>0, <1>1, <1>10 DEF ControlOK, InSegment, Pausing, PCs, ResumeOutputInterception, ResumeIntercepting
<1>11. CASE BodyWrites \/ LeakedWrites \/ ChildWrites
  BY <1>0, <1>1, <1>11 DEF ControlOK, InSegment, Pausing, PCs, BodyWrites, LeakedWrites, ChildWrites, WriteStdout, WriteGinkgoWriter
<1>12. CASE StartChild \/ ChildExits
  BY <1>0, <1>1, <1>12 DEF ControlOK, InSegment, Pausing, PCs, StartChild, ChildExits
<1>13. CASE UNCHANGED vars
  BY <1>0, <1>1, <1>13 DEF ControlOK, InSegment, Pausing, PCs, vars
<1> QED
  BY <1>2, <1>3, <1>4, <1>5, <1>6, <1>7, <1>8, <1>9, <1>10, <1>11, <1>12, <1>13
     DEF Next, Calls, Done

\* The pipes, and what stdout and the child's output may be.
LEMMA StepPipes ==
  ASSUME TypeOK, Shape, [Next]_vars
  PROVE  PipesOK'
<1> USE DEF self, caller, OnlyPipes
<1>0. /\ pipes \in Seq(PipeType) /\ Len(pipes) \in Nat /\ DOMAIN pipes = 1..Len(pipes)
      /\ stdout \in 0..Len(pipes) /\ child \in {Nothing, Exited} \union 0..Len(pipes)
      /\ forwardTo \in BOOLEAN
  BY DEF TypeOK, ControlOK, PipesOK
<1>1. CASE TakePipe
  <2>1. NewPipe \in PipeType
    BY <1>0 DEF NewPipe, PipeType
  <2>2. pipes' \in Seq(PipeType) /\ Len(pipes') = Len(pipes) + 1
    BY <1>0, <1>1, <2>1 DEF TakePipe
  <2> QED
    BY <1>0, <1>1, <2>2 DEF TakePipe, PipesOK
<1>2. CASE ConnectPipeToStdoutStderr
  <2>1. pipes' \in Seq(PipeType) /\ Len(pipes') = Len(pipes)
    BY <1>0, <1>2, Effects DEF Becomes, Others
  <2> QED
    BY <1>0, <1>2, <2>1 DEF ConnectPipeToStdoutStderr, PipesOK, Pipe
<1>3. CASE CloseWriter \/ Bailout
  <2>1. pipes' \in Seq(PipeType) /\ Len(pipes') = Len(pipes)
    BY <1>0, <1>3, Effects DEF Becomes, Others
  <2> QED
    BY <1>0, <1>3, <2>1 DEF CloseWriter, Bailout, PipesOK
<1>4. CASE RestoreStdoutStderrFromClones
  <2>1. pipes' \in Seq(PipeType) /\ Len(pipes') = Len(pipes)
    BY <1>0, <1>4, Effects DEF Becomes, Others
  <2> QED
    BY <1>0, <1>4, <2>1 DEF RestoreStdoutStderrFromClones, PipesOK, Console
<1>5. CASE Receive \/ Goroutines \/ Faults
  <2>1. pipes' \in Seq(PipeType) /\ Len(pipes') = Len(pipes)
    BY <1>0, <1>5, Effects DEF Becomes, Others, Receive, Goroutines, Faults
  <2> QED
    BY <1>0, <1>5, <2>1 DEF Receive, Goroutines, Faults, ReceiveContent, Copy, CopyFinished,
                            Select, ForwardFails, PipesOK
<1>6. CASE StartChild \/ ChildExits
  <2>1. pipes' \in Seq(PipeType) /\ Len(pipes') = Len(pipes)
    BY <1>0, <1>6, Effects DEF Becomes, Others
  <2> QED
    BY <1>0, <1>6, <2>1 DEF StartChild, ChildExits, PipesOK, Exited
<1>7. ASSUME NEW by, Writer(by), WriteStdout(by) PROVE PipesOK'
  <2>1. pipes' \in Seq(PipeType) /\ Len(pipes') = Len(pipes)
    BY <1>0, <1>7, WriteEffects DEF Becomes, Others
  <2> QED
    BY <1>0, <1>7, <2>1 DEF WriteStdout, PipesOK
<1>8. CASE UNCHANGED <<pipes, stdout, child>>
  BY <1>8 DEF TypeOK, PipesOK
<1> QED
  BY <1>1, <1>2, <1>3, <1>4, <1>5, <1>6, <1>7, <1>8
     DEF Next, Calls, StartIntercepting, StopIntercepting, ReturnEarly, Shutdown, Stopped,
         ShutdownClones, PauseOutputInterception, ResumeOutputInterception, BodyWrites,
         LeakedWrites, ChildWrites, WriteGinkgoWriter, Writer, Done, vars

\* The output.
LEMMA StepOutput ==
  ASSUME TypeOK, [Next]_vars
  PROVE  OutputOK'
<1> USE DEF self, caller, OnlyPipes
<1>0. /\ Specs' = Specs /\ accumulatedOutput \in Seq(Nat) /\ buffer \in Seq(Nat)
      /\ report \in [Specs -> [out: Seq(Nat), gw: Seq(Nat)]]
      /\ wrote \in Seq(WriteType) /\ Len(wrote) \in Nat /\ seg \in Nat
  <2>1. Specs' = Specs
    BY Unchanged
  <2> QED
    BY <2>1 DEF TypeOK, ControlOK, OutputOK
<1>10. \A p \in DOMAIN pipes: pipes[p].buf \in Seq(Nat)
  BY PipesTyped
<1>11. <<>> \in Seq(Nat) /\ \A s \in Seq(Nat), u \in Seq(Nat): s \o u \in Seq(Nat)
  OBVIOUS
<1>1. CASE StartIntercepting
  <2>1. accumulatedOutput' \in Seq(Nat) /\ buffer' \in Seq(Nat)
    BY <1>0, <1>11, <1>1 DEF StartIntercepting, Truncate
  <2> QED
    BY <1>0, <1>1, <2>1 DEF StartIntercepting, OutputOK
<1>2. ASSUME NEW p \in DOMAIN pipes, ReceiveContent(p) PROVE OutputOK'
  <2>1. accumulatedOutput' \in Seq(Nat)
    BY <1>0, <1>10, <1>11, <1>2 DEF ReceiveContent
  <2> QED
    BY <1>0, <1>2, <2>1 DEF ReceiveContent, OutputOK
<1>3. CASE Stopped
  <2>1. Segment.spec \in Specs
    <3>1. seg \in DOMAIN Segments
      BY <1>3, Paths DEF Stopped, TypeOK, ControlOK, InSegment
    <3> QED
      BY <3>1 DEF Segment, Specs
  <2>2. PICK x \in Specs: x = Segment.spec
    BY <2>1
  <2>3. report[x].out \in Seq(Nat) /\ report[x].gw \in Seq(Nat)
    BY <1>0
  <2>4. PICK out \in Seq(Nat): out = report[x].out \o (IF Segment.keep THEN accumulatedOutput ELSE <<>>)
    BY <1>0, <1>11, <2>3
  <2>5. PICK gw \in Seq(Nat): gw = report[x].gw \o (IF Segment.closes THEN buffer ELSE <<>>)
    BY <1>0, <1>11, <2>3
  <2>6. report' = [report EXCEPT ![x] = [out |-> out, gw |-> gw]]
    BY <1>3, <2>2, <2>4, <2>5 DEF Stopped
  <2>7. report' \in [Specs -> [out: Seq(Nat), gw: Seq(Nat)]]
    BY <1>0, <2>6
  <2> QED
    BY <1>0, <1>3, <2>7 DEF Stopped, OutputOK
<1>4. ASSUME NEW by, Writer(by), WriteStdout(by) \/ WriteGinkgoWriter(by) PROVE OutputOK'
  <2>1. \A to \in Int: Record(by, to) => wrote' \in Seq(WriteType)
    BY <1>0, <1>4 DEF Record, Writer, WriteType
  <2>2. StdoutOf(by) \in Int /\ Nothing \in Int /\ GinkgoWriter \in Int
    BY <1>4 DEF StdoutOf, Writer, TypeOK, PipesOK, Nothing, GinkgoWriter
  <2>3. wrote' \in Seq(WriteType)
    BY <1>4, <2>1, <2>2 DEF WriteStdout, WriteGinkgoWriter, StdoutOf
  <2>4. buffer' \in Seq(Nat)
    <3>1. \A s \in Seq(Nat), n \in Nat: Append(s, n + 1) \in Seq(Nat)
      OBVIOUS
    <3> QED
      BY <1>0, <1>4, <3>1 DEF WriteStdout, WriteGinkgoWriter
  <2> QED
    BY <1>0, <1>4, <2>3, <2>4 DEF WriteStdout, WriteGinkgoWriter, OutputOK
<1>5. CASE UNCHANGED <<accumulatedOutput, buffer, report, wrote>>
  BY <1>0, <1>5 DEF OutputOK
<1> QED
  BY <1>1, <1>2, <1>3, <1>4, <1>5
     DEF Next, Calls, Receive, Goroutines, Faults, StopIntercepting, ReturnEarly, Shutdown,
         TakePipe, ConnectPipeToStdoutStderr, CloseWriter, RestoreStdoutStderrFromClones, Bailout,
         Copy, CopyFinished, Select, ForwardFails,
         ShutdownClones, PauseOutputInterception, ResumeOutputInterception, BodyWrites,
         LeakedWrites, ChildWrites, StartChild, ChildExits, Writer, Done, vars

\* The shape of an interception.
LEMMA StepShape ==
  ASSUME TypeOK, Shape, [Next]_vars
  PROVE  Shape'
<1> USE DEF self, caller, OnlyPipes
<1>0. /\ pipes \in Seq(PipeType) /\ Len(pipes) \in Nat /\ DOMAIN pipes = 1..Len(pipes)
      /\ \A p \in DOMAIN pipes: pipes[p] \in PipeType
      /\ stdout \in 0..Len(pipes)
      /\ \A p \in DOMAIN pipes:
           pipes[p].copier \in {"copy", "finished"}
           /\ pipes[p].select \in {"wait", "content", "empty", "sent"}
  BY PipesTyped DEF TypeOK, PipesOK
<1>1. intercepting \in BOOLEAN /\ pc \in PCs /\ ret \in {"body", "stopped", "shutdown"}
  BY DEF TypeOK, ControlOK
<1>2. CASE StartIntercepting \/ ResumeOutputInterception
  BY <1>0, <1>1, <1>2 DEF Shape, Pausing, Spent, Live, Pipe, Console, PCs, StartIntercepting, ResumeIntercepting, ResumeOutputInterception
<1>3. CASE StopIntercepting \/ Shutdown \/ PauseOutputInterception
  <2>1. /\ UNCHANGED <<intercepting, stdout, pipes>> /\ pc \in {"body", "between"}
        /\ \/ intercepting /\ pc' = "close"
           \/ ~intercepting /\ pc' \in {"stopped", "shutdown", "body"}
    BY <1>3 DEF StopIntercepting, Shutdown, PauseOutputInterception, Pause
  <2> QED
    BY <1>0, <1>1, <2>1 DEF Shape, Pausing, Spent, Live, Pipe, Console, PCs
<1>4. CASE ReturnEarly \/ Stopped \/ ShutdownClones
  <2>1. /\ UNCHANGED <<intercepting, stdout, pipes>> /\ pc \in {"body", "stopped", "shutdown"}
        /\ pc' \in {"between", "end"} /\ (pc' = "end" => ~intercepting)
    BY <1>4 DEF ReturnEarly, Stopped, ShutdownClones, Shape
  <2> QED
    BY <1>0, <1>1, <2>1 DEF Shape, Pausing, Spent, Live, Pipe, Console, PCs
<1>5. CASE TakePipe
  <2>1. /\ Len(pipes') = Len(pipes) + 1 /\ DOMAIN pipes' = 1..(Len(pipes) + 1)
        /\ \A q \in DOMAIN pipes: pipes'[q] = pipes[q]
        /\ pipes'[Len(pipes) + 1] = NewPipe
    BY <1>0, <1>5 DEF TakePipe
  <2>2. NewPipe.select = "wait"
    BY DEF NewPipe
  <2> QED
    BY <1>0, <1>1, <1>5, <2>1, <2>2 DEF Shape, Pausing, Spent, Live, Pipe, Console, PCs, TakePipe
<1>6. CASE ConnectPipeToStdoutStderr /\ impl = "dup"
  <2>1. Becomes(Pipe, [pipes[Pipe] EXCEPT !.writers = @ \union {"fd"}])
    BY <1>6, Effects
  <2> QED
    BY <1>0, <1>1, <1>6, <2>1 DEF Shape, Pausing, Spent, Live, Pipe, Console, PCs, ConnectPipeToStdoutStderr, Becomes, Others, PipeType
<1>7. CASE ConnectPipeToStdoutStderr /\ impl # "dup"
  <2>1. UNCHANGED pipes
    BY <1>7, Effects
  <2> QED
    BY <1>0, <1>1, <1>7, <2>1 DEF Shape, Pausing, Spent, Live, Pipe, Console, PCs, ConnectPipeToStdoutStderr, Becomes, Others, PipeType
<1>8. CASE CloseWriter
  <2>1. Becomes(Pipe, [pipes[Pipe] EXCEPT !.writers = @ \ {"writer"}])
    BY <1>8, Effects
  <2> QED
    BY <1>0, <1>1, <1>8, <2>1 DEF Shape, Pausing, Spent, Live, Pipe, Console, PCs, CloseWriter, Becomes, Others, PipeType
<1>9. CASE RestoreStdoutStderrFromClones
  <2>1. Becomes(Pipe, [pipes[Pipe] EXCEPT !.writers = @ \ {"fd"}])
    BY <1>9, Effects
  <2> QED
    BY <1>0, <1>1, <1>9, <2>1 DEF Shape, Pausing, Spent, Live, Pipe, Console, PCs, RestoreStdoutStderrFromClones, Becomes, Others, PipeType
<1>10. CASE Bailout
  <2>1. Becomes(Pipe, [pipes[Pipe] EXCEPT !.bailout = TRUE])
    BY <1>10, Effects
  <2> QED
    BY <1>0, <1>1, <1>10, <2>1 DEF Shape, Pausing, Spent, Live, Pipe, Console, PCs, Bailout, Becomes, Others, PipeType
<1>11. ASSUME NEW p \in DOMAIN pipes, ReceiveContent(p) PROVE Shape'
  <2>1. Becomes(p, Sent(pipes[p]))
    BY <1>11, Effects
  <2>2. /\ Len(pipes') = Len(pipes) /\ DOMAIN pipes' = DOMAIN pipes
        /\ \A q \in DOMAIN pipes: q # p => pipes'[q] = pipes[q]
        /\ pipes'[p].writers = pipes[p].writers
        /\ pipes'[p].copier = pipes[p].copier
        /\ pipes'[p].select = "sent"
        /\ pipes'[p].bailout = pipes[p].bailout
    BY <1>0, <1>11, <2>1, PipeFields DEF Becomes, Others, ReceiveContent
  <2> HIDE <2>1
  <2>3. p = Len(pipes) /\ pc \in {"await", "bailed"}
    BY <1>0, <1>11 DEF ReceiveContent, Shape, Spent
  <2>4. pipes[p].writers \subseteq {"child"} /\ (pipes[p].copier = "copy" => pipes[p].bailout)
    BY <1>11, <2>3, PipesTyped DEF ReceiveContent, Shape, Pipe
  <2>5. \A q \in DOMAIN pipes': Spent(q)'
    BY <1>0, <2>2, <2>3, <2>4 DEF Shape, Spent
  <2>6. stdout' = Console /\ ~intercepting' /\ pc' \in {"body", "stopped", "shutdown"}
    BY <1>1, <1>11, <2>3 DEF ReceiveContent, Shape
  <2> QED
    BY <2>5, <2>6 DEF Shape, Pausing, Spent, Live, Console
<1>12. ASSUME NEW p \in DOMAIN pipes, Copy(p) PROVE Shape'
  <2>1. Becomes(p, Copied(pipes[p]))
    BY <1>12, Effects
  <2>2. /\ Len(pipes') = Len(pipes) /\ DOMAIN pipes' = DOMAIN pipes
        /\ \A q \in DOMAIN pipes: q # p => pipes'[q] = pipes[q]
        /\ pipes'[p].writers = pipes[p].writers
        /\ pipes'[p].copier = pipes[p].copier
        /\ pipes'[p].select = pipes[p].select
        /\ pipes'[p].bailout = pipes[p].bailout
    BY <1>0, <1>12, <2>1, PipeFields DEF Becomes, Others, Copy
  <2> HIDE <2>1
  <2> QED
    BY <1>0, <1>1, <1>12, <2>2 DEF Shape, Pausing, Spent, Live, Pipe, Console, PCs, Copy
<1>13. ASSUME NEW p \in DOMAIN pipes, CopyFinished(p) PROVE Shape'
  <2>1. Becomes(p, [pipes[p] EXCEPT !.copier = "finished"])
    BY <1>13, Effects
  <2>2. /\ Len(pipes') = Len(pipes) /\ DOMAIN pipes' = DOMAIN pipes
        /\ \A q \in DOMAIN pipes: q # p => pipes'[q] = pipes[q]
        /\ pipes'[p].writers = pipes[p].writers
        /\ pipes'[p].copier = "finished"
        /\ pipes'[p].select = pipes[p].select
        /\ pipes'[p].bailout = pipes[p].bailout
    BY <1>0, <1>13, <2>1, PipeFields DEF Becomes, Others, CopyFinished, PipeType
  <2> HIDE <2>1
  <2> QED
    BY <1>0, <1>1, <1>13, <2>2 DEF Shape, Pausing, Spent, Live, Pipe, Console, PCs, CopyFinished
<1>14. ASSUME NEW p \in DOMAIN pipes, ForwardFails(p), ~(UNCHANGED pipes /\ pc' = "killed") PROVE Shape'
  <2>1. Becomes(p, Broken(pipes[p]))
    BY <1>14, Effects
  <2>2. /\ Len(pipes') = Len(pipes) /\ DOMAIN pipes' = DOMAIN pipes
        /\ \A q \in DOMAIN pipes: q # p => pipes'[q] = pipes[q]
        /\ pipes'[p].writers = pipes[p].writers
        /\ pipes'[p].copier = "finished"
        /\ pipes'[p].select = pipes[p].select
        /\ pipes'[p].bailout = pipes[p].bailout
    BY <1>0, <1>14, <2>1, PipeFields DEF Becomes, Others, ForwardFails
  <2> HIDE <2>1
  <2> QED
    BY <1>0, <1>1, <1>14, <2>2 DEF Shape, Pausing, Spent, Live, Pipe, Console, PCs, ForwardFails
<1>15. ASSUME NEW p \in DOMAIN pipes, ForwardFails(p), UNCHANGED pipes /\ pc' = "killed"
       PROVE  Shape'
  BY <1>0, <1>1, <1>15 DEF Shape, Pausing, Spent, Live, Pipe, Console, PCs, ForwardFails
<1>16. ASSUME NEW p \in DOMAIN pipes, Select(p) PROVE Shape'
  <2>1. \/ pipes[p].copier = "finished" /\ Becomes(p, [pipes[p] EXCEPT !.select = "content"])
        \/ pipes[p].bailout /\ Becomes(p, [pipes[p] EXCEPT !.select = "empty"])
    BY <1>16, Effects
  <2>2. /\ Len(pipes') = Len(pipes) /\ DOMAIN pipes' = DOMAIN pipes
        /\ \A q \in DOMAIN pipes: q # p => pipes'[q] = pipes[q]
        /\ pipes'[p].writers = pipes[p].writers /\ pipes'[p].copier = pipes[p].copier
        /\ pipes'[p].bailout = pipes[p].bailout
        /\ \/ pipes[p].copier = "finished" /\ pipes'[p].select = "content"
           \/ pipes[p].bailout /\ pipes'[p].select = "empty"
    <3>2. CASE pipes[p].copier = "finished" /\ Becomes(p, [pipes[p] EXCEPT !.select = "content"])
      <4>1. PICK v: v = [pipes[p] EXCEPT !.select = "content"]
        OBVIOUS
      <4>2. /\ v.writers = pipes[p].writers /\ v.copier = pipes[p].copier
            /\ v.select = "content" /\ v.bailout = pipes[p].bailout
        BY <1>0, <4>1 DEF PipeType
      <4>3. Becomes(p, v)
        BY <3>2, <4>1
      <4> QED
        BY <3>2, <4>2, <4>3 DEF Becomes, Others
    <3>3. CASE pipes[p].bailout /\ Becomes(p, [pipes[p] EXCEPT !.select = "empty"])
      <4>1. PICK v: v = [pipes[p] EXCEPT !.select = "empty"]
        OBVIOUS
      <4>2. /\ v.writers = pipes[p].writers /\ v.copier = pipes[p].copier
            /\ v.select = "empty" /\ v.bailout = pipes[p].bailout
        BY <1>0, <4>1 DEF PipeType
      <4>3. Becomes(p, v)
        BY <3>3, <4>1
      <4> QED
        BY <3>3, <4>2, <4>3 DEF Becomes, Others
    <3> QED
      BY <2>1, <3>2, <3>3
  <2> HIDE <2>1
  <2> QED
    BY <1>0, <1>1, <1>16, <2>2 DEF Shape, Pausing, Spent, Live, Pipe, Console, PCs, Select
<1>17. ASSUME NEW by, Writer(by), WriteStdout(by) PROVE Shape'
  <2>1. /\ Len(pipes') = Len(pipes) /\ DOMAIN pipes' = DOMAIN pipes
        /\ \A q \in DOMAIN pipes:
             /\ pipes'[q].writers = pipes[q].writers /\ pipes'[q].copier = pipes[q].copier
             /\ pipes'[q].select = pipes[q].select /\ pipes'[q].bailout = pipes[q].bailout
    <3>2. CASE UNCHANGED pipes
      BY <3>2
    <3>3. CASE ~UNCHANGED pipes
      <4>1. PICK q \in DOMAIN pipes: q = StdoutOf(by)
        BY <1>17, <3>3, WriteEffects
      <4>2. PICK d: d = Append(pipes[q].data, Len(wrote) + 1)
        OBVIOUS
      <4>3. PICK v: v = [pipes[q] EXCEPT !.data = d]
        OBVIOUS
      <4>4. /\ v.writers = pipes[q].writers /\ v.copier = pipes[q].copier
            /\ v.select = pipes[q].select /\ v.bailout = pipes[q].bailout
        BY <1>0, <4>3 DEF PipeType
      <4>5. Becomes(q, v)
        BY <1>17, <3>3, <4>1, <4>2, <4>3, WriteEffects
      <4> QED
        BY <1>0, <4>4, <4>5 DEF Becomes, Others
    <3> QED
      BY <3>2, <3>3
  <2>2. UNCHANGED <<intercepting, stdout>> /\ pc' \in {pc, "killed"}
    BY <1>17 DEF WriteStdout
  <2>3. \A q \in DOMAIN pipes:
          /\ Spent(q) => Spent(q)'
          /\ pipes'[q].select = "content" => pipes'[q].copier = "finished"
          /\ pipes'[q].select = "empty" => pipes'[q].bailout
    BY <2>1 DEF Shape, Spent
  <2>4. /\ Len(pipes) > 0 => pipes'[Len(pipes)].writers = pipes[Len(pipes)].writers
        /\ Live' => Live
    BY <1>0, <2>1, <2>2 DEF Live
  <2>5. CASE pc' = "killed"
    BY <1>0, <2>1, <2>2, <2>3, <2>4, <2>5 DEF Shape, Pausing, Pipe
  <2>6. CASE pc' = pc
    BY <1>0, <2>1, <2>2, <2>3, <2>4, <2>6 DEF Shape, Pausing, Pipe, Live
  <2> QED
    BY <2>2, <2>5, <2>6
<1>18. CASE StartChild /\ stdout # Console
  <2>1. Becomes(stdout, [pipes[stdout] EXCEPT !.writers = @ \union {"child"}])
    BY <1>18, Effects
  <2> QED
    BY <1>0, <1>1, <1>18, <2>1 DEF Shape, Pausing, Spent, Live, Pipe, Console, PCs, StartChild,
                                   Becomes, Others, PipeType
<1>19. CASE ChildExits /\ child # Console
  <2>1. Becomes(child, [pipes[child] EXCEPT !.writers = @ \ {"child"}])
    BY <1>19, Effects
  <2> QED
    BY <1>0, <1>1, <1>19, <2>1 DEF Shape, Pausing, Spent, Live, Pipe, Console, PCs, ChildExits,
                                   Becomes, Others, PipeType
<1>20. CASE UNCHANGED <<pc, intercepting, stdout, pipes>>
  BY <1>20 DEF Shape, Spent, Live, Pipe
<1> QED
  BY <1>2, <1>3, <1>4, <1>5, <1>6, <1>7, <1>8, <1>9, <1>10, <1>11, <1>12, <1>13, <1>14, <1>15,
     <1>16, <1>17, <1>18, <1>19, <1>20
     DEF Next, Calls, Receive, Goroutines, Faults, BodyWrites, LeakedWrites, ChildWrites,
         WriteGinkgoWriter, StartChild, ChildExits, Writer, Done, vars

\* They hold at the start.
LEMMA InitialShape ==
  ASSUME Init
  PROVE  TypeOK /\ Shape
<1>1. ControlOK
  <2>1. Len(Segments) \in Nat
    BY Paths DEF Init
  <2>2. /\ work \in Workloads /\ impl \in Impls /\ seg = 1 /\ pc = "between" /\ ret = "body"
        /\ pauses = 0 /\ ~intercepting /\ ~clones /\ ~factory /\ ~forwardTo
        /\ intercepting \in BOOLEAN /\ clones \in BOOLEAN /\ factory \in BOOLEAN
        /\ forwardTo \in BOOLEAN
    BY DEF Init
  <2> QED
    BY <2>1, <2>2 DEF ControlOK, InSegment, PCs, Pausing
<1>2. PipesOK
  BY DEF Init, PipesOK, Nothing, Console
<1>3. OutputOK
  BY DEF Init, OutputOK, Specs
<1>4. Shape
  BY DEF Init, Shape, Live, Pausing, Pipe, Console
<1> QED
  BY <1>1, <1>2, <1>3, <1>4 DEF TypeOK

\* The first two parts of the invariant.
LEMMA ShapeInvariance == Spec => [](TypeOK /\ Shape)
<1>1. Init => TypeOK /\ Shape
  BY InitialShape
<1>2. TypeOK /\ Shape /\ [Next]_vars => (TypeOK /\ Shape)'
  BY StepControl, StepPipes, StepOutput, StepShape DEF TypeOK
<1> QED
  BY <1>1, <1>2, PTL DEF Spec

\* When the interceptor is not intercepting and no call of it is under way,
\* stdout is the console, and every pipe is let go of: by
\* ResumeIntercepting, PauseIntercepting and Shutdown, whatever the body, a
\* leaked goroutine and a child process do meanwhile.
THEOREM LetsGo == Spec => []Released
<1>1. TypeOK /\ Shape => Released
  BY DEF TypeOK, PipesOK, Shape, Spent, Released
<1> QED
  BY <1>1, ShapeInvariance, PTL

-----------------------------------------------------------------------------
(* What the steps do to the output                                         *)

\* The contents of the pipes stay as they are.
Quiet ==
  /\ Len(pipes') = Len(pipes) /\ DOMAIN pipes' = DOMAIN pipes
  /\ \A q \in DOMAIN pipes:
       /\ pipes'[q].buf = pipes[q].buf /\ pipes'[q].data = pipes[q].data
       /\ pipes'[q].broken = pipes[q].broken /\ (pipes[q].bailout => pipes'[q].bailout)
       /\ \/ pipes'[q].copier = pipes[q].copier
          \/ pipes'[q].copier = "finished" /\ pipes[q].data = <<>>

\* The copy of pipe p makes a step.
Moved(p) ==
  /\ Len(pipes') = Len(pipes) /\ DOMAIN pipes' = DOMAIN pipes
  /\ \A q \in DOMAIN pipes: q # p => pipes'[q] = pipes[q]
  /\ pipes[p].data # <<>>
  /\ pipes'[p].data = Tail(pipes[p].data)
  /\ pipes'[p].buf = Append(pipes[p].buf, Head(pipes[p].data))
  /\ pipes'[p].bailout = pipes[p].bailout
  /\ \/ pipes'[p].copier = "copy" /\ pipes'[p].broken = pipes[p].broken
     \/ pipes'[p].broken

\* One pipe is replaced by one with the same contents.
LEMMA QuietField ==
  ASSUME NEW p \in DOMAIN pipes, NEW v, Becomes(p, v),
         v.buf = pipes[p].buf, v.data = pipes[p].data, v.broken = pipes[p].broken,
         pipes[p].bailout => v.bailout,
         v.copier = pipes[p].copier \/ (v.copier = "finished" /\ pipes[p].data = <<>>)
  PROVE  Quiet
  BY DEF Quiet, Becomes, Others

\* Every step that only concerns who holds the pipe, or who waits for it.
Holding == \/ ConnectPipeToStdoutStderr \/ CloseWriter \/ RestoreStdoutStderrFromClones
           \/ Bailout \/ StartChild \/ ChildExits
           \/ \E p \in DOMAIN pipes: CopyFinished(p) \/ Select(p)

\* Such a step leaves the contents of the pipes alone.
LEMMA HoldingIsQuiet ==
  ASSUME TypeOK, Shape, Holding
  PROVE  Quiet
<1>0. \A p \in DOMAIN pipes: pipes[p] \in PipeType
  BY PipesTyped
<1>1. ASSUME UNCHANGED pipes PROVE Quiet
  BY <1>1 DEF Quiet
<1>2. ASSUME NEW p \in DOMAIN pipes, NEW w, Becomes(p, [pipes[p] EXCEPT !.writers = w])
      PROVE  Quiet
  <2>1. PICK v: v = [pipes[p] EXCEPT !.writers = w]
    OBVIOUS
  <2>2. /\ v.buf = pipes[p].buf /\ v.data = pipes[p].data /\ v.broken = pipes[p].broken
        /\ v.bailout = pipes[p].bailout /\ v.copier = pipes[p].copier
    BY <1>0, <2>1 DEF PipeType
  <2> QED
    BY <1>2, <2>1, <2>2, QuietField
<1>3. ASSUME NEW p \in DOMAIN pipes, NEW w, Becomes(p, [pipes[p] EXCEPT !.select = w])
      PROVE  Quiet
  <2>1. PICK v: v = [pipes[p] EXCEPT !.select = w]
    OBVIOUS
  <2>2. /\ v.buf = pipes[p].buf /\ v.data = pipes[p].data /\ v.broken = pipes[p].broken
        /\ v.bailout = pipes[p].bailout /\ v.copier = pipes[p].copier
    BY <1>0, <2>1 DEF PipeType
  <2> QED
    BY <1>3, <2>1, <2>2, QuietField
<1>4. CASE ConnectPipeToStdoutStderr
  <2>1. CASE impl = "dup"
    BY <1>2, <1>4, <2>1, Effects
  <2>2. CASE impl # "dup"
    BY <1>1, <1>4, <2>2, Effects
  <2> QED
    BY <2>1, <2>2
<1>5. CASE CloseWriter
  <2>1. Pipe \in DOMAIN pipes /\ Becomes(Pipe, [pipes[Pipe] EXCEPT !.writers = @ \ {"writer"}])
    BY <1>5, Effects DEF Becomes
  <2> QED
    BY <1>2, <2>1
<1>6. CASE RestoreStdoutStderrFromClones
  <2>1. Pipe \in DOMAIN pipes /\ Becomes(Pipe, [pipes[Pipe] EXCEPT !.writers = @ \ {"fd"}])
    BY <1>6, Effects DEF Becomes
  <2> QED
    BY <1>2, <2>1
<1>7. CASE Bailout
  <2>1. PICK v: v = [pipes[Pipe] EXCEPT !.bailout = TRUE]
    OBVIOUS
  <2>2. Becomes(Pipe, v) /\ Pipe \in DOMAIN pipes
    BY <1>7, <2>1, Effects DEF Becomes
  <2>3. /\ v.buf = pipes[Pipe].buf /\ v.data = pipes[Pipe].data
        /\ v.broken = pipes[Pipe].broken
        /\ v.bailout /\ v.copier = pipes[Pipe].copier
    BY <1>0, <2>1, <2>2 DEF PipeType
  <2> QED
    BY <2>2, <2>3, QuietField
<1>8. CASE StartChild
  <2>1. CASE stdout = Console
    BY <1>1, <1>8, <2>1, Effects
  <2>2. CASE stdout # Console
    <3>1. /\ stdout \in DOMAIN pipes
          /\ Becomes(stdout, [pipes[stdout] EXCEPT !.writers = @ \union {"child"}])
      BY <1>8, <2>2, Effects DEF Becomes
    <3> QED
      BY <1>2, <3>1
  <2> QED
    BY <2>1, <2>2
<1>9. CASE ChildExits
  <2>1. CASE child = Console
    BY <1>1, <1>9, <2>1, Effects
  <2>2. CASE child # Console
    <3>1. /\ child \in DOMAIN pipes
          /\ Becomes(child, [pipes[child] EXCEPT !.writers = @ \ {"child"}])
      BY <1>9, <2>2, Effects DEF Becomes
    <3> QED
      BY <1>2, <3>1
  <2> QED
    BY <2>1, <2>2
<1>10. ASSUME NEW p \in DOMAIN pipes, CopyFinished(p) PROVE Quiet
  <2>1. PICK v: v = [pipes[p] EXCEPT !.copier = "finished"]
    OBVIOUS
  <2>2. Becomes(p, v) /\ pipes[p].data = <<>>
    BY <1>10, <2>1, Effects DEF CopyFinished
  <2>3. /\ v.buf = pipes[p].buf /\ v.data = pipes[p].data /\ v.broken = pipes[p].broken
        /\ v.bailout = pipes[p].bailout /\ v.copier = "finished"
    BY <1>0, <2>1, <2>2 DEF PipeType
  <2> QED
    BY <2>2, <2>3, QuietField
<1>11. ASSUME NEW p \in DOMAIN pipes, Select(p) PROVE Quiet
  <2>1. CASE Becomes(p, [pipes[p] EXCEPT !.select = "content"])
    BY <1>3, <2>1
  <2>2. CASE Becomes(p, [pipes[p] EXCEPT !.select = "empty"])
    BY <1>3, <2>2
  <2> QED
    BY <1>11, <2>1, <2>2, Effects
<1> QED
  BY <1>4, <1>5, <1>6, <1>7, <1>8, <1>9, <1>10, <1>11 DEF Holding

\* io.Copy moves one write from the pipe to the buffer, also when it fails.
LEMMA CopyMoves ==
  ASSUME TypeOK, Shape, NEW p \in DOMAIN pipes,
         Copy(p) \/ (ForwardFails(p) /\ ~(UNCHANGED pipes /\ pc' = "killed"))
  PROVE  Moved(p) /\ pipes[p].copier = "copy" /\ OnlyPipes
<1>1. pipes[p] \in PipeType /\ pipes[p].data # <<>> /\ pipes[p].copier = "copy"
  BY PipesTyped DEF Copy, ForwardFails
<1>2. PICK v \in {Copied(pipes[p]), Broken(pipes[p])}: Becomes(p, v)
  BY Effects
<1>3. /\ v.data = Tail(pipes[p].data) /\ v.buf = Append(pipes[p].buf, Head(pipes[p].data))
      /\ v.bailout = pipes[p].bailout
      /\ \/ v.copier = "copy" /\ v.broken = pipes[p].broken
         \/ v.broken
  BY <1>1, <1>2, PipeFields
<1>4. OnlyPipes
  BY Effects DEF Copy
<1> QED
  BY <1>1, <1>2, <1>3, <1>4 DEF Moved, Becomes, Others

\* The n-th write of all.
Wrote(by, to) == /\ wrote' = Append(wrote, [by |-> by, seg |-> seg, to |-> to])
                 /\ pc' \in {pc, "killed"}
                 /\ UNCHANGED <<seg, ret, intercepting, accumulatedOutput, report>>

\* A write by this writer goes into pipe q.
WrittenTo(q) ==
  /\ Len(pipes') = Len(pipes) /\ DOMAIN pipes' = DOMAIN pipes
  /\ \A u \in DOMAIN pipes: u # q => pipes'[u] = pipes[u]
  /\ pipes[q].copier = "copy"
  /\ pipes'[q].buf = pipes[q].buf /\ pipes'[q].data = Append(pipes[q].data, Len(wrote) + 1)
  /\ pipes'[q].copier = pipes[q].copier /\ pipes'[q].bailout = pipes[q].bailout
  /\ pipes'[q].broken = pipes[q].broken

\* A write to stdout leaves the buffer of the GinkgoWriter alone.
LEMMA StdoutWrites ==
  ASSUME TypeOK, Shape, NEW by, Writer(by), WriteStdout(by)
  PROVE  /\ UNCHANGED buffer
         /\ \E to \in -1..Len(pipes): Wrote(by, to) /\
              \/ to \in {Nothing, Console} /\ UNCHANGED pipes
              \/ to \in DOMAIN pipes /\ to = StdoutOf(by) /\ WrittenTo(to)
<1>0. Len(pipes) \in Nat /\ DOMAIN pipes = 1..Len(pipes)
  BY PipesTyped
<1>1. UNCHANGED buffer
  BY DEF WriteStdout
<1>2. \A to: Record(by, to) => Wrote(by, to)
  BY DEF WriteStdout, Record, Wrote, self
<1>3. CASE UNCHANGED pipes /\ Record(by, StdoutOf(by)) /\ StdoutOf(by) = Console
  BY <1>0, <1>1, <1>2, <1>3 DEF Console
<1>4. CASE UNCHANGED pipes /\ Record(by, Nothing)
  BY <1>0, <1>1, <1>2, <1>4 DEF Nothing
<1>5. ASSUME NEW q \in DOMAIN pipes, q = StdoutOf(by), Record(by, q),
             pipes[q].copier = "copy",
             Becomes(q, [pipes[q] EXCEPT !.data = Append(@, Len(wrote) + 1)])
      PROVE  \E to \in -1..Len(pipes): Wrote(by, to) /\
               \/ to \in {Nothing, Console} /\ UNCHANGED pipes
               \/ to \in DOMAIN pipes /\ to = StdoutOf(by) /\ WrittenTo(to)
  <2>1. PICK d: d = Append(pipes[q].data, Len(wrote) + 1)
    OBVIOUS
  <2>2. PICK v: v = [pipes[q] EXCEPT !.data = d]
    OBVIOUS
  <2>3. pipes[q] \in PipeType
    BY PipesTyped
  <2>4. /\ v.buf = pipes[q].buf /\ v.data = d /\ v.copier = pipes[q].copier
        /\ v.bailout = pipes[q].bailout /\ v.broken = pipes[q].broken
    BY <2>2, <2>3 DEF PipeType
  <2>5. Becomes(q, v)
    BY <1>5, <2>1, <2>2
  <2>6. WrittenTo(q)
    BY <1>5, <2>1, <2>4, <2>5 DEF WrittenTo, Becomes, Others
  <2>7. q \in -1..Len(pipes)
    BY <1>0
  <2> QED
    BY <1>2, <1>5, <2>6, <2>7
<1> QED
  BY <1>1, <1>3, <1>4, <1>5, WriteEffects

\* The pipe in use, and what it holds, stay; no pipe is mended.
SamePipe == Pipe' = Pipe /\ (InUse.buf)' = InUse.buf /\ (InUse.data)' = InUse.data
Lasting  == /\ Len(pipes') >= Len(pipes) /\ DOMAIN pipes \subseteq DOMAIN pipes'
            /\ \A q \in DOMAIN pipes: /\ pipes[q].bailout => pipes'[q].bailout
                                      /\ pipes[q].broken => pipes'[q].broken

\* What may still be filed was so before.
Onward ==
  /\ Unfiled' => Unfiled
  /\ UnfiledGW' => UnfiledGW /\ Current' = Current
  /\ pc' = "between" => pc = "between"

\* A step on which no output moves.
Carry ==
  /\ UNCHANGED <<accumulatedOutput, buffer, report, wrote, seg>>
  /\ Onward /\ Lasting
  /\ Live' => (Live /\ SamePipe) \/ ((InUse.buf)' = <<>> /\ (InUse.data)' = <<>>)
  /\ Unfiled' /\ Live => Live' /\ SamePipe

\* The steps on which output moves.
Moves == \/ StartIntercepting \/ Stopped \/ ReturnEarly \/ Receive
         \/ Live /\ Moved(Pipe) /\ OnlyPipes
         \/ \E by: Writer(by) /\ (by = "body" => pc = "body")
                   /\ (WriteStdout(by) \/ WriteGinkgoWriter(by))

\* A step that leaves all contents alone moves no output.
LEMMA QuietCarries ==
  ASSUME TypeOK, Shape, Quiet, UNCHANGED <<accumulatedOutput, buffer, report, wrote, seg>>,
         Onward, Live' => Live, Unfiled' /\ Live => Live'
  PROVE  Carry
<1>1. DOMAIN pipes = 1..Len(pipes) /\ Len(pipes) \in Nat /\ (Live => Len(pipes) > 0)
  BY PipesTyped DEF Shape
<1>2. Live => SamePipe
  BY <1>1 DEF Quiet, SamePipe, InUse, Pipe
<1>3. Lasting
  BY <1>1 DEF Quiet, Lasting
<1> QED
  BY <1>2, <1>3 DEF Carry

\* Every step moves no output, or is one of the steps listed above.
LEMMA Classified ==
  ASSUME TypeOK, Shape, [Next]_vars
  PROVE  Carry \/ Moves
<1> USE DEF self, caller, OnlyPipes
<1>0. /\ DOMAIN pipes = 1..Len(pipes) /\ Len(pipes) \in Nat /\ (Live => Len(pipes) > 0)
      /\ Segments' = Segments /\ seg \in Nat
      /\ pc \in PCs /\ ret \in {"body", "stopped", "shutdown"} /\ intercepting \in BOOLEAN
  BY PipesTyped, Unchanged DEF Shape, TypeOK, ControlOK
<1>1. ASSUME UNCHANGED <<seg, pc, ret, intercepting>>
      PROVE  Onward /\ Live' = Live
  BY <1>0, <1>1 DEF Onward, Unfiled, UnfiledGW, Current, Live, InSegment
<1>2. ASSUME UNCHANGED pipes PROVE Quiet
  BY <1>2 DEF Quiet
<1>3. CASE Holding
  <2>1. Quiet
    BY <1>3, HoldingIsQuiet
  <2>2. UNCHANGED <<accumulatedOutput, buffer, report, wrote, seg>>
    BY <1>3 DEF Holding, ConnectPipeToStdoutStderr, CloseWriter, RestoreStdoutStderrFromClones,
                Bailout, StartChild, ChildExits, CopyFinished, Select
  <2>3. Onward /\ (Live' => Live) /\ (Unfiled' /\ Live => Live')
    <3>1. CASE UNCHANGED <<seg, pc, ret, intercepting>>
      BY <1>1, <3>1
    <3>2. CASE ConnectPipeToStdoutStderr \/ CloseWriter \/ RestoreStdoutStderrFromClones \/ Bailout
      <4>1. /\ pc' \in {"body", "restore", "await", "bailed"} /\ intercepting
            /\ pc \in Pausing \union {"connect"} /\ (pc' = "body" => pc = "connect")
            /\ (pc \in Pausing => pc' \in Pausing)
            /\ UNCHANGED <<seg, ret, intercepting>>
        BY <3>2 DEF ConnectPipeToStdoutStderr, CloseWriter, RestoreStdoutStderrFromClones,
                    Bailout, Shape, Pausing
      <4> QED
        BY <1>0, <4>1 DEF Onward, Unfiled, UnfiledGW, Current, Live, InSegment, Pausing
    <3> QED
      BY <1>3, <3>1, <3>2 DEF Holding, StartChild, ChildExits, CopyFinished, Select
  <2> QED
    BY <2>1, <2>2, <2>3, QuietCarries
<1>4. CASE StopIntercepting \/ Shutdown \/ PauseOutputInterception \/ ShutdownClones
           \/ ResumeOutputInterception
  <2>1. UNCHANGED <<accumulatedOutput, buffer, report, wrote, seg, pipes>>
    BY <1>4 DEF StopIntercepting, Shutdown, PauseOutputInterception, ShutdownClones,
                ResumeOutputInterception
  <2>2. CASE ResumeOutputInterception
    <3>1. pc = "body" /\ ~intercepting /\ pc' = "pipe" /\ UNCHANGED ret
      BY <2>2 DEF ResumeOutputInterception, ResumeIntercepting
    <3> QED
      BY <1>0, <1>2, <2>1, <3>1, QuietCarries
         DEF Onward, Unfiled, UnfiledGW, Current, Live, InSegment, Pausing
  <2>3. CASE ShutdownClones
    <3>1. pc = "shutdown" /\ pc' = "end" /\ UNCHANGED intercepting /\ ~intercepting
      BY <2>3 DEF ShutdownClones, Shape
    <3> QED
      BY <1>0, <1>2, <2>1, <3>1, QuietCarries
         DEF Onward, Unfiled, UnfiledGW, Current, Live, InSegment, Pausing
  <2>4. CASE StopIntercepting \/ Shutdown \/ PauseOutputInterception
    <3>1. /\ pc \in {"body", "between"} /\ UNCHANGED intercepting
          /\ \/ intercepting /\ pc' = "close" /\ (pc = "between" => ret' = "shutdown")
             \/ ~intercepting /\ pc' \in {"stopped", "shutdown", "body"}
                /\ (pc = "between" => pc' = "shutdown")
      BY <2>4 DEF StopIntercepting, Shutdown, PauseOutputInterception, Pause
    <3> QED
      BY <1>0, <1>2, <2>1, <3>1, QuietCarries
         DEF Onward, Unfiled, UnfiledGW, Current, Live, InSegment, Pausing
  <2> QED
    BY <1>4, <2>2, <2>3, <2>4
<1>5. CASE TakePipe
  <2>1. /\ Len(pipes') = Len(pipes) + 1 /\ DOMAIN pipes' = 1..(Len(pipes) + 1)
        /\ \A q \in DOMAIN pipes: pipes'[q] = pipes[q]
        /\ pipes'[Len(pipes) + 1] = NewPipe
    BY <1>0, <1>5 DEF TakePipe, TypeOK, PipesOK
  <2>2. NewPipe.buf = <<>> /\ NewPipe.data = <<>>
    BY DEF NewPipe
  <2>3. (InUse.buf)' = <<>> /\ (InUse.data)' = <<>> /\ Lasting
    BY <1>0, <2>1, <2>2 DEF InUse, Pipe, Lasting
  <2>4. /\ UNCHANGED <<accumulatedOutput, buffer, report, wrote, seg, ret, intercepting>>
        /\ pc = "pipe" /\ pc' = "connect"
    BY <1>5 DEF TakePipe
  <2> QED
    BY <1>0, <2>3, <2>4
       DEF Carry, Onward, Unfiled, UnfiledGW, Current, Live, InSegment, Pausing
<1>6. ASSUME NEW p \in DOMAIN pipes, Copy(p) \/ ForwardFails(p) PROVE Carry \/ Moves
  <2>1. CASE UNCHANGED pipes /\ pc' = "killed" /\ ForwardFails(p)
    <3>1. UNCHANGED <<accumulatedOutput, buffer, report, wrote, seg>>
      BY <2>1 DEF ForwardFails
    <3> QED
      BY <1>0, <1>2, <2>1, <3>1, QuietCarries
         DEF Onward, Unfiled, UnfiledGW, Current, Live, InSegment, Pausing
  <2>2. CASE ~(UNCHANGED pipes /\ pc' = "killed" /\ ForwardFails(p))
    <3>1. Moved(p) /\ OnlyPipes
      BY <1>6, <2>2, CopyMoves
    <3>2. CASE Live /\ p = Pipe
      BY <3>1, <3>2 DEF Moves
    <3>3. CASE ~(Live /\ p = Pipe)
      <4>1. /\ UNCHANGED <<accumulatedOutput, buffer, report, wrote, seg>>
            /\ Onward /\ Live' = Live
        BY <1>1, <3>1
      <4>2. Lasting
        BY <1>0, <3>1 DEF Moved, Lasting
      <4>3. Live => SamePipe
        BY <1>0, <3>1, <3>3 DEF Moved, SamePipe, InUse, Pipe
      <4> QED
        BY <4>1, <4>2, <4>3 DEF Carry
    <3> QED
      BY <3>2, <3>3
  <2> QED
    BY <2>1, <2>2
<1>7. CASE UNCHANGED vars
  BY <1>1, <1>2, <1>7, QuietCarries DEF vars
<1>8. CASE BodyWrites \/ LeakedWrites \/ ChildWrites
  BY <1>8 DEF BodyWrites, LeakedWrites, ChildWrites, Moves, Writer
<1> QED
  BY <1>3, <1>4, <1>5, <1>6, <1>7, <1>8
     DEF Next, Calls, Goroutines, Faults, Done, Holding, Moves

\* The content of the pipe in use is received, and no other pipe's.
LEMMA Received ==
  ASSUME TypeOK, Shape, Drained, NEW p \in DOMAIN pipes, ReceiveContent(p)
  PROVE  /\ p = Pipe /\ Live /\ ~Live' /\ ~intercepting' /\ pc \in Pausing /\ pc' = ret
         /\ UNCHANGED <<buffer, report, wrote, seg>>
         /\ Len(pipes') = Len(pipes) /\ DOMAIN pipes' = DOMAIN pipes
         /\ \A q \in DOMAIN pipes:
              /\ pipes'[q].data = pipes[q].data /\ pipes'[q].copier = pipes[q].copier
              /\ pipes'[q].bailout = pipes[q].bailout /\ pipes'[q].broken = pipes[q].broken
         /\ \/ accumulatedOutput' = accumulatedOutput \o InUse.buf
            \/ accumulatedOutput' = accumulatedOutput \o <<>> /\ InUse.bailout
         /\ ~InUse.bailout /\ ~InUse.broken => InUse.data = <<>>
<1>1. p = Len(pipes) /\ pc \in {"await", "bailed"} /\ intercepting
  BY PipesTyped DEF ReceiveContent, Shape, Spent, Pausing
<1>2. Becomes(p, Sent(pipes[p])) /\ pipes[p] \in PipeType
  BY Effects, PipesTyped
<1>3. \A q \in DOMAIN pipes:
        /\ pipes'[q].data = pipes[q].data /\ pipes'[q].copier = pipes[q].copier
        /\ pipes'[q].bailout = pipes[q].bailout /\ pipes'[q].broken = pipes[q].broken
  BY <1>2, PipeFields DEF Becomes, Others
<1>4. /\ UNCHANGED <<buffer, report, wrote, seg>> /\ ~intercepting' /\ pc' = ret
      /\ pipes[p].select \in {"content", "empty"}
      /\ accumulatedOutput' = accumulatedOutput \o
           IF pipes[p].select = "content" THEN pipes[p].buf ELSE <<>>
  BY DEF ReceiveContent
<1>5. /\ pipes[p].select = "content" => pipes[p].copier = "finished"
      /\ pipes[p].select = "empty" => pipes[p].bailout
  BY DEF Shape
<1>6. ~pipes[p].bailout /\ ~pipes[p].broken => pipes[p].data = <<>>
  BY <1>4, <1>5 DEF Drained
<1>7. \/ accumulatedOutput' = accumulatedOutput \o pipes[p].buf
      \/ accumulatedOutput' = accumulatedOutput \o <<>> /\ pipes[p].bailout
  BY <1>4, <1>5
<1> QED
  BY <1>1, <1>2, <1>3, <1>4, <1>6, <1>7 DEF Becomes, Others, InUse, Pipe, Live, Pausing

\* A copy that is over has left nothing in its pipe, unless it broke off.
LEMMA StepDrained ==
  ASSUME TypeOK, Shape, Drained, [Next]_vars
  PROVE  Drained'
<1>1. CASE Quiet
  BY <1>1 DEF Quiet, Drained
<1>2. ASSUME NEW p \in DOMAIN pipes, ReceiveContent(p) PROVE Drained'
  BY <1>2, Received DEF Drained
<1>3. ASSUME NEW p \in DOMAIN pipes, Moved(p) PROVE Drained'
  BY <1>3 DEF Moved, Drained
<1>4. ASSUME NEW by, Writer(by), WriteStdout(by) PROVE Drained'
  <2>1. ASSUME NEW q \in DOMAIN pipes, WrittenTo(q) PROVE Drained'
    BY <2>1 DEF WrittenTo, Drained
  <2>2. CASE UNCHANGED pipes
    BY <2>2 DEF Drained
  <2> QED
    BY <1>4, <2>1, <2>2, StdoutWrites
<1>5. CASE TakePipe
  <2>1. /\ Len(pipes') = Len(pipes) + 1 /\ DOMAIN pipes' = 1..(Len(pipes) + 1)
        /\ \A q \in DOMAIN pipes: pipes'[q] = pipes[q]
        /\ pipes'[Len(pipes) + 1] = NewPipe
    BY <1>5, PipesTyped DEF TakePipe
  <2>2. NewPipe.copier = "copy"
    BY DEF NewPipe
  <2> QED
    BY <2>1, <2>2, PipesTyped DEF Drained
<1>6. CASE UNCHANGED pipes
  BY <1>6 DEF Drained
<1>7. CASE Holding
  BY <1>1, <1>7, HoldingIsQuiet
<1>8. ASSUME NEW p \in DOMAIN pipes, Copy(p) \/ ForwardFails(p) PROVE Drained'
  BY <1>3, <1>6, <1>8, CopyMoves
<1> QED
  BY <1>2, <1>4, <1>5, <1>6, <1>7, <1>8
     DEF Next, Calls, Receive, Goroutines, Faults, Holding, StartIntercepting, StopIntercepting,
         ReturnEarly, Shutdown, Stopped, ShutdownClones, PauseOutputInterception,
         ResumeOutputInterception, BodyWrites, LeakedWrites, ChildWrites, WriteGinkgoWriter,
         Writer, Done, vars

-----------------------------------------------------------------------------
(* The output stays in order, is filed where it belongs, and is not lost   *)

Filing == TypeOK /\ Shape /\ Drained /\ InOrder /\ Made /\ Attributed /\ Kept

\* The sequences of writes, and the segments, have their types.
LEMMA SeqsTyped ==
  ASSUME TypeOK, Shape
  PROVE  /\ accumulatedOutput \in Seq(Nat) /\ buffer \in Seq(Nat)
         /\ \A spec \in DOMAIN report: report[spec].out \in Seq(Nat) /\ report[spec].gw \in Seq(Nat)
         /\ Live => Pipe \in DOMAIN pipes /\ InUse.buf \in Seq(Nat) /\ InUse.data \in Seq(Nat)
         /\ Len(wrote) \in Nat /\ DOMAIN wrote = 1..Len(wrote) /\ wrote \in Seq(WriteType)
         /\ seg \in Nat \ {0}
         /\ Segments \in Seq(SegmentType) /\ CodePath(Segments) /\ Len(Segments) \in Nat
         /\ DOMAIN Segments = 1..Len(Segments)
<1>1. /\ accumulatedOutput \in Seq(Nat) /\ buffer \in Seq(Nat)
      /\ \A spec \in DOMAIN report: report[spec].out \in Seq(Nat) /\ report[spec].gw \in Seq(Nat)
      /\ Len(wrote) \in Nat /\ DOMAIN wrote = 1..Len(wrote) /\ wrote \in Seq(WriteType)
  BY DEF TypeOK, OutputOK
<1>2. Live => Pipe \in DOMAIN pipes /\ InUse.buf \in Seq(Nat) /\ InUse.data \in Seq(Nat)
  BY PipesTyped DEF Shape, InUse, Pipe
<1>3. seg \in Nat \ {0} /\ work \in Workloads
  BY DEF TypeOK, ControlOK
<1> QED
  BY <1>1, <1>2, <1>3, Paths

\* A step on which no output moves.
LEMMA CarryFiling ==
  ASSUME Filing, TypeOK', Shape', Segments' = Segments, Carry
  PROVE  InOrder' /\ Made' /\ Attributed' /\ Kept'
<1> USE DEF Filing
<1>1. /\ \A e: e = <<>> => Range(e) = {} /\ Increasing(e)
      /\ UNCHANGED <<accumulatedOutput, buffer, report, wrote, seg>>
  <2>1. UNCHANGED <<accumulatedOutput, buffer, report, wrote, seg>>
    BY DEF Carry
  <2> QED
    BY <2>1, NothingIn, Zenon
<1>2. InOrder'
  BY <1>1 DEF InOrder, Carry, Onward, SamePipe, Below
<1>3. Made'
  <2>1. /\ Range(accumulatedOutput)' \subseteq DOMAIN wrote' /\ Range(buffer)' \subseteq DOMAIN wrote'
        /\ \A spec \in DOMAIN report': Range(report'[spec].out) \union Range(report'[spec].gw)
                                        \subseteq DOMAIN wrote'
    BY <1>1 DEF Made
  <2>2. Live' => (Range(InUse.buf) \union Range(InUse.data))' \subseteq DOMAIN wrote'
    BY <1>1 DEF Made, Carry, SamePipe
  <2>3. ASSUME NEW t \in DOMAIN wrote'
        PROVE  /\ wrote'[t].to \in -2..Len(pipes')
               /\ wrote'[t].by = "body" =>
                    /\ wrote'[t].seg \in 1..(IF pc' = "between" THEN seg' - 1 ELSE seg')
                    /\ wrote'[t].seg <= Len(Segments')
    <3>1. /\ t \in DOMAIN wrote /\ wrote'[t] = wrote[t] /\ wrote[t].to \in -2..Len(pipes)
          /\ wrote[t].by = "body" =>
                    /\ wrote[t].seg \in 1..(IF pc = "between" THEN seg - 1 ELSE seg)
                    /\ wrote[t].seg <= Len(Segments)
      BY <1>1, <2>3 DEF Made
    <3>2. Len(pipes') >= Len(pipes) /\ Len(pipes) \in Nat /\ Len(pipes') \in Nat
      BY PipesTyped DEF Carry, Lasting, TypeOK, PipesOK
    <3>3. seg \in Nat /\ (pc' = "between" => pc = "between") /\ seg' = seg
      BY <1>1, SeqsTyped DEF Carry, Onward
    <3> QED
      BY <3>1, <3>2, <3>3
  <2> QED
    BY <2>1, <2>2, <2>3 DEF Made
<1>4. Attributed'
  BY <1>1 DEF Attributed, Carry, Onward, SamePipe, Astray
<1>5. Kept'
  <2> SUFFICES ASSUME NEW t \in DOMAIN wrote, KeptGW(t), KeptOut(t)
               PROVE  KeptGW(t)' /\ KeptOut(t)'
    BY <1>1 DEF Kept
  <2>1. Intact(t)' => Intact(t)
    <3>1. wrote[t].to \in -2..Len(pipes) /\ wrote' = wrote
      BY <1>1 DEF Made
    <3>2. wrote[t].to > 0 => wrote[t].to \in DOMAIN pipes
      BY <3>1, PipesTyped
    <3> QED
      BY <3>1, <3>2 DEF Intact, Carry, Lasting
  <2>2. /\ Unfiled' => Unfiled
        /\ Unfiled' /\ Live => Live' /\ SamePipe
    BY DEF Carry, Onward
  <2> QED
    BY <1>1, <2>1, <2>2 DEF KeptGW, KeptOut, Held, SamePipe
<1> QED
  BY <1>2, <1>3, <1>4, <1>5

\* The start of a segment: the writer is cleared, and the accumulated output
\* forgotten, unless the interception of an earlier segment is still going on.
LEMMA StartFiling ==
  ASSUME Filing, Segments' = Segments, StartIntercepting
  PROVE  InOrder' /\ Made' /\ Attributed' /\ Kept'
<1> USE DEF Filing
<1>1. /\ pc = "between" /\ seg \in 1..Len(Segments) /\ pc' \in {"body", "pipe"}
      /\ UNCHANGED <<seg, report, wrote, pipes, ret>>
  BY SeqsTyped DEF StartIntercepting, ResumeIntercepting
<1>2. /\ \/ accumulatedOutput' = accumulatedOutput /\ Unfiled
         \/ Range(accumulatedOutput') = {} /\ Increasing(accumulatedOutput')
      /\ Live' => Live
  <2>1. CASE intercepting
    BY <2>1 DEF StartIntercepting, ResumeIntercepting, Unfiled, Live
  <2>2. CASE ~intercepting
    <3>1. accumulatedOutput' = <<>> /\ pc' = "pipe"
      BY <2>2 DEF StartIntercepting, ResumeIntercepting
    <3> QED
      BY <3>1, NothingIn DEF Live
  <2> QED
    BY <2>1, <2>2
<1>3. SamePipe
  BY <1>1 DEF SamePipe, InUse, Pipe
<1>4. /\ Segment.opens /\ seg > 1 => Segments[seg - 1].closes
      /\ ~Segment.opens => /\ seg > 1 /\ ~Segments[seg - 1].closes
                           /\ Segments[seg].spec = Segments[seg - 1].spec
  <2>1. /\ IF seg = 1 THEN Segments[seg].opens ELSE Segments[seg].opens = Segments[seg - 1].closes
        /\ Segments[seg].opens \/ Segments[seg].spec = Segments[seg - 1].spec
    BY <1>1, SeqsTyped DEF CodePath
  <2>2. Segments[seg].opens \in BOOLEAN
    <3>1. Segments[seg] \in SegmentType
      BY <1>1, SeqsTyped
    <3> QED
      BY <3>1 DEF SegmentType
  <2> QED
    BY <1>1, <2>1, <2>2 DEF Segment
<1>5. \/ Range(buffer') = {} /\ Increasing(buffer') /\ Segment.opens
      \/ buffer' = buffer /\ ~Segment.opens /\ UnfiledGW
         /\ Segments[Current'].spec = Segments[Current].spec
  <2>1. CASE Segment.opens
    <3>1. buffer' = <<>>
      BY <2>1 DEF StartIntercepting, Truncate
    <3> QED
      BY <2>1, <3>1, NothingIn
  <2>2. CASE ~Segment.opens
    BY <1>1, <1>4, <2>2 DEF StartIntercepting, Truncate, UnfiledGW, Current
  <2> QED
    BY <2>1, <2>2
<1>6. InOrder'
  BY <1>1, <1>2, <1>3, <1>5 DEF InOrder, SamePipe, Below
<1>7. Made'
  BY <1>1, <1>2, <1>3, <1>5 DEF Made, SamePipe
<1>8. Attributed'
  BY <1>1, <1>2, <1>3, <1>5 DEF Attributed, SamePipe, Astray
<1>9. Kept'
  <2> SUFFICES ASSUME NEW t \in DOMAIN wrote, KeptGW(t), KeptOut(t), wrote[t].by = "body"
               PROVE  KeptGW(t)' /\ KeptOut(t)'
    BY <1>1 DEF Kept
  <2>1. wrote[t].seg \in 1..(seg - 1)
    BY <1>1 DEF Made
  <2>2. KeptOut(t)'
    BY <1>1, <2>1 DEF KeptOut, Intact
  <2>3. KeptGW(t)'
    <3>1. CASE Segment.opens
      <4>1. Segments[seg - 1].closes /\ seg - 1 \in wrote[t].seg..(seg - 1)
        BY <1>1, <1>4, <2>1, <3>1
      <4> QED
        BY <1>1, <4>1 DEF KeptGW
    <3>2. CASE ~Segment.opens
      BY <1>1, <1>5, <3>2 DEF KeptGW
    <3> QED
      BY <3>1, <3>2
  <2> QED
    BY <2>2, <2>3
<1> QED
  BY <1>6, <1>7, <1>8, <1>9

\* A report node returns early, in the middle of an interception.
LEMMA EarlyFiling ==
  ASSUME Filing, Segments' = Segments, ReturnEarly
  PROVE  InOrder' /\ Made' /\ Attributed' /\ Kept'
<1> USE DEF Filing
<1>1. /\ pc = "body" /\ pc' = "between" /\ seg' = seg + 1 /\ Segments[seg].early
      /\ seg \in 1..Len(Segments) /\ UNCHANGED intercepting
      /\ UNCHANGED <<report, wrote, pipes, accumulatedOutput, buffer>>
  BY SeqsTyped DEF ReturnEarly, Segment, TypeOK, ControlOK, InSegment, self
<1>2. SamePipe /\ (Live' => Live) /\ Unfiled
  BY <1>1 DEF SamePipe, InUse, Pipe, Live, Unfiled
<1>3. /\ Segments[seg].closes /\ (seg > 1 => Segments[seg - 1].closes)
      /\ seg' - 1 = seg
  <2>1. /\ IF seg = 1 THEN Segments[seg].opens ELSE Segments[seg].opens = Segments[seg - 1].closes
        /\ Segments[seg].opens /\ Segments[seg].closes
    BY <1>1, SeqsTyped DEF CodePath
  <2>2. seg \in Nat /\ seg' - 1 = seg
    BY <1>1, SeqsTyped
  <2>3. seg # 1 => Segments[seg - 1].closes
    BY <2>1, Zenon
  <2> QED
    BY <2>1, <2>2, <2>3
<1>4. ~UnfiledGW'
  BY <1>1, <1>3 DEF UnfiledGW, InSegment, Pausing
<1>5. \A t \in DOMAIN wrote: wrote[t].by = "body" =>
        wrote[t].seg \in 1..seg /\ wrote[t].seg <= Len(Segments)
  BY <1>1 DEF Made
<1>6. \A t \in DOMAIN wrote: wrote[t].by = "body" /\ (wrote[t].seg = seg \/ Astray(t)) => Astray(t)'
  BY <1>1, <1>3, <1>5 DEF Astray
<1>7. InOrder'
  BY <1>1, <1>2, <1>4 DEF InOrder, SamePipe
<1>8. Made'
  BY <1>1, <1>2, <1>3 DEF Made, SamePipe
<1>9. Attributed'
  BY <1>1, <1>2, <1>4, <1>6 DEF Attributed, SamePipe, Made
<1>10. Kept'
  <2> SUFFICES ASSUME NEW t \in DOMAIN wrote, KeptGW(t), KeptOut(t), wrote[t].by = "body",
                      ~Segments[wrote[t].seg].early
               PROVE  KeptGW(t)' /\ KeptOut(t)'
    BY <1>1 DEF Kept
  <2>1. wrote[t].seg \in 1..(seg - 1)
    BY <1>1, <1>5
  <2>2. KeptOut(t)'
    BY <1>1, <2>1 DEF KeptOut, Intact
  <2>3. KeptGW(t)'
    <3>1. Segments[seg - 1].closes /\ seg - 1 \in wrote[t].seg..(seg - 1)
      BY <1>1, <1>3, <2>1
    <3> QED
      BY <1>1, <3>1 DEF KeptGW
  <2> QED
    BY <2>2, <2>3
<1> QED
  BY <1>7, <1>8, <1>9, <1>10

\* The content of the pipe is added to the accumulated output.
LEMMA ReceivedFiling ==
  ASSUME Filing, Segments' = Segments, NEW p \in DOMAIN pipes, ReceiveContent(p)
  PROVE  InOrder' /\ Made' /\ Attributed' /\ Kept'
<1> USE DEF Filing
<1>1. /\ Live /\ ~Live' /\ ~intercepting' /\ pc \in Pausing /\ pc' = ret
      /\ UNCHANGED <<buffer, report, wrote, seg>>
      /\ Len(pipes') = Len(pipes) /\ DOMAIN pipes' = DOMAIN pipes
      /\ \A q \in DOMAIN pipes:
           /\ pipes'[q].bailout = pipes[q].bailout /\ pipes'[q].broken = pipes[q].broken
  BY Received
<1>2. PICK c \in Seq(Nat):
        /\ accumulatedOutput' = accumulatedOutput \o c
        /\ c = InUse.buf \/ (c = <<>> /\ InUse.bailout)
        /\ ~InUse.bailout /\ ~InUse.broken => InUse.data = <<>>
  <2>1. CASE accumulatedOutput' = accumulatedOutput \o InUse.buf
    BY <1>1, <2>1, Received, SeqsTyped
  <2>2. CASE accumulatedOutput' = accumulatedOutput \o <<>> /\ InUse.bailout
    <3>0. <<>> \in Seq(Nat)
      OBVIOUS
    <3>1. PICK e \in Seq(Nat): e = <<>>
      BY <3>0
    <3>2. accumulatedOutput' = accumulatedOutput \o e
      BY <2>2, <3>1
    <3> QED
      BY <2>2, <3>1, <3>2
  <2> QED
    BY <2>1, <2>2, Received
<1>3. /\ Range(accumulatedOutput') = Range(accumulatedOutput) \union Range(c)
      /\ Range(c) \subseteq Range(InUse.buf) /\ Increasing(c)
  <2>1. Range(accumulatedOutput') = Range(accumulatedOutput) \union Range(c)
    BY <1>2, SeqsTyped, Ranges
  <2> QED
    BY <1>1, <1>2, <2>1, NothingIn DEF InOrder
<1>4. Increasing(accumulatedOutput')
  <2>1. Below(Range(accumulatedOutput), Range(c)) /\ Increasing(accumulatedOutput)
    BY <1>1, <1>3 DEF InOrder, Below
  <2> QED
    BY <1>2, <1>3, <2>1, SeqsTyped, Orders
<1>5. /\ Unfiled /\ pc # "between" /\ pc' # "between" /\ (UnfiledGW' => UnfiledGW)
      /\ Current = seg /\ Current' = seg
  BY <1>1 DEF Pausing, Unfiled, UnfiledGW, Current, InSegment, TypeOK, ControlOK
<1>6. InOrder'
  BY <1>1, <1>3, <1>4, <1>5 DEF InOrder, Below
<1>7. Made'
  BY <1>1, <1>3, <1>5 DEF Made
<1>8. Attributed'
  BY <1>1, <1>3, <1>5 DEF Attributed, Astray
<1>9. Kept'
  <2> SUFFICES ASSUME NEW t \in DOMAIN wrote, KeptGW(t), KeptOut(t)
               PROVE  KeptGW(t)' /\ KeptOut(t)'
    BY <1>1 DEF Kept
  <2>1. KeptGW(t)'
    BY <1>1 DEF KeptGW
  <2>2. Intact(t)' => Intact(t)
    <3>1. wrote[t].to \in -2..Len(pipes) /\ wrote' = wrote
      BY <1>1 DEF Made
    <3>2. wrote[t].to > 0 => wrote[t].to \in DOMAIN pipes
      BY <3>1, PipesTyped
    <3> QED
      BY <1>1, <3>1, <3>2 DEF Intact
  <2>3. Intact(t) /\ Held(t) => Held(t)'
    <3>1. Intact(t) /\ wrote[t].to = Pipe => c = InUse.buf /\ Range(InUse.data) = {}
      BY <1>2, NothingIn DEF Intact, InUse
    <3> QED
      BY <1>1, <1>3, <3>1 DEF Held
  <2> QED
    BY <1>1, <1>5, <2>1, <2>2, <2>3 DEF KeptOut
<1> QED
  BY <1>6, <1>7, <1>8, <1>9

\* The copy of the pipe in use makes a step.
LEMMA MovedFiling ==
  ASSUME Filing, Segments' = Segments, Live, Moved(Pipe), OnlyPipes
  PROVE  InOrder' /\ Made' /\ Attributed' /\ Kept'
<1> USE DEF Filing
<1>1. /\ UNCHANGED <<accumulatedOutput, buffer, report, wrote, seg, pc, ret, intercepting>>
      /\ Pipe' = Pipe /\ Len(pipes') = Len(pipes)
  BY DEF OnlyPipes, self, caller, Moved, Pipe
<1>2. Live' /\ Unfiled' = Unfiled /\ UnfiledGW' = UnfiledGW /\ Current' = Current
  BY <1>1 DEF Live, Unfiled, UnfiledGW, Current, InSegment
<1>3. PICK b \in Seq(Nat), d \in Seq(Nat): b = InUse.buf /\ d = InUse.data /\ d # <<>>
  BY SeqsTyped DEF Moved, InUse
<1>4. (InUse.buf)' = Append(b, Head(d)) /\ (InUse.data)' = Tail(d)
  BY <1>1, <1>3 DEF Moved, InUse, Pipe
<1>5. /\ Head(d) \in Nat /\ Tail(d) \in Seq(Nat)
      /\ Range(d) = {Head(d)} \union Range(Tail(d))
      /\ Range(Append(b, Head(d))) = Range(b) \union {Head(d)}
      /\ Range(b) \subseteq Nat /\ Range(d) \subseteq Nat
  BY <1>3, Ranges
<1>6. Increasing(b) /\ Increasing(d) /\ Below(Range(b), Range(d))
  BY <1>3 DEF InOrder
<1>7. Increasing(Tail(d)) /\ Below({Head(d)}, Range(Tail(d)))
  BY <1>3, <1>6, Orders
<1>8. Increasing(Append(b, Head(d)))
  <2>1. Below(Range(b), {Head(d)})
    BY <1>5, <1>6 DEF Below
  <2> QED
    BY <1>5, <1>6, <2>1, Orders
<1>9. /\ (Range(InUse.buf) \union Range(InUse.data))' = Range(InUse.buf) \union Range(InUse.data)
      /\ Below(Range((InUse.buf)'), Range((InUse.data)'))
      /\ Increasing((InUse.buf)') /\ Increasing((InUse.data)')
  BY <1>3, <1>4, <1>5, <1>6, <1>7, <1>8 DEF Below
<1>10. InOrder'
  BY <1>1, <1>2, <1>9 DEF InOrder
<1>11. Made'
  BY <1>1, <1>2, <1>9 DEF Made
<1>12. Attributed'
  BY <1>1, <1>2, <1>9 DEF Attributed, Astray
<1>13. Kept'
  <2> SUFFICES ASSUME NEW t \in DOMAIN wrote, KeptGW(t), KeptOut(t)
               PROVE  KeptGW(t)' /\ KeptOut(t)'
    BY <1>1 DEF Kept
  <2>1. KeptGW(t)'
    BY <1>1 DEF KeptGW
  <2>2. Intact(t)' => Intact(t)
    <3>1. wrote[t].to \in -2..Len(pipes) /\ wrote' = wrote
      BY <1>1 DEF Made
    <3>2. wrote[t].to > 0 => wrote[t].to \in DOMAIN pipes
      BY <3>1, PipesTyped
    <3>3. \A q \in DOMAIN pipes: /\ pipes[q].bailout => pipes'[q].bailout
                                 /\ pipes[q].broken => pipes'[q].broken
      BY DEF Moved
    <3> QED
      BY <3>1, <3>2, <3>3 DEF Intact
  <2>3. Held(t) => Held(t)'
    BY <1>1, <1>2, <1>9 DEF Held
  <2> QED
    BY <1>1, <1>2, <2>1, <2>2, <2>3 DEF KeptOut
<1> QED
  BY <1>10, <1>11, <1>12, <1>13

\* The end of a segment: the output is added to the report.
LEMMA StoppedFiling ==
  ASSUME Filing, Segments' = Segments, Stopped
  PROVE  InOrder' /\ Made' /\ Attributed' /\ Kept'
<1> USE DEF Filing
<1>1. /\ pc = "stopped" /\ pc' = "between" /\ seg' = seg + 1 /\ ~intercepting /\ ~intercepting'
      /\ seg \in 1..Len(Segments) /\ seg' - 1 = seg
      /\ UNCHANGED <<wrote, pipes, accumulatedOutput, buffer>>
  BY SeqsTyped DEF Stopped, Segment, TypeOK, ControlOK, InSegment, self, Shape
<1>2. ~Live /\ ~Live' /\ Unfiled /\ ~Unfiled' /\ UnfiledGW
  BY <1>1 DEF Live, Unfiled, UnfiledGW, InSegment
<1>3. PICK x \in Specs: x = Segments[seg].spec
  BY <1>1, SeqsTyped DEF Specs
<1>4. DOMAIN report = Specs /\ DOMAIN report' = Specs
  BY DEF TypeOK, OutputOK, Stopped
<1>5. PICK o \in Seq(Nat), g \in Seq(Nat):
        /\ o = IF Segments[seg].keep THEN accumulatedOutput ELSE <<>>
        /\ g = IF Segments[seg].closes THEN buffer ELSE <<>>
  <2>1. /\ (IF Segments[seg].keep THEN accumulatedOutput ELSE <<>>) \in Seq(Nat)
        /\ (IF Segments[seg].closes THEN buffer ELSE <<>>) \in Seq(Nat)
    BY SeqsTyped
  <2> QED
    BY <2>1
<1>6. /\ report'[x].out = report[x].out \o o /\ report'[x].gw = report[x].gw \o g
      /\ \A spec \in Specs: spec # x => report'[spec] = report[spec]
  BY <1>3, <1>4, <1>5 DEF Stopped, Segment
<1>7. /\ Range(report'[x].out) = Range(report[x].out) \union Range(o)
      /\ Range(report'[x].gw) = Range(report[x].gw) \union Range(g)
      /\ report[x].out \in Seq(Nat) /\ report[x].gw \in Seq(Nat)
  BY <1>4, <1>6, SeqsTyped, Ranges
<1>8. /\ Range(o) \subseteq Range(accumulatedOutput) /\ Range(g) \subseteq Range(buffer)
      /\ Increasing(o) /\ Increasing(g)
      /\ Segments[seg].keep => Range(o) = Range(accumulatedOutput)
      /\ Segments[seg].closes => Range(g) = Range(buffer)
      /\ ~Segments[seg].closes => Range(g) = {}
  BY <1>5, NothingIn DEF InOrder
<1>9. /\ Increasing(report'[x].out) /\ Increasing(report'[x].gw)
  <2>1. /\ Below(Range(report[x].out), Range(o)) /\ Below(Range(report[x].gw), Range(g))
        /\ Increasing(report[x].out) /\ Increasing(report[x].gw)
    BY <1>2, <1>4, <1>8 DEF InOrder, Below
  <2> QED
    BY <1>5, <1>6, <1>7, <1>8, <2>1, Orders
<1>10. UnfiledGW' => ~Segments[seg].closes
  BY <1>1 DEF UnfiledGW, InSegment, Pausing
<1>11. InOrder'
  BY <1>1, <1>2, <1>4, <1>6, <1>7, <1>8, <1>9, <1>10 DEF InOrder
<1>12. Made'
  BY <1>1, <1>2, <1>4, <1>6, <1>7, <1>8 DEF Made
<1>13. \A t \in DOMAIN wrote: Astray(t) => Astray(t)'
  <2>1. \A t \in DOMAIN wrote: wrote[t].seg \in Nat
    <3>1. \A t \in DOMAIN wrote: wrote[t] \in WriteType
      BY SeqsTyped
    <3> QED
      BY <3>1 DEF WriteType
  <2> QED
    BY <1>1, <2>1 DEF Astray
<1>14. Attributed'
  BY <1>1, <1>2, <1>3, <1>4, <1>6, <1>7, <1>8, <1>10, <1>13 DEF Attributed, Made, Current
<1>15. Kept'
  <2> SUFFICES ASSUME NEW t \in DOMAIN wrote, KeptGW(t), KeptOut(t), wrote[t].by = "body"
               PROVE  KeptGW(t)' /\ KeptOut(t)'
    BY <1>1 DEF Kept
  <2>1. wrote[t].seg \in 1..seg /\ wrote[t].seg \in DOMAIN Segments
    BY <1>1, SeqsTyped DEF Made
  <2>2. PICK y \in Specs: y = Segments[wrote[t].seg].spec
    BY <2>1 DEF Specs
  <2>3. /\ Range(report[y].gw) \subseteq Range(report'[y].gw)
        /\ Range(report[y].out) \subseteq Range(report'[y].out)
    BY <1>6, <1>7
  <2>4. KeptGW(t)'
    <3>1. CASE t \in Range(report[y].gw)
      BY <1>1, <2>2, <2>3, <3>1 DEF KeptGW
    <3>2. CASE t \in Range(buffer) /\ Segments[seg].closes
      <4>1. y = x
        BY <1>1, <1>2, <1>3, <2>2, <3>2 DEF Attributed, Current
      <4> QED
        BY <1>1, <1>7, <1>8, <2>2, <3>2, <4>1 DEF KeptGW
    <3>3. CASE /\ t \in Range(buffer) /\ ~Segments[seg].closes
               /\ \A e \in wrote[t].seg..(seg - 1): ~Segments[e].closes
      <4>1. \A e \in wrote[t].seg..(seg' - 1): ~Segments[e].closes
        BY <1>1, <2>1, <3>3
      <4> QED
        BY <1>1, <3>3, <4>1 DEF KeptGW
    <3> QED
      BY <1>1, <2>2, <3>1, <3>2, <3>3 DEF KeptGW
  <2>5. KeptOut(t)'
    <3>0. /\ Intact(t)' => Intact(t)
          /\ wrote' = wrote /\ wrote[t].seg < seg' /\ Segments'[wrote'[t].seg].spec = y
      BY <1>1, <2>1, <2>2 DEF Intact
    <3>1. CASE wrote[t].seg < seg
      <4>1. Intact(t) /\ Segments[wrote[t].seg].keep => t \in Range(report[y].out)
        BY <2>2, <3>1 DEF KeptOut
      <4> QED
        BY <2>3, <3>0, <4>1 DEF KeptOut
    <3>2. CASE wrote[t].seg = seg
      <4>1. Intact(t) /\ Segments[seg].keep => t \in Range(report'[y].out)
        BY <1>1, <1>2, <1>3, <1>7, <1>8, <2>2, <3>2 DEF KeptOut, Held
      <4> QED
        BY <3>0, <3>2, <4>1 DEF KeptOut
    <3> QED
      BY <1>1, <2>1, <3>1, <3>2
  <2> QED
    BY <2>4, <2>5
<1> QED
  BY <1>11, <1>12, <1>14, <1>15

\* A write is recorded: what holds of the earlier ones still does.
LEMMA OneMore ==
  ASSUME Filing, NEW by, Writer(by), by = "body" => pc = "body",
         NEW to \in -2..Len(pipes), Wrote(by, to), Len(pipes') = Len(pipes),
         Segments' = Segments
  PROVE  LET n == Len(wrote) + 1 IN
         /\ n \in Nat /\ DOMAIN wrote' = DOMAIN wrote \union {n} /\ n \notin DOMAIN wrote
         /\ \A t \in DOMAIN wrote: wrote'[t] = wrote[t] /\ t \in Nat /\ t < n
         /\ wrote'[n].by = by /\ wrote'[n].seg = seg /\ wrote'[n].to = to
         /\ \A t \in DOMAIN wrote':
              /\ wrote'[t].to \in -2..Len(pipes')
              /\ wrote'[t].by = "body" =>
                   /\ wrote'[t].seg \in 1..(IF pc' = "between" THEN seg' - 1 ELSE seg')
                   /\ wrote'[t].seg <= Len(Segments')
         /\ \A t \in DOMAIN wrote: Astray(t)' <=> Astray(t)
<1> USE DEF Filing
<1> DEFINE n == Len(wrote) + 1
<1>1. /\ n \in Nat /\ DOMAIN wrote' = DOMAIN wrote \union {n} /\ n \notin DOMAIN wrote
      /\ \A t \in DOMAIN wrote: wrote'[t] = wrote[t] /\ t \in Nat /\ t < n
      /\ wrote'[n] = [by |-> by, seg |-> seg, to |-> to]
  BY SeqsTyped DEF Wrote
<1>2. wrote'[n].by = by /\ wrote'[n].seg = seg /\ wrote'[n].to = to
  BY <1>1
<1>3. seg' = seg /\ pc' \in {pc, "killed"} /\ seg \in Nat \ {0}
  BY SeqsTyped DEF Wrote
<1>4. by = "body" => seg <= Len(Segments)
  BY DEF TypeOK, ControlOK, InSegment
<1>5. ASSUME NEW t \in DOMAIN wrote'
      PROVE  /\ wrote'[t].to \in -2..Len(pipes')
             /\ wrote'[t].by = "body" =>
                  /\ wrote'[t].seg \in 1..(IF pc' = "between" THEN seg' - 1 ELSE seg')
                  /\ wrote'[t].seg <= Len(Segments')
  <2>1. CASE t \in DOMAIN wrote
    <3>1. /\ wrote[t].to \in -2..Len(pipes)
          /\ wrote[t].by = "body" =>
               /\ wrote[t].seg \in 1..(IF pc = "between" THEN seg - 1 ELSE seg)
               /\ wrote[t].seg <= Len(Segments)
      BY <2>1 DEF Made
    <3> QED
      BY <1>1, <1>3, <2>1, <3>1
  <2>2. CASE t = n
    BY <1>2, <1>3, <1>4, <2>2
  <2> QED
    BY <1>1, <2>1, <2>2
<1>6. \A t \in DOMAIN wrote: Astray(t)' <=> Astray(t)
  BY <1>1, <1>3 DEF Astray
<1> QED
  BY <1>1, <1>2, <1>5, <1>6

\* A write to the GinkgoWriter.
LEMMA WriterFiling ==
  ASSUME Filing, Segments' = Segments, NEW by, Writer(by), by = "body" => pc = "body",
         WriteGinkgoWriter(by)
  PROVE  InOrder' /\ Made' /\ Attributed' /\ Kept'
<1> USE DEF Filing
<1>0. PICK n: n = Len(wrote) + 1
  OBVIOUS
<1>1. /\ UNCHANGED <<seg, pc, ret, intercepting, accumulatedOutput, report, pipes>>
      /\ Wrote(by, GinkgoWriter) /\ buffer' = Append(buffer, n)
      /\ GinkgoWriter \in -2..Len(pipes)
  BY <1>0, PipesTyped DEF WriteGinkgoWriter, Record, Wrote, self, caller, GinkgoWriter
<1>2. /\ n \in Nat /\ DOMAIN wrote' = DOMAIN wrote \union {n} /\ n \notin DOMAIN wrote
      /\ \A t \in DOMAIN wrote: wrote'[t] = wrote[t] /\ t \in Nat /\ t < n
      /\ wrote'[n].by = by /\ wrote'[n].seg = seg /\ wrote'[n].to = GinkgoWriter
      /\ \A t \in DOMAIN wrote':
           /\ wrote'[t].to \in -2..Len(pipes')
           /\ wrote'[t].by = "body" =>
                /\ wrote'[t].seg \in 1..(IF pc' = "between" THEN seg' - 1 ELSE seg')
                /\ wrote'[t].seg <= Len(Segments')
      /\ \A t \in DOMAIN wrote: Astray(t)' <=> Astray(t)
  BY <1>0, <1>1, OneMore
<1>3. /\ SamePipe /\ (Live' <=> Live) /\ (Unfiled' <=> Unfiled) /\ (UnfiledGW' <=> UnfiledGW)
      /\ Current' = Current
  BY <1>1 DEF SamePipe, InUse, Pipe, Live, Unfiled, UnfiledGW, Current, InSegment
<1>4. Range(buffer') = Range(buffer) \union {n} /\ Range(buffer) \subseteq DOMAIN wrote
  BY <1>1, <1>2, SeqsTyped, Ranges DEF Made
<1>5. Increasing(buffer')
  <2>1. Below(Range(buffer), {n}) /\ Increasing(buffer)
    BY <1>2, <1>4 DEF Below, InOrder
  <2> QED
    BY <1>1, <1>2, <2>1, SeqsTyped, Orders
<1>6. InOrder'
  <2>1. \A spec \in DOMAIN report: Range(report[spec].gw) \subseteq DOMAIN wrote
    BY DEF Made
  <2> QED
    BY <1>1, <1>2, <1>3, <1>4, <1>5, <2>1 DEF InOrder, SamePipe, Below
<1>7. Made'
  BY <1>1, <1>2, <1>3, <1>4 DEF Made, SamePipe
<1>8. Attributed'
  <2>1. by = "body" => Segments[seg].spec = Segments[Current].spec
    BY DEF Current
  <2> QED
    BY <1>1, <1>2, <1>3, <1>4, <2>1 DEF Attributed, SamePipe, Made
<1>9. Kept'
  <2>1. ASSUME NEW t \in DOMAIN wrote, KeptGW(t), KeptOut(t)
        PROVE  KeptGW(t)' /\ KeptOut(t)'
    BY <1>1, <1>2, <1>3, <1>4, <2>1 DEF KeptGW, KeptOut, Held, Intact, SamePipe
  <2>2. KeptGW(n)' /\ KeptOut(n)'
    BY <1>1, <1>2, <1>4, SeqsTyped DEF KeptGW, KeptOut, Intact, GinkgoWriter
  <2> QED
    BY <1>2, <2>1, <2>2 DEF Kept
<1> QED
  BY <1>6, <1>7, <1>8, <1>9

\* A write to stdout: to the pipe in use, to an older one that a child process
\* holds, to the console, or to nowhere.
LEMMA StdoutFiling ==
  ASSUME Filing, Segments' = Segments, NEW by, Writer(by), by = "body" => pc = "body",
         WriteStdout(by)
  PROVE  InOrder' /\ Made' /\ Attributed' /\ Kept'
<1> USE DEF Filing
<1>0. PICK n: n = Len(wrote) + 1
  OBVIOUS
<1>1. PICK to \in -1..Len(pipes):
        /\ UNCHANGED buffer /\ Wrote(by, to)
        /\ \/ to \in {Nothing, Console} /\ UNCHANGED pipes
           \/ to \in DOMAIN pipes /\ to = StdoutOf(by) /\ WrittenTo(to)
  BY StdoutWrites
<1>2. /\ UNCHANGED <<buffer, seg, ret, intercepting, accumulatedOutput, report>>
      /\ pc' \in {pc, "killed"} /\ Len(pipes') = Len(pipes) /\ to \in -2..Len(pipes)
      /\ Len(pipes) \in Nat /\ DOMAIN pipes = 1..Len(pipes) /\ DOMAIN pipes' = DOMAIN pipes
  BY <1>1, PipesTyped DEF Wrote, WrittenTo
<1>3. /\ n \in Nat /\ DOMAIN wrote' = DOMAIN wrote \union {n} /\ n \notin DOMAIN wrote
      /\ \A t \in DOMAIN wrote: wrote'[t] = wrote[t] /\ t \in Nat /\ t < n
      /\ wrote'[n].by = by /\ wrote'[n].seg = seg /\ wrote'[n].to = to
      /\ \A t \in DOMAIN wrote':
           /\ wrote'[t].to \in -2..Len(pipes')
           /\ wrote'[t].by = "body" =>
                /\ wrote'[t].seg \in 1..(IF pc' = "between" THEN seg' - 1 ELSE seg')
                /\ wrote'[t].seg <= Len(Segments')
      /\ \A t \in DOMAIN wrote: Astray(t)' <=> Astray(t)
  BY <1>0, <1>1, <1>2, OneMore
<1>4. /\ Live' => Live /\ pc' = pc
      /\ Unfiled' => Unfiled /\ pc' = pc
      /\ UnfiledGW' => UnfiledGW /\ Current' = Current
      /\ Live /\ Unfiled' => Live'
      /\ Pipe' = Pipe
  BY <1>2 DEF Live, Unfiled, UnfiledGW, Current, InSegment, Pausing, Pipe
<1>5. \A q \in DOMAIN pipes:
        /\ pipes'[q].bailout = pipes[q].bailout /\ pipes'[q].broken = pipes[q].broken
        /\ pipes'[q].buf = pipes[q].buf
        /\ pipes'[q].data = IF q = to THEN Append(pipes[q].data, n) ELSE pipes[q].data
  <2>1. CASE to \in {Nothing, Console} /\ UNCHANGED pipes
    BY <1>2, <2>1 DEF Nothing, Console
  <2>2. CASE to \in DOMAIN pipes /\ WrittenTo(to)
    BY <1>0, <2>2 DEF WrittenTo
  <2> QED
    BY <1>1, <2>1, <2>2
<1>6. /\ Live => Pipe \in DOMAIN pipes /\ InUse.data \in Seq(Nat)
      /\ Live => (InUse.buf)' = InUse.buf
      /\ Live => (InUse.data)' = IF to = Pipe THEN Append(InUse.data, n) ELSE InUse.data
  <2>1. Live => Pipe \in DOMAIN pipes /\ InUse.data \in Seq(Nat)
    BY SeqsTyped
  <2> QED
    BY <1>4, <1>5, <2>1 DEF InUse
<1>7. Live => /\ Range((InUse.data)') = IF to = Pipe THEN Range(InUse.data) \union {n}
                                                     ELSE Range(InUse.data)
              /\ Range(InUse.data) \subseteq DOMAIN wrote /\ Range(InUse.buf) \subseteq DOMAIN wrote
              /\ Increasing((InUse.data)')
  <2> SUFFICES ASSUME Live
               PROVE  /\ Range((InUse.data)') = IF to = Pipe THEN Range(InUse.data) \union {n}
                                                             ELSE Range(InUse.data)
                      /\ Range(InUse.data) \subseteq DOMAIN wrote
                      /\ Range(InUse.buf) \subseteq DOMAIN wrote
                      /\ Increasing((InUse.data)')
    OBVIOUS
  <2>1. PICK d \in Seq(Nat): d = InUse.data
    BY <1>6
  <2>2. /\ Range(d) \subseteq DOMAIN wrote /\ Increasing(d)
        /\ Range(InUse.buf) \subseteq DOMAIN wrote
    BY <2>1 DEF Made, InOrder
  <2>3. Range(Append(d, n)) = Range(d) \union {n}
    BY <1>3, Ranges
  <2>4. Below(Range(d), {n})
    BY <1>3, <2>2 DEF Below
  <2>5. Increasing(Append(d, n))
    BY <1>3, <2>2, <2>4, Orders
  <2> QED
    BY <1>6, <2>1, <2>2, <2>3, <2>5
<1>8. InOrder'
  <2>1. /\ Increasing(accumulatedOutput)' /\ Increasing(buffer)'
        /\ \A spec \in DOMAIN report': /\ Increasing(report'[spec].out)
                                       /\ Increasing(report'[spec].gw)
    BY <1>2 DEF InOrder
  <2>2. ASSUME Live'
        PROVE  /\ Increasing((InUse.buf)') /\ Increasing((InUse.data)')
               /\ Below(Range(accumulatedOutput), Range((InUse.buf)') \union Range((InUse.data)'))
               /\ Below(Range((InUse.buf)'), Range((InUse.data)'))
    <3>1. /\ Live /\ Increasing(InUse.buf)
          /\ Below(Range(accumulatedOutput), Range(InUse.buf) \union Range(InUse.data))
          /\ Below(Range(InUse.buf), Range(InUse.data))
          /\ Range(accumulatedOutput) \subseteq DOMAIN wrote
      BY <1>4, <2>2 DEF InOrder, Made
    <3>2. Below(Range(accumulatedOutput), {n}) /\ Below(Range(InUse.buf), {n})
      BY <1>3, <1>7, <3>1 DEF Below
    <3> QED
      BY <1>6, <1>7, <3>1, <3>2 DEF Below
  <2>3. ASSUME NEW spec \in DOMAIN report
        PROVE  /\ Unfiled' => Below(Range(report[spec].out), Range(accumulatedOutput))
               /\ Live' => Below(Range(report[spec].out),
                                 Range((InUse.buf)') \union Range((InUse.data)'))
               /\ UnfiledGW' => Below(Range(report[spec].gw), Range(buffer))
    <3>1. Below(Range(report[spec].out), {n})
      BY <1>3 DEF Below, Made
    <3> QED
      BY <1>4, <1>6, <1>7, <3>1 DEF InOrder, Below
  <2> QED
    BY <1>2, <2>1, <2>2, <2>3 DEF InOrder
<1>9. Made'
  <2>1. Live' => (Range(InUse.buf) \union Range(InUse.data))' \subseteq DOMAIN wrote'
    BY <1>3, <1>4, <1>6, <1>7
  <2> QED
    BY <1>2, <1>3, <2>1 DEF Made
<1>10. Attributed'
  <2>1. \A t \in Range(accumulatedOutput'):
          Unfiled' /\ wrote'[t].by = "body" =>
            (wrote'[t].seg = seg' /\ pc' # "between") \/ Astray(t)'
    BY <1>2, <1>3, <1>4 DEF Attributed, Made
  <2>2. Live' => \A t \in Range((InUse.buf)') \union Range((InUse.data)'):
          wrote'[t].by = "body" => (wrote'[t].seg = seg' /\ pc' # "between") \/ Astray(t)'
    <3> SUFFICES ASSUME Live', NEW t \in Range((InUse.buf)') \union Range((InUse.data)'),
                        wrote'[t].by = "body"
                 PROVE  (wrote'[t].seg = seg' /\ pc' # "between") \/ Astray(t)'
      OBVIOUS
    <3>1. CASE t = n
      BY <1>2, <1>3, <1>4, <3>1
    <3>2. CASE t # n
      <4>1. t \in Range(InUse.buf) \union Range(InUse.data) /\ t \in DOMAIN wrote /\ Live
        BY <1>4, <1>6, <1>7, <3>2
      <4> QED
        BY <1>2, <1>3, <1>4, <4>1 DEF Attributed
    <3> QED
      BY <3>1, <3>2
  <2>3. UnfiledGW' => \A t \in Range(buffer'):
          wrote'[t].by = "body" => Segments'[wrote'[t].seg].spec = Segments'[Current'].spec
    BY <1>2, <1>3, <1>4 DEF Attributed, Made
  <2>4. \A spec \in DOMAIN report':
          /\ \A t \in Range(report'[spec].out):
               wrote'[t].by = "body" => Segments'[wrote'[t].seg].spec = spec \/ Astray(t)'
          /\ \A t \in Range(report'[spec].gw):
               wrote'[t].by = "body" => Segments'[wrote'[t].seg].spec = spec
    BY <1>2, <1>3 DEF Attributed, Made
  <2> QED
    BY <2>1, <2>2, <2>3, <2>4 DEF Attributed
<1>11. Kept'
  <2>1. ASSUME NEW t \in DOMAIN wrote, KeptGW(t), KeptOut(t)
        PROVE  KeptGW(t)' /\ KeptOut(t)'
    <3>1. wrote'[t] = wrote[t]
      BY <1>3
    <3>2. KeptGW(t)'
      BY <1>2, <2>1, <3>1 DEF KeptGW
    <3>3. Intact(t)' => Intact(t)
      <4>1. wrote[t].to \in -2..Len(pipes)
        BY DEF Made
      <4>2. wrote[t].to > 0 => wrote[t].to \in DOMAIN pipes
        BY <1>2, <4>1
      <4> QED
        BY <1>5, <3>1, <4>2 DEF Intact
    <3>4. Held(t) /\ Unfiled' => Held(t)'
      BY <1>2, <1>4, <1>6, <1>7, <3>1 DEF Held
    <3> QED
      BY <1>2, <1>4, <2>1, <3>1, <3>2, <3>3, <3>4 DEF KeptOut
  <2>2. ASSUME by = "body" PROVE KeptGW(n)' /\ KeptOut(n)'
    <3>1. KeptGW(n)'
      BY <1>1, <1>3 DEF KeptGW, GinkgoWriter
    <3>2. KeptOut(n)'
      <4> SUFFICES ASSUME Intact(n)', Unfiled' PROVE Held(n)'
        BY <1>2, <1>3, SeqsTyped DEF KeptOut
      <4>1. to > 0
        BY <1>3 DEF Intact
      <4>2. to = stdout
        BY <1>1, <2>2, <4>1 DEF StdoutOf, Nothing, Console
      <4>3. Live /\ stdout = Pipe
        BY <2>2, <4>1, <4>2 DEF Shape, Live, Console
      <4> QED
        BY <1>3, <1>4, <1>7, <4>2, <4>3 DEF Held
    <3> QED
      BY <3>1, <3>2
  <2> QED
    BY <1>3, <2>1, <2>2 DEF Kept
<1> QED
  BY <1>8, <1>9, <1>10, <1>11

-----------------------------------------------------------------------------
(* Output is filed                                                         *)

\* The whole invariant.
LEMMA FilingInvariance == Spec => []Filing
<1>1. Init => Filing
  <2> SUFFICES ASSUME Init PROVE Filing
    OBVIOUS
  <2>1. TypeOK /\ Shape
    BY InitialShape
  <2>2. /\ \A e: e = <<>> => Range(e) = {} /\ Increasing(e)
        /\ accumulatedOutput = <<>> /\ buffer = <<>> /\ DOMAIN wrote = {} /\ DOMAIN pipes = {}
        /\ ~Live
    <3>1. /\ accumulatedOutput = <<>> /\ buffer = <<>> /\ wrote = <<>> /\ pipes = <<>>
          /\ ~Live
      BY DEF Init, Live
    <3>2. DOMAIN wrote = {} /\ DOMAIN pipes = {}
      BY <3>1
    <3> QED
      BY <3>1, <3>2, NothingIn, Zenon
  <2>3. \A spec \in DOMAIN report: report[spec].out = <<>> /\ report[spec].gw = <<>>
    BY DEF Init
  <2>4. Drained /\ Kept
    BY <2>2 DEF Drained, Kept
  <2>5. InOrder
    BY <2>2, <2>3 DEF InOrder, Below
  <2>6. Made
    BY <2>2, <2>3 DEF Made
  <2>7. Attributed
    BY <2>2, <2>3 DEF Attributed
  <2> QED
    BY <2>1, <2>4, <2>5, <2>6, <2>7 DEF Filing
<1>2. Filing /\ [Next]_vars => Filing'
  <2> SUFFICES ASSUME Filing, [Next]_vars PROVE Filing'
    OBVIOUS
  <2>1. TypeOK' /\ Shape' /\ Segments' = Segments /\ Drained'
    BY StepControl, StepPipes, StepOutput, StepShape, StepDrained, Unchanged DEF Filing, TypeOK
  <2>2. CASE Carry
    BY <2>1, <2>2, CarryFiling DEF Filing
  <2>3. CASE Moves
    <3>1. CASE Receive
      BY <2>1, <3>1, ReceivedFiling DEF Receive, Filing
    <3>2. ASSUME NEW by, Writer(by), by = "body" => pc = "body",
                 WriteStdout(by) \/ WriteGinkgoWriter(by)
          PROVE  Filing'
      BY <2>1, <3>2, StdoutFiling, WriterFiling DEF Filing
    <3> QED
      BY <2>1, <2>3, <3>1, <3>2, StartFiling, StoppedFiling, EarlyFiling, MovedFiling
         DEF Moves, Filing
  <2> QED
    BY <2>2, <2>3, Classified DEF Filing
<1> QED
  BY <1>1, <1>2, PTL DEF Spec

\* What a body wrote to stdout or to the GinkgoWriter is in the report of its
\* spec, once and in order, and in no other: for every interleaving of the
\* suite with the copying goroutines, leaked goroutines and a child process.
\* Only a bailout, a server that fails and an early return make an exception.
THEOREM OutputIsFiled == Spec => []OutputFiled
<1>1. ASSUME Filing PROVE OutputFiled
  <2> USE DEF Filing
  <2>1. ASSUME NEW spec \in DOMAIN report
        PROVE  Increasing(report[spec].out) /\ Increasing(report[spec].gw)
    BY <1>1 DEF InOrder
  <2>2. ASSUME NEW spec \in DOMAIN report,
               NEW t \in Range(report[spec].out) \union Range(report[spec].gw)
        PROVE  \/ Segments[wrote[t].seg].spec = spec
               \/ wrote[t].by # "body" \/ \E s \in wrote[t].seg..seg: Segments[s].early
    <3>1. Segments[wrote[t].seg].spec = spec \/ wrote[t].by # "body" \/ Astray(t)
      BY <1>1 DEF Attributed
    <3>2. ASSUME Astray(t) PROVE \E s \in wrote[t].seg..seg: Segments[s].early
      <4>1. PICK s \in wrote[t].seg..(seg - 1): Segments[s].early
        BY <3>2 DEF Astray
      <4>2. t \in DOMAIN wrote /\ wrote[t] \in WriteType /\ seg \in Nat
        BY <1>1, SeqsTyped DEF Made
      <4>3. wrote[t].seg \in Nat
        BY <4>2 DEF WriteType
      <4>4. s \in wrote[t].seg..seg
        BY <4>2, <4>3
      <4> QED
        BY <4>1, <4>4
    <3> QED
      BY <3>1, <3>2
  <2>3. ASSUME NEW s \in 1..(seg - 1), NEW t \in DOMAIN wrote, wrote[t].seg = s,
               wrote[t].by = "body"
        PROVE  IF wrote[t].to = GinkgoWriter
               THEN ~Segments[s].early /\ (\E e \in s..(seg - 1): Segments[e].closes)
                      => t \in Range(report[Segments[s].spec].gw)
               ELSE /\ wrote[t].to # Console /\ wrote[t].to # Nothing /\ Segments[s].keep
                    /\ ~Segments[s].early
                    /\ ~pipes[wrote[t].to].bailout /\ ~pipes[wrote[t].to].broken
                    => t \in Range(report[Segments[s].spec].out)
    <3>1. ~Segments[s].early => KeptGW(t) /\ KeptOut(t)
      BY <1>1, <2>3 DEF Kept
    <3>2. CASE wrote[t].to = GinkgoWriter
      BY <2>3, <3>1, <3>2 DEF KeptGW
    <3>3. CASE wrote[t].to # GinkgoWriter
      <4>1. wrote[t].to \in -2..Len(pipes) /\ Len(pipes) \in Nat /\ seg \in Nat
        BY <1>1, PipesTyped, SeqsTyped DEF Made
      <4>2. wrote[t].to # Console /\ wrote[t].to # Nothing => wrote[t].to > 0
        BY <3>3, <4>1 DEF GinkgoWriter, Console, Nothing
      <4>3. s < seg
        BY <4>1
      <4> QED
        BY <2>3, <3>1, <3>3, <4>2, <4>3 DEF KeptOut, Intact
    <3> QED
      BY <3>2, <3>3
  <2> QED
    BY <2>1, <2>2, <2>3 DEF OutputFiled, Within
<1> QED
  BY <1>1, FilingInvariance, PTL
=============================================================================
