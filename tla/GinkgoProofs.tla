---------------------------- MODULE GinkgoProofs ----------------------------
(***************************************************************************)
(* Proofs about the command line, for any suites, any configurations, any  *)
(* number of compiling goroutines, any packages and any number of edits:   *)
(* the exit code of `ginkgo run` says what became of the suites, and       *)
(* `ginkgo watch` runs a suite after what it watches was last modified.    *)
(***************************************************************************)
EXTENDS Ginkgo, FiniteSetTheorems, WellFoundedInduction, TLAPS

-----------------------------------------------------------------------------
(* The invariant of `ginkgo run`                                           *)

Bundles == {<<>>} \cup {<<s>> : s \in SuiteType}
Holds   == {<<>>} \cup {<<k>> : k \in Nat}
OpcType == [idx : Nat \ {0}, fed : Nat, stopped : BOOLEAN, toCompile : Seq(Nat),
            compiled : Seq(Bundles)]
RunPcs  == {"find", "start", "feed", "first", "next", "running", "cleanup", "finalize"} \cup Ends

RunTyped ==
  /\ config \in ConfigType /\ runPc \in RunPcs /\ iteration \in Nat
  /\ suites \in Seq(SuiteType)
  /\ opc \in OpcType /\ compilers \in [1..NumCompilers -> Holds]
  /\ signalled \in BOOLEAN /\ elapsed \in BOOLEAN

\* Every suite has a name and a count of its own.
Named ==
  /\ \A i, j \in DOMAIN suites : suites[i].name = suites[j].name => i = j
  /\ completed \in [{suites[i].name : i \in DOMAIN suites} -> Nat]

\* The command decides what the loop does; what it runs has been built.
Begun ==
  /\ command = "" => runPc = "find"
  /\ runPc = "find" => suites = <<>> /\ iteration = 0
  /\ command = "run" /\ ~(runPc = "exited" /\ suites = <<>>) => ~config.build
  /\ ~unbuilt

Looping  == runPc \in {"feed", "first", "next", "running"}
Ending   == runPc \in {"cleanup", "finalize"}
\* The loop over the suites was left behind.
Left     == runPc \in {"finalize", "exited", "finalizeAborted"}
\* An interrupt has broken off the loop over the suites, or may have.
BrokenOff == signalled /\ opc.stopped

\* A bundle that was handed out is in the channel, with one goroutine, or done.
Placed ==
  /\ runPc \in {"find", "start"} =>
       opc.toCompile = <<>> /\ \A c \in 1..NumCompilers : compilers[c] = <<>>
  /\ Looping \/ Ending =>
       /\ opc.fed <= Len(suites) /\ opc.idx <= Len(suites) + 1
       /\ Len(opc.compiled) = Len(suites)
       /\ \A i \in DOMAIN suites : i < opc.idx => opc.compiled[i] # <<>>
       /\ \A x \in DOMAIN opc.toCompile :
            /\ opc.toCompile[x] \in 1..opc.fed /\ opc.compiled[opc.toCompile[x]] = <<>>
            /\ \A y \in DOMAIN opc.toCompile : opc.toCompile[x] = opc.toCompile[y] => x = y
       /\ \A c \in 1..NumCompilers : compilers[c] # <<>> =>
            /\ compilers[c][1] \in 1..opc.fed /\ opc.compiled[compilers[c][1]] = <<>>
            /\ \A x \in DOMAIN opc.toCompile : opc.toCompile[x] # compilers[c][1]
            /\ \A d \in 1..NumCompilers : compilers[d] = compilers[c] => d = c
       /\ \A i \in DOMAIN suites : i > opc.fed => opc.compiled[i] = <<>>

FailedBefore(k) == \E i \in DOMAIN suites : i < k /\ suites[i].state \in FailureStates

\* The compiler is stopped for a reason that keeps what follows from running.
Stopped ==
  /\ runPc \in {"feed", "first", "next"} /\ opc.stopped =>
       elapsed \/ (~config.keepGoing /\ FailedBefore(opc.idx))
  /\ runPc = "running" => ~opc.stopped /\ opc.idx > 1 /\ suites[opc.idx - 1].state = "Failed"

\* What the compiler answers about suite i, before it is received.
Answer(i, s) ==
  /\ s.name = suites[i].name /\ s.precompiled = suites[i].precompiled
  /\ suites[i].path => s.path
  /\ s.path \/ opc.stopped \/ s.state \in {"FailedToCompile", "SkippedDueToEmptyCompilation"}
  /\ s.state \in FailureStates => s.state = "FailedToCompile"
Answered ==
  /\ Looping => \A i \in DOMAIN suites : i >= opc.idx =>
       /\ suites[i].state \notin FailureStates
       /\ opc.compiled[i] # <<>> => Answer(i, opc.compiled[i][1])
  /\ runPc = "start" => \A i \in DOMAIN suites : suites[i].state \notin FailureStates

\* What is on disk is known to the suite, or to the answer about it.
OnDisk ==
  /\ runPc = "start" => \A i \in DOMAIN suites : suites[i].name \in binaries => suites[i].path
  /\ Looping \/ (Ending /\ ~BrokenOff) => \A i \in DOMAIN suites : suites[i].name \in binaries =>
       \/ suites[i].path
       \/ i >= opc.idx /\ opc.compiled[i] # <<>> /\ opc.compiled[i][1].path
  /\ Left /\ ~BrokenOff /\ ~config.build /\ ~config.preserve =>
       \A i \in DOMAIN suites : suites[i].name \in binaries => suites[i].precompiled

Done     == {"Passed", "SkippedDueToEmptyCompilation"}
Verdicts == Done \cup {"SkippedDueToPriorFailures"} \cup FailureStates

\* The suites received have a verdict, and those that completed are counted.
Counted ==
  /\ ~config.build /\ (Looping \/ ((runPc = "cleanup" \/ Left) /\ ~BrokenOff)) =>
       \A i \in DOMAIN suites :
         /\ i < opc.idx =>
              /\ suites[i].state \in Verdicts
              /\ suites[i].state = "SkippedDueToPriorFailures" => FailedBefore(i)
         /\ completed[suites[i].name] =
              IF i < opc.idx /\ suites[i].state \in Done THEN iteration + 1 ELSE iteration
  /\ runPc = "start" => \A i \in DOMAIN suites : completed[suites[i].name] = iteration

\* Unless it was broken off, the run ends after the last suite; the exit code is that of Finalize.
Ended ==
  /\ (runPc = "cleanup" \/ Left) /\ ~BrokenOff => opc.idx > Len(suites)
  /\ runPc = "exited" /\ command = "run" /\ suites # <<>> =>
       exitCode = IF Failures > 0 THEN 1
                  ELSE IF AnyHaveProgrammaticFocus /\ ~config.editor THEN 197 ELSE 0
  /\ runPc \in {"runAborted", "finalizeAborted"} => exitCode = 1

RunInv == RunTyped /\ Named /\ Begun /\ Placed /\ Stopped /\ Answered /\ OnDisk /\ Counted /\ Ended

-----------------------------------------------------------------------------
(* Operators                                                               *)

\* TestSuites.Failures answers more than none exactly when a suite has failed.
LEMMA FailuresCount ==
  ASSUME suites \in Seq(SuiteType)
  PROVE  /\ Failures \in Nat
         /\ Failures > 0 <=> \E i \in DOMAIN suites : suites[i].state \in FailureStates
<1> DEFINE F == {i \in DOMAIN suites : suites[i].state \in FailureStates}
<1>1. DOMAIN suites = 1..Len(suites) /\ Len(suites) \in Nat
  OBVIOUS
<1>2. IsFiniteSet(1..Len(suites))
  BY <1>1, FS_Interval
<1>3. F \in SUBSET (1..Len(suites))
  BY <1>1
<1>4. IsFiniteSet(F)
  BY <1>2, <1>3, FS_Subset
<1>5. Cardinality(F) \in Nat /\ (Cardinality(F) = 0 <=> F = {})
  BY <1>4, FS_CardinalityType, FS_EmptySet
<1>6. Failures = Cardinality(F)
  BY DEF Failures
<1>7. F # {} <=> \E i \in DOMAIN suites : suites[i].state \in FailureStates
  OBVIOUS
<1> QED
  BY <1>5, <1>6, <1>7

\* The same count with the received suite in its place.
LEMMA FailuresWithCount ==
  ASSUME suites \in Seq(SuiteType), NEW s
  PROVE  FailuresWith(s) > 0 <=> \E i \in DOMAIN suites :
           (IF i = opc.idx THEN s ELSE suites[i]).state \in FailureStates
<1> DEFINE F == {i \in DOMAIN suites : (IF i = opc.idx THEN s ELSE suites[i]).state \in FailureStates}
<1>1. DOMAIN suites = 1..Len(suites) /\ Len(suites) \in Nat
  OBVIOUS
<1>2. IsFiniteSet(1..Len(suites))
  BY <1>1, FS_Interval
<1>3. F \in SUBSET (1..Len(suites))
  BY <1>1
<1>4. IsFiniteSet(F)
  BY <1>2, <1>3, FS_Subset
<1>5. Cardinality(F) \in Nat /\ (Cardinality(F) = 0 <=> F = {})
  BY <1>4, FS_CardinalityType, FS_EmptySet
<1>6. FailuresWith(s) = Cardinality(F)
  BY DEF FailuresWith
<1>7. F # {} <=> \E i \in DOMAIN suites :
           (IF i = opc.idx THEN s ELSE suites[i]).state \in FailureStates
  OBVIOUS
<1> QED
  BY <1>5, <1>6, <1>7

\* The fields of a suite, an ordered parallel compiler and a configuration.
LEMMA Fields ==
  /\ \A s \in SuiteType : /\ s.name \in Names /\ s.path \in BOOLEAN /\ s.precompiled \in BOOLEAN
                          /\ s.focus \in BOOLEAN /\ s.ginkgo \in BOOLEAN /\ s.state \in SuiteStates
  /\ \A o \in OpcType : /\ o.idx \in Nat \ {0} /\ o.fed \in Nat /\ o.stopped \in BOOLEAN
                        /\ o.toCompile \in Seq(Nat) /\ o.compiled \in Seq(Bundles)
  /\ \A c \in ConfigType : /\ c.build \in BOOLEAN /\ c.keepGoing \in BOOLEAN
                           /\ c.preserve \in BOOLEAN /\ c.randomize \in BOOLEAN
BY DEF SuiteType, OpcType, ConfigType

\* A function on 1..n is a sequence.
LEMMA SequenceOf ==
  ASSUME NEW n \in Nat, NEW S, NEW f \in [1..n -> S]
  PROVE  f \in Seq(S) /\ Len(f) = n /\ DOMAIN f = 1..n
OBVIOUS

\* What a bundle that is done holds is a suite.
LEMMA BundleHolds ==
  ASSUME NEW b \in Bundles, b # <<>>
  PROVE  b[1] \in SuiteType /\ b = <<b[1]>>
BY DEF Bundles

-----------------------------------------------------------------------------
(* The suite loop                                                          *)

\* Next hands out the next suite and it is written back as t.
Receives(t, stop) ==
  /\ Received /\ Advance(stop) /\ suites' = [suites EXCEPT ![opc.idx] = t]
  /\ UNCHANGED <<config, compilers, signalled, elapsed, iteration, binaries>>

\* The compiler after Advance.
LEMMA Advanced ==
  ASSUME RunTyped, NEW stop \in BOOLEAN, Advance(stop)
  PROVE  /\ opc' \in OpcType
         /\ opc'.idx = opc.idx + 1 /\ opc'.fed = opc.fed /\ opc'.toCompile = opc.toCompile
         /\ opc'.compiled = opc.compiled /\ (opc'.stopped <=> opc.stopped \/ stop)
<1> DEFINE st == opc.stopped \/ stop
<1>1. st \in BOOLEAN /\ (st <=> opc.stopped \/ stop)
  OBVIOUS
<1>2. opc' = [opc EXCEPT !.idx = @ + 1, !.stopped = st] /\ opc \in OpcType
  BY DEF RunTyped, Advance
<1> HIDE DEF st
<1>3. opc'.stopped = st
  BY <1>1, <1>2 DEF OpcType
<1>4. /\ opc'.idx = opc.idx + 1 /\ opc'.fed = opc.fed
      /\ opc'.toCompile = opc.toCompile /\ opc'.compiled = opc.compiled
  BY <1>2 DEF OpcType
<1>5. opc.idx + 1 \in Nat \ {0}
  BY <1>2, Fields
<1>6. opc' \in OpcType
  BY <1>1, <1>2, <1>5 DEF OpcType
<1> QED
  BY <1>1, <1>3, <1>4, <1>6

\* What is received is a suite, the one the compiler was asked about.
LEMMA ReceivedSuite ==
  ASSUME RunInv, Received
  PROVE  /\ opc.idx \in DOMAIN suites /\ opc.idx \in Nat \ {0}
         /\ NextSuite \in SuiteType /\ Answer(opc.idx, NextSuite)
         /\ suites[opc.idx] \in SuiteType /\ suites[opc.idx].state \notin FailureStates
         /\ opc.compiled[opc.idx] # <<>>
         /\ suites \in Seq(SuiteType) /\ Len(suites) \in Nat /\ DOMAIN suites = 1..Len(suites)
<1>1. opc.idx \in Nat \ {0} /\ opc.compiled \in Seq(Bundles)
  BY Fields DEF RunInv, RunTyped
<1>2. suites \in Seq(SuiteType) /\ Len(suites) \in Nat /\ DOMAIN suites = 1..Len(suites)
  BY DEF RunInv, RunTyped
<1>3. opc.idx \in DOMAIN suites /\ opc.compiled[opc.idx] # <<>>
  BY <1>1, <1>2 DEF Received
<1>4. Looping
  BY DEF Looping, Received
<1>5. Len(opc.compiled) = Len(suites)
  BY <1>4 DEF RunInv, Placed
<1>6. opc.compiled[opc.idx] \in Bundles
  BY <1>1, <1>2, <1>3, <1>5
<1>7. NextSuite \in SuiteType
  BY <1>3, <1>6, BundleHolds DEF NextSuite
<1>8. suites[opc.idx].state \notin FailureStates /\ Answer(opc.idx, NextSuite)
  BY <1>1, <1>3, <1>4 DEF RunInv, Answered, NextSuite
<1>9. suites[opc.idx] \in SuiteType
  BY <1>2, <1>3
<1> QED
  BY <1>1, <1>2, <1>3, <1>7, <1>8, <1>9

\* What is in the channel, with the goroutines and on disk stays so when a
\* suite is received.
LEMMA ReceiveKeeps ==
  ASSUME RunInv, NEW t \in SuiteType, NEW stop \in BOOLEAN, Receives(t, stop),
         t.name = NextSuite.name, t.precompiled = NextSuite.precompiled, t.path = NextSuite.path,
         runPc' \in {"next", "running", "cleanup"}
  PROVE  /\ RunTyped' /\ Placed' /\ Answered' /\ OnDisk'
         /\ DOMAIN suites' = DOMAIN suites /\ Len(suites') = Len(suites)
         /\ suites'[opc.idx] = t /\ opc'.idx = opc.idx + 1
         /\ \A i \in DOMAIN suites : suites'[i].name = suites[i].name
         /\ \A i \in DOMAIN suites : i # opc.idx => suites'[i] = suites[i]
         /\ {suites'[i].name : i \in DOMAIN suites'} = {suites[i].name : i \in DOMAIN suites}
         /\ \A i, j \in DOMAIN suites' : suites'[i].name = suites'[j].name => i = j
<1>1. Received /\ Advance(stop) /\ runPc = "next" /\ suites' = [suites EXCEPT ![opc.idx] = t]
  BY DEF Receives, Received
<1>2. /\ opc.idx \in DOMAIN suites /\ opc.idx \in Nat \ {0}
      /\ NextSuite \in SuiteType /\ Answer(opc.idx, NextSuite)
      /\ suites[opc.idx] \in SuiteType /\ opc.compiled[opc.idx] # <<>>
      /\ suites \in Seq(SuiteType) /\ Len(suites) \in Nat /\ DOMAIN suites = 1..Len(suites)
  BY <1>1, ReceivedSuite
<1>3. /\ opc' \in OpcType /\ opc'.idx = opc.idx + 1 /\ opc'.fed = opc.fed
      /\ opc'.toCompile = opc.toCompile /\ opc'.compiled = opc.compiled
      /\ (opc'.stopped <=> opc.stopped \/ stop)
  BY <1>1, Advanced DEF RunInv
<1>4. /\ suites' \in Seq(SuiteType) /\ DOMAIN suites' = DOMAIN suites /\ Len(suites') = Len(suites)
      /\ suites'[opc.idx] = t
      /\ \A i \in DOMAIN suites : i # opc.idx => suites'[i] = suites[i]
  BY <1>1, <1>2
<1>5. t.name = suites[opc.idx].name /\ t.precompiled = suites[opc.idx].precompiled
  BY <1>2 DEF Answer
<1>6. \A i \in DOMAIN suites : suites'[i].name = suites[i].name
  BY <1>4, <1>5
<1>7. RunTyped'
  BY <1>3, <1>4 DEF RunInv, RunTyped, RunPcs, Receives, Ends
<1>8. Placed'
  <2>1. Looping /\ runPc' \notin {"find", "start"}
    BY <1>1 DEF Looping
  <2>2. /\ opc.fed <= Len(suites) /\ Len(opc.compiled) = Len(suites)
        /\ \A i \in DOMAIN suites : i < opc.idx => opc.compiled[i] # <<>>
        /\ \A i \in DOMAIN suites : i > opc.fed => opc.compiled[i] = <<>>
        /\ \A x \in DOMAIN opc.toCompile :
             /\ opc.toCompile[x] \in 1..opc.fed /\ opc.compiled[opc.toCompile[x]] = <<>>
             /\ \A y \in DOMAIN opc.toCompile : opc.toCompile[x] = opc.toCompile[y] => x = y
        /\ \A c \in 1..NumCompilers : compilers[c] # <<>> =>
             /\ compilers[c][1] \in 1..opc.fed /\ opc.compiled[compilers[c][1]] = <<>>
             /\ \A x \in DOMAIN opc.toCompile : opc.toCompile[x] # compilers[c][1]
             /\ \A d \in 1..NumCompilers : compilers[d] = compilers[c] => d = c
    BY <2>1 DEF RunInv, Placed
  <2>3. opc'.idx <= Len(suites') + 1
    BY <1>2, <1>3, <1>4
  <2>4. \A i \in DOMAIN suites' : i < opc'.idx => opc'.compiled[i] # <<>>
    BY <1>2, <1>3, <1>4, <2>2
  <2>5. compilers' = compilers
    BY DEF Receives
  <2> QED
    BY <1>3, <1>4, <2>1, <2>2, <2>3, <2>4, <2>5 DEF Placed
<1>9. Answered'
  <2>1. SUFFICES ASSUME NEW i \in DOMAIN suites, i >= opc.idx + 1
                 PROVE  /\ suites'[i].state \notin FailureStates
                        /\ opc.compiled[i] # <<>> => Answer(i, opc.compiled[i][1])'
    BY <1>3, <1>4 DEF Answered
  <2>2. i > opc.idx /\ i >= opc.idx /\ suites'[i] = suites[i]
    BY <1>2, <1>4, <2>1
  <2>3. /\ suites[i].state \notin FailureStates
        /\ opc.compiled[i] # <<>> => Answer(i, opc.compiled[i][1])
    BY <1>1, <2>2 DEF RunInv, Answered, Looping
  <2> QED
    BY <1>3, <2>2, <2>3 DEF Answer
<1>10. OnDisk'
  <2>1. SUFFICES ASSUME NEW i \in DOMAIN suites, suites'[i].name \in binaries'
                 PROVE  \/ suites'[i].path
                        \/ i >= opc'.idx /\ opc'.compiled[i] # <<>> /\ opc'.compiled[i][1].path
    BY <1>4 DEF OnDisk, Left
  <2>2. suites[i].name \in binaries
    BY <1>6, <2>1 DEF Receives
  <2>3. \/ suites[i].path
        \/ i >= opc.idx /\ opc.compiled[i] # <<>> /\ opc.compiled[i][1].path
    BY <1>1, <2>2 DEF RunInv, OnDisk, Looping, Left
  <2>4. CASE i = opc.idx
    BY <1>2, <1>4, <2>3, <2>4 DEF Answer, NextSuite
  <2>5. CASE i # opc.idx
    BY <1>2, <1>3, <1>4, <2>3, <2>5
  <2> QED
    BY <2>4, <2>5
<1> QED
  BY <1>3, <1>4, <1>6, <1>7, <1>8, <1>9, <1>10 DEF RunInv, Named

\* A failure before the suite that is received is still one afterwards.
LEMMA ReceiveKeepsFailures ==
  ASSUME RunInv, NEW t \in SuiteType, NEW stop \in BOOLEAN, Receives(t, stop),
         DOMAIN suites' = DOMAIN suites,
         \A i \in DOMAIN suites : i # opc.idx => suites'[i] = suites[i],
         NEW k \in Nat, k <= opc.idx
  PROVE  FailedBefore(k)' <=> FailedBefore(k)
<1>1. opc.idx \in Nat /\ DOMAIN suites \subseteq Nat
  BY Fields DEF RunInv, RunTyped
<1>2. \A i \in DOMAIN suites : i < k => suites'[i] = suites[i]
  BY <1>1
<1> QED
  BY <1>2 DEF FailedBefore

\* The suite that is received gets its verdict and, when it completed, its count.
LEMMA ReceiveCounts ==
  ASSUME RunInv, NEW t \in SuiteType, NEW stop \in BOOLEAN, Receives(t, stop),
         t.name = NextSuite.name, t.precompiled = NextSuite.precompiled, t.path = NextSuite.path,
         runPc' \in {"next", "running"}, ~config.build,
         t.state \in Verdicts,
         t.state = "SkippedDueToPriorFailures" => FailedBefore(opc.idx),
         completed' \in [DOMAIN completed -> Nat],
         \A n \in DOMAIN completed : completed'[n] =
           IF n = t.name /\ t.state \in Done THEN completed[n] + 1 ELSE completed[n]
  PROVE  Named' /\ Counted'
<1>1. Received /\ runPc = "next"
  BY DEF Receives, Received
<1>2. /\ opc.idx \in DOMAIN suites /\ opc.idx \in Nat \ {0}
      /\ NextSuite \in SuiteType /\ Answer(opc.idx, NextSuite)
      /\ suites[opc.idx].state \notin FailureStates
      /\ suites \in Seq(SuiteType) /\ Len(suites) \in Nat /\ DOMAIN suites = 1..Len(suites)
  BY <1>1, ReceivedSuite
<1>3. /\ DOMAIN suites' = DOMAIN suites /\ Len(suites') = Len(suites)
      /\ suites'[opc.idx] = t /\ opc'.idx = opc.idx + 1
      /\ \A i \in DOMAIN suites : suites'[i].name = suites[i].name
      /\ \A i \in DOMAIN suites : i # opc.idx => suites'[i] = suites[i]
      /\ {suites'[i].name : i \in DOMAIN suites'} = {suites[i].name : i \in DOMAIN suites}
      /\ \A i, j \in DOMAIN suites' : suites'[i].name = suites'[j].name => i = j
  BY ReceiveKeeps
<1>4. /\ completed \in [{suites[i].name : i \in DOMAIN suites} -> Nat]
      /\ \A i, j \in DOMAIN suites : suites[i].name = suites[j].name => i = j
  BY DEF RunInv, Named
<1>5. Named'
  BY <1>3, <1>4 DEF Named
<1>6. iteration' = iteration /\ iteration \in Nat
  BY DEF Receives, RunInv, RunTyped
<1>7. Counted'
  <2>1. SUFFICES ASSUME NEW i \in DOMAIN suites
                 PROVE  /\ i < opc.idx + 1 =>
                             /\ suites'[i].state \in Verdicts
                             /\ suites'[i].state = "SkippedDueToPriorFailures" => FailedBefore(i)'
                        /\ completed'[suites'[i].name] =
                             IF i < opc.idx + 1 /\ suites'[i].state \in Done
                             THEN iteration + 1 ELSE iteration
    BY <1>3, <1>6 DEF Counted, Left
  <2>2. /\ i < opc.idx =>
             /\ suites[i].state \in Verdicts
             /\ suites[i].state = "SkippedDueToPriorFailures" => FailedBefore(i)
        /\ completed[suites[i].name] =
             IF i < opc.idx /\ suites[i].state \in Done THEN iteration + 1 ELSE iteration
    BY <1>1 DEF RunInv, Counted, Looping, Left
  <2>3. i \in Nat /\ suites[i].name \in DOMAIN completed
    BY <1>2, <1>4
  <2>4. i <= opc.idx => (FailedBefore(i)' <=> FailedBefore(i))
    BY <1>3, <2>3, ReceiveKeepsFailures
  <2>5. CASE i = opc.idx
    <3>1. completed[suites[i].name] = iteration
      BY <1>2, <2>2, <2>5
    <3>2. t.name = suites[i].name
      BY <1>3, <2>5
    <3>3. completed'[suites'[i].name] = IF t.state \in Done THEN iteration + 1 ELSE iteration
      BY <1>3, <2>3, <3>1, <3>2
    <3> QED
      BY <1>2, <1>3, <2>4, <2>5, <3>3
  <2>6. CASE i < opc.idx
    <3>1. suites'[i] = suites[i] /\ suites[i].name # t.name
      BY <1>2, <1>3, <1>4, <2>3, <2>6
    <3> QED
      BY <1>2, <2>2, <2>3, <2>4, <2>6, <3>1
  <2>7. CASE i > opc.idx
    <3>1. suites'[i] = suites[i] /\ suites[i].name # t.name
      BY <1>2, <1>3, <1>4, <2>3, <2>7
    <3> QED
      BY <1>2, <2>2, <2>3, <2>7, <3>1
  <2> QED
    BY <1>2, <2>3, <2>5, <2>6, <2>7
<1> QED
  BY <1>5, <1>7

\* A reason to have stopped the compiler outlasts the suite that is received.
LEMMA ReceiveStaysStopped ==
  ASSUME RunInv, NEW t \in SuiteType, NEW stop \in BOOLEAN, Receives(t, stop),
         t.name = NextSuite.name, t.precompiled = NextSuite.precompiled, t.path = NextSuite.path,
         runPc' = "next",
         stop => elapsed \/ (~config.keepGoing /\ (t.state \in FailureStates \/ FailedBefore(opc.idx)))
  PROVE  Stopped'
<1>1. Received /\ Advance(stop) /\ runPc = "next"
  BY DEF Receives, Received
<1>2. /\ opc.idx \in DOMAIN suites /\ opc.idx \in Nat \ {0}
      /\ DOMAIN suites = 1..Len(suites) /\ Len(suites) \in Nat
  BY <1>1, ReceivedSuite
<1>3. /\ DOMAIN suites' = DOMAIN suites /\ suites'[opc.idx] = t /\ opc'.idx = opc.idx + 1
      /\ \A i \in DOMAIN suites : i # opc.idx => suites'[i] = suites[i]
  BY ReceiveKeeps
<1>4. opc'.stopped <=> opc.stopped \/ stop
  BY <1>1, Advanced DEF RunInv
<1>5. opc.stopped => elapsed \/ (~config.keepGoing /\ FailedBefore(opc.idx))
  BY <1>1 DEF RunInv, Stopped
<1>6. FailedBefore(opc.idx) => FailedBefore(opc.idx)'
  <2> SUFFICES ASSUME NEW i \in DOMAIN suites, i < opc.idx, suites[i].state \in FailureStates
               PROVE  FailedBefore(opc.idx)'
    BY DEF FailedBefore
  <2>1. i < opc.idx + 1 /\ i \in DOMAIN suites' /\ suites'[i] = suites[i]
    BY <1>2, <1>3
  <2> QED
    BY <1>3, <2>1 DEF FailedBefore
<1>7. t.state \in FailureStates => FailedBefore(opc.idx)'
  BY <1>2, <1>3 DEF FailedBefore
<1>8. opc'.stopped => elapsed \/ (~config.keepGoing /\ FailedBefore(opc.idx)')
  BY <1>4, <1>5, <1>6, <1>7
<1>9. config' = config /\ elapsed' = elapsed
  BY DEF Receives
<1> QED
  BY <1>8, <1>9 DEF Stopped

\* NextInterrupted: the rest of the suites is given up.
LEMMA InterruptedStep ==
  ASSUME RunInv, NextInterrupted, command' = command
  PROVE  RunInv'
<1>1. Receives(NextSuite, TRUE) /\ runPc' = "cleanup" /\ Received /\ signalled
  BY DEF NextInterrupted, Receives
<1>2. NextSuite \in SuiteType
  BY <1>1, ReceivedSuite
<1>3. /\ RunTyped' /\ Placed' /\ Answered' /\ OnDisk'
      /\ {suites'[i].name : i \in DOMAIN suites'} = {suites[i].name : i \in DOMAIN suites}
      /\ \A i, j \in DOMAIN suites' : suites'[i].name = suites'[j].name => i = j
  BY <1>1, <1>2, ReceiveKeeps
<1>4. opc'.stopped /\ signalled'
  <2>1. Advance(TRUE) /\ signalled' = signalled /\ RunTyped
    BY DEF NextInterrupted, RunInv
  <2>2. opc'.stopped <=> opc.stopped \/ TRUE
    BY <2>1, Advanced
  <2> QED
    BY <1>1, <2>1, <2>2
<1>5. completed' = completed /\ unbuilt' = unbuilt /\ config' = config
  BY DEF NextInterrupted
<1>6. Named'
  BY <1>3, <1>5 DEF RunInv, Named
<1>7. Begun'
  BY <1>1, <1>5 DEF RunInv, Begun, Received
<1>8. Stopped' /\ Counted' /\ Ended'
  BY <1>1, <1>4 DEF Stopped, Counted, Ended, BrokenOff, Looping, Left
<1> QED
  BY <1>3, <1>6, <1>7, <1>8 DEF RunInv

\* What a step of the loop over the suites leaves to be shown.
LEMMA LoopGoesOn ==
  ASSUME RunInv, NEW t \in SuiteType, NEW stop \in BOOLEAN, Receives(t, stop),
         t.name = NextSuite.name, t.precompiled = NextSuite.precompiled, t.path = NextSuite.path,
         runPc' \in {"next", "running"}, command' = command, ~unbuilt',
         Named', Stopped', Counted'
  PROVE  RunInv'
<1>1. RunTyped' /\ Placed' /\ Answered' /\ OnDisk'
  BY ReceiveKeeps
<1>2. runPc = "next" /\ config' = config
  BY DEF Receives, Received
<1>3. Begun'
  BY <1>2 DEF RunInv, Begun
<1>4. Ended'
  BY DEF Ended, Left
<1> QED
  BY <1>1, <1>3, <1>4 DEF RunInv

\* NextEmpty: a suite without tests has completed.
LEMMA EmptyStep ==
  ASSUME RunInv, NextEmpty, command' = command
  PROVE  RunInv'
<1>1. /\ Receives(NextSuite, FALSE) /\ runPc' = "next" /\ Received /\ ~config.build /\ ~unbuilt'
      /\ NextSuite.state = "SkippedDueToEmptyCompilation"
      /\ completed' = [completed EXCEPT ![NextSuite.name] = @ + 1]
  BY DEF NextEmpty, Receives, Received, RunInv, Begun
<1>2. NextSuite \in SuiteType
  BY <1>1, ReceivedSuite
<1>3. NextSuite.state \in Verdicts /\ NextSuite.state \in Done
  BY <1>1 DEF Verdicts, Done
<1>4. completed \in [DOMAIN completed -> Nat]
  BY DEF RunInv, Named
<1>5. /\ completed' \in [DOMAIN completed -> Nat]
      /\ \A n \in DOMAIN completed : completed'[n] =
           IF n = NextSuite.name /\ NextSuite.state \in Done THEN completed[n] + 1 ELSE completed[n]
  <2> DEFINE m == NextSuite.name
             D == DOMAIN completed
  <2>1. completed' = [completed EXCEPT ![m] = @ + 1] /\ completed \in [D -> Nat]
    BY <1>1, <1>4
  <2>4. m \in D
    BY <1>1, ReceivedSuite DEF RunInv, Named, Answer
  <2> HIDE DEF m, D
  <2>2. completed' \in [D -> Nat]
    BY <2>1, <2>4
  <2>3. \A n \in D : completed'[n] = IF n = m THEN completed[n] + 1 ELSE completed[n]
    BY <2>1
  <2> QED
    BY <1>3, <2>2, <2>3 DEF m, D
<1>6. Named' /\ Counted'
  BY <1>1, <1>2, <1>3, <1>5, ReceiveCounts
<1>7. Stopped'
  BY <1>1, <1>2, ReceiveStaysStopped
<1> QED
  BY <1>1, <1>2, <1>6, <1>7, LoopGoesOn

\* Steps that count nothing.
LEMMA UncountedStep ==
  ASSUME RunInv, NEW t \in SuiteType, NEW stop \in BOOLEAN, Receives(t, stop),
         t.name = NextSuite.name, t.precompiled = NextSuite.precompiled, t.path = NextSuite.path,
         runPc' \in {"next", "running"}, command' = command, ~unbuilt', ~config.build,
         completed' = completed,
         t.state \in Verdicts \ Done,
         t.state = "SkippedDueToPriorFailures" => FailedBefore(opc.idx),
         Stopped'
  PROVE  RunInv'
<1>1. completed \in [DOMAIN completed -> Nat]
  BY DEF RunInv, Named
<1>2. /\ completed' \in [DOMAIN completed -> Nat]
      /\ \A n \in DOMAIN completed : completed'[n] =
           IF n = t.name /\ t.state \in Done THEN completed[n] + 1 ELSE completed[n]
  BY <1>1
<1>3. Named' /\ Counted'
  BY <1>2, ReceiveCounts
<1> QED
  BY <1>3, LoopGoesOn

\* NextFailedToCompile: without --keep-going the compiler is stopped.
LEMMA FailedToCompileStep ==
  ASSUME RunInv, NextFailedToCompile, command' = command
  PROVE  RunInv'
<1> DEFINE stop == ~config.keepGoing
<1>1. /\ Receives(NextSuite, stop) /\ runPc' = "next" /\ Received /\ ~config.build /\ ~unbuilt'
      /\ NextSuite.state = "FailedToCompile" /\ completed' = completed
  BY DEF NextFailedToCompile, Receives, Received, RunInv, Begun
<1>2. NextSuite \in SuiteType /\ stop \in BOOLEAN
  BY <1>1, ReceivedSuite
<1>3. NextSuite.state \in Verdicts \ Done /\ NextSuite.state \in FailureStates
  BY <1>1 DEF Verdicts, Done, FailureStates
<1>4. NextSuite.state # "SkippedDueToPriorFailures"
  BY <1>1
<1>5. Stopped'
  BY <1>1, <1>2, <1>3, ReceiveStaysStopped
<1> QED
  BY <1>1, <1>2, <1>3, <1>4, <1>5, UncountedStep

\* What the loop may run has not failed; when a suite is skipped for a failure,
\* the failure is of a suite received before.
LEMMA FailureIsBefore ==
  ASSUME RunInv, MayRun
  PROVE  /\ NextSuite.state \notin FailureStates
         /\ SkippedForFailure <=> ~config.keepGoing /\ FailedBefore(opc.idx)
<1>1. Received /\ runPc = "next"
  BY DEF MayRun, Received
<1>2. /\ opc.idx \in DOMAIN suites /\ opc.idx \in Nat \ {0} /\ Answer(opc.idx, NextSuite)
      /\ suites \in Seq(SuiteType) /\ Len(suites) \in Nat /\ DOMAIN suites = 1..Len(suites)
  BY <1>1, ReceivedSuite
<1>3. NextSuite.state \notin FailureStates
  BY <1>2 DEF MayRun, Answer
<1>4. \A i \in DOMAIN suites : i >= opc.idx => suites[i].state \notin FailureStates
  BY <1>1 DEF RunInv, Answered, Looping
<1>5. FailuresWith(NextSuite) > 0 <=> FailedBefore(opc.idx)
  <2>1. FailuresWith(NextSuite) > 0 <=> \E i \in DOMAIN suites :
           (IF i = opc.idx THEN NextSuite ELSE suites[i]).state \in FailureStates
    BY <1>2, FailuresWithCount
  <2>2. \A i \in DOMAIN suites :
           (IF i = opc.idx THEN NextSuite ELSE suites[i]).state \in FailureStates
             <=> i < opc.idx /\ suites[i].state \in FailureStates
    BY <1>2, <1>3, <1>4
  <2> QED
    BY <2>1, <2>2 DEF FailedBefore
<1> QED
  BY <1>3, <1>5 DEF SkippedForFailure

\* NextAfterFailure: the suite is skipped for a failure before it.
LEMMA AfterFailureStep ==
  ASSUME RunInv, NextAfterFailure, command' = command
  PROVE  RunInv'
<1> DEFINE t == [NextSuite EXCEPT !.state = "SkippedDueToPriorFailures"]
<1>1. /\ Receives(t, TRUE) /\ runPc' = "next" /\ Received /\ ~config.build /\ ~unbuilt'
      /\ MayRun /\ SkippedForFailure /\ completed' = completed
  BY DEF NextAfterFailure, MayRun, Receives, Received, RunInv, Begun
<1>2. NextSuite \in SuiteType
  BY <1>1, ReceivedSuite
<1>3. /\ t \in SuiteType /\ t.name = NextSuite.name /\ t.precompiled = NextSuite.precompiled
      /\ t.path = NextSuite.path /\ t.state = "SkippedDueToPriorFailures"
  BY <1>2 DEF SuiteType, SuiteStates
<1>4. ~config.keepGoing /\ FailedBefore(opc.idx)
  BY <1>1, FailureIsBefore
<1> HIDE DEF t
<1>5. t.state \in Verdicts \ Done
  BY <1>3 DEF Verdicts, Done
<1>6. Stopped'
  BY <1>1, <1>3, <1>4, ReceiveStaysStopped
<1> QED
  BY <1>1, <1>3, <1>4, <1>5, <1>6, UncountedStep

\* NextTimedOut: the suite is failed for the timeout.
LEMMA TimedOutStep ==
  ASSUME RunInv, NextTimedOut, command' = command
  PROVE  RunInv'
<1> DEFINE t == [NextSuite EXCEPT !.state = "FailedDueToTimeout"]
<1>1. /\ Receives(t, TRUE) /\ runPc' = "next" /\ Received /\ ~config.build /\ ~unbuilt'
      /\ elapsed /\ completed' = completed
  BY DEF NextTimedOut, MayRun, Receives, Received, RunInv, Begun
<1>2. NextSuite \in SuiteType
  BY <1>1, ReceivedSuite
<1>3. /\ t \in SuiteType /\ t.name = NextSuite.name /\ t.precompiled = NextSuite.precompiled
      /\ t.path = NextSuite.path /\ t.state = "FailedDueToTimeout"
  BY <1>2 DEF SuiteType, SuiteStates
<1> HIDE DEF t
<1>5. t.state \in Verdicts \ Done
  BY <1>3 DEF Verdicts, Done, FailureStates
<1>6. Stopped'
  BY <1>1, <1>3, ReceiveStaysStopped
<1> QED
  BY <1>1, <1>3, <1>5, <1>6, UncountedStep

\* NextRuns: a suite that is run has been compiled, since the compiler had no
\* reason to be stopped.
LEMMA RunsStep ==
  ASSUME RunInv, NextRuns, command' = command
  PROVE  RunInv'
<1> DEFINE t == [NextSuite EXCEPT !.state = "Failed", !.focus = FALSE]
<1>1. /\ Receives(t, FALSE) /\ Received /\ ~config.build /\ MayRun /\ ~SkippedForFailure
      /\ ~elapsed /\ completed' = completed /\ runPc = "next"
      /\ runPc' = IF NextSuite.path THEN "running" ELSE "next"
      /\ (unbuilt' <=> unbuilt \/ ~NextSuite.path)
  BY DEF NextRuns, MayRun, Receives, Received
<1>2. /\ NextSuite \in SuiteType /\ Answer(opc.idx, NextSuite)
      /\ opc.idx \in DOMAIN suites /\ opc.idx \in Nat \ {0}
  BY <1>1, ReceivedSuite
<1>3. /\ t \in SuiteType /\ t.name = NextSuite.name /\ t.precompiled = NextSuite.precompiled
      /\ t.path = NextSuite.path /\ t.state = "Failed"
  BY <1>2 DEF SuiteType, SuiteStates
<1> HIDE DEF t
<1>4. ~opc.stopped
  <2>1. ~(~config.keepGoing /\ FailedBefore(opc.idx))
    BY <1>1, FailureIsBefore
  <2> QED
    BY <1>1, <2>1 DEF RunInv, Stopped
<1>5. NextSuite.path /\ ~unbuilt' /\ runPc' = "running"
  BY <1>1, <1>2, <1>4 DEF Answer, MayRun, RunInv, Begun
<1>6. t.state \in Verdicts \ Done
  BY <1>3 DEF Verdicts, Done, FailureStates
<1>7. Stopped'
  <2>1. opc'.idx = opc.idx + 1 /\ ~opc'.stopped
    BY <1>1, <1>4, Advanced DEF RunInv, Receives
  <2>2. suites'[opc.idx] = t
    BY <1>1, <1>3, <1>5, ReceiveKeeps
  <2>3. opc'.idx - 1 = opc.idx /\ opc'.idx > 1
    BY <1>2, <2>1
  <2> QED
    BY <1>3, <1>5, <2>1, <2>2, <2>3 DEF Stopped
<1> QED
  BY <1>1, <1>3, <1>5, <1>6, <1>7, UncountedStep

\* NextBuilt: `ginkgo build` only writes the suite back.
LEMMA BuiltStep ==
  ASSUME RunInv, NextBuilt, command' = command
  PROVE  RunInv'
<1>1. /\ Receives(NextSuite, FALSE) /\ runPc' = "next" /\ runPc = "next" /\ Received /\ config.build
      /\ completed' = completed /\ unbuilt' = unbuilt /\ config' = config
  BY DEF NextBuilt, Receives, Received
<1>2. NextSuite \in SuiteType
  BY <1>1, ReceivedSuite
<1>3. /\ {suites'[i].name : i \in DOMAIN suites'} = {suites[i].name : i \in DOMAIN suites}
      /\ \A i, j \in DOMAIN suites' : suites'[i].name = suites'[j].name => i = j
  BY <1>1, <1>2, ReceiveKeeps
<1>4. Named'
  BY <1>1, <1>3 DEF RunInv, Named
<1>5. Stopped'
  BY <1>1, <1>2, ReceiveStaysStopped
<1>6. Counted'
  BY <1>1 DEF Counted, Left
<1>7. ~unbuilt'
  BY <1>1 DEF RunInv, Begun
<1> QED
  BY <1>1, <1>2, <1>4, <1>5, <1>6, <1>7, LoopGoesOn

\* RunCompiledSuite: the suite that runs is the last one received; it gets its
\* verdict, and its count when it has passed.
LEMMA CompiledSuiteStep ==
  ASSUME RunInv, RunCompiledSuite, command' = command
  PROVE  RunInv'
<1> DEFINE x == opc.idx - 1
<1>1. /\ runPc = "running" /\ runPc' = "next" /\ Looping
      /\ opc' = opc /\ config' = config /\ compilers' = compilers /\ signalled' = signalled
      /\ elapsed' = elapsed /\ iteration' = iteration /\ binaries' = binaries /\ unbuilt' = unbuilt
  BY DEF RunCompiledSuite, Looping
<1>2. /\ opc.idx \in Nat /\ opc.idx > 1 /\ opc.idx <= Len(suites) + 1 /\ ~opc.stopped
      /\ suites[x].state = "Failed"
      /\ suites \in Seq(SuiteType) /\ DOMAIN suites = 1..Len(suites) /\ Len(suites) \in Nat
  BY <1>1, Fields DEF RunInv, RunTyped, Stopped, Placed
<1>3. x \in DOMAIN suites /\ x \in Nat /\ opc.idx = x + 1 /\ suites[x] \in SuiteType
  BY <1>2
<1>4. PICK status \in {"ok", "focus", "fail"} :
        /\ suites' = [suites EXCEPT ![x] =
             [@ EXCEPT !.state = IF status = "fail" THEN "Failed" ELSE "Passed",
                       !.focus = status = "focus" /\ suites[x].ginkgo]]
        /\ completed' = [completed EXCEPT ![suites[x].name] =
                           IF status = "fail" THEN @ ELSE @ + 1]
  BY DEF RunCompiledSuite
<1> DEFINE st == IF status = "fail" THEN "Failed" ELSE "Passed"
           fo == status = "focus" /\ suites[x].ginkgo
           t == [suites[x] EXCEPT !.state = st, !.focus = fo]
<1>5. st \in {"Failed", "Passed"} /\ fo \in BOOLEAN
  OBVIOUS
<1>6. suites' = [suites EXCEPT ![x] = t]
  BY <1>4
<1> HIDE DEF st, fo
<1>7. /\ t \in SuiteType /\ t.name = suites[x].name /\ t.precompiled = suites[x].precompiled
      /\ t.path = suites[x].path /\ t.state = st
  BY <1>3, <1>5 DEF SuiteType, SuiteStates
<1> HIDE DEF t, x
<1>8. /\ suites' \in Seq(SuiteType) /\ DOMAIN suites' = DOMAIN suites /\ Len(suites') = Len(suites)
      /\ suites'[x] = t /\ \A i \in DOMAIN suites : i # x => suites'[i] = suites[i]
  BY <1>2, <1>3, <1>6, <1>7
<1>9. \A i \in DOMAIN suites : suites'[i].name = suites[i].name /\ suites'[i].path = suites[i].path
  BY <1>7, <1>8
<1>10. RunTyped'
  BY <1>1, <1>8 DEF RunInv, RunTyped, RunPcs, Ends
<1> DEFINE D == {suites[i].name : i \in DOMAIN suites}
<1>11. completed \in [D -> Nat] /\ suites[x].name \in D
  BY <1>3 DEF RunInv, Named
<1>12. /\ completed' \in [D -> Nat]
       /\ \A n \in D : completed'[n] =
            IF n = suites[x].name /\ st = "Passed" THEN completed[n] + 1 ELSE completed[n]
  <2>1. completed' = [completed EXCEPT ![suites[x].name] = IF status = "fail" THEN @ ELSE @ + 1]
    BY <1>4
  <2> HIDE DEF D
  <2>2. CASE status = "fail"
    <3>1. st = "Failed"
      BY <2>2 DEF st
    <3> QED
      BY <1>11, <2>1, <2>2, <3>1
  <2>3. CASE status # "fail"
    <3>1. st = "Passed"
      BY <2>3 DEF st
    <3>2. completed' = [completed EXCEPT ![suites[x].name] = @ + 1]
      BY <2>1, <2>3
    <3> QED
      BY <1>11, <3>1, <3>2
  <2> QED
    BY <2>2, <2>3
<1>13. Named'
  <2>1. {suites'[i].name : i \in DOMAIN suites'} = D
    BY <1>8, <1>9
  <2> QED
    BY <1>8, <1>9, <1>12, <2>1 DEF RunInv, Named
<1>14. Begun' /\ Stopped' /\ Ended'
  BY <1>1, <1>2 DEF RunInv, Begun, Stopped, Ended, Left
<1>15. Placed'
  BY <1>1, <1>8 DEF RunInv, Placed, Looping, Ending
<1>16. Answered'
  <2>1. SUFFICES ASSUME NEW i \in DOMAIN suites, i >= opc.idx
                 PROVE  /\ suites'[i].state \notin FailureStates
                        /\ opc.compiled[i] # <<>> => Answer(i, opc.compiled[i][1])'
    BY <1>1, <1>8 DEF Answered
  <2>2. suites'[i] = suites[i]
    BY <1>2, <1>3, <1>8, <2>1
  <2>3. /\ suites[i].state \notin FailureStates
        /\ opc.compiled[i] # <<>> => Answer(i, opc.compiled[i][1])
    BY <1>1, <2>1 DEF RunInv, Answered
  <2> QED
    BY <1>1, <2>2, <2>3 DEF Answer
<1>17. OnDisk'
  BY <1>1, <1>8, <1>9 DEF RunInv, OnDisk, Looping, Left
<1>18. Counted'
  <2>1. SUFFICES ASSUME NEW i \in DOMAIN suites, ~config.build
                 PROVE  /\ i < opc.idx =>
                             /\ suites'[i].state \in Verdicts
                             /\ suites'[i].state = "SkippedDueToPriorFailures" => FailedBefore(i)'
                        /\ completed'[suites'[i].name] =
                             IF i < opc.idx /\ suites'[i].state \in Done
                             THEN iteration + 1 ELSE iteration
    BY <1>1, <1>8 DEF Counted, Left
  <2>2. /\ i < opc.idx =>
             /\ suites[i].state \in Verdicts
             /\ suites[i].state = "SkippedDueToPriorFailures" => FailedBefore(i)
        /\ completed[suites[i].name] =
             IF i < opc.idx /\ suites[i].state \in Done THEN iteration + 1 ELSE iteration
    BY <1>1, <2>1 DEF RunInv, Counted, Left
  <2>3. i \in Nat /\ suites[i].name \in D /\ suites'[i].name = suites[i].name
    BY <1>2, <1>9
  <2>4. CASE i = x
    <3>1. completed[suites[x].name] = iteration
      BY <1>2, <2>2, <2>4 DEF Done, x
    <3>2. completed'[suites[x].name] = IF st = "Passed" THEN iteration + 1 ELSE iteration
      BY <1>11, <1>12, <3>1
    <3>3. st \in Verdicts /\ (st \in Done <=> st = "Passed") /\ st # "SkippedDueToPriorFailures"
      BY <1>5 DEF Verdicts, Done, FailureStates
    <3>4. suites'[i].state = st /\ i < opc.idx
      BY <1>2, <1>3, <1>7, <1>8, <2>4
    <3> QED
      BY <2>3, <2>4, <3>2, <3>3, <3>4
  <2>5. CASE i # x
    <3>1. suites'[i] = suites[i] /\ suites[i].name # suites[x].name
      BY <1>3, <1>8, <2>5 DEF RunInv, Named
    <3>2. completed'[suites[i].name] = completed[suites[i].name]
      BY <1>12, <2>3, <3>1
    <3>3. i < opc.idx /\ FailedBefore(i) => FailedBefore(i)'
      <4> SUFFICES ASSUME i < opc.idx,
                          NEW j \in DOMAIN suites, j < i, suites[j].state \in FailureStates
                   PROVE  FailedBefore(i)'
        BY DEF FailedBefore
      <4>1. j # x
        BY <1>2, <1>3, <2>3, <2>5
      <4> QED
        BY <1>8, <4>1 DEF FailedBefore
    <3> QED
      BY <2>2, <2>3, <3>1, <3>2, <3>3
  <2> QED
    BY <2>4, <2>5
<1> QED
  BY <1>10, <1>13, <1>14, <1>15, <1>16, <1>17, <1>18 DEF RunInv

\* After the last suite nothing is in the channel or with a goroutine.
LEMMA NothingInFlight ==
  ASSUME RunInv, Looping \/ Ending, opc.idx > Len(suites)
  PROVE  opc.toCompile = <<>> /\ \A c \in 1..NumCompilers : compilers[c] = <<>>
<1>1. /\ opc.toCompile \in Seq(Nat) /\ Len(suites) \in Nat /\ DOMAIN suites = 1..Len(suites)
      /\ opc.idx \in Nat /\ opc.fed \in Nat
  BY Fields DEF RunInv, RunTyped
<1>2. /\ opc.fed <= Len(suites)
      /\ \A i \in DOMAIN suites : i < opc.idx => opc.compiled[i] # <<>>
      /\ \A x \in DOMAIN opc.toCompile :
           opc.toCompile[x] \in 1..opc.fed /\ opc.compiled[opc.toCompile[x]] = <<>>
      /\ \A c \in 1..NumCompilers : compilers[c] # <<>> =>
           compilers[c][1] \in 1..opc.fed /\ opc.compiled[compilers[c][1]] = <<>>
  BY DEF RunInv, Placed
<1>3. \A k \in 1..opc.fed : opc.compiled[k] # <<>>
  BY <1>1, <1>2
<1>4. \A x \in DOMAIN opc.toCompile : FALSE
  BY <1>2, <1>3
<1> QED
  BY <1>1, <1>2, <1>3, <1>4

\* LoopEnds: every suite has completed when the loop begins anew.
LEMMA LoopEndsStep ==
  ASSUME RunInv, LoopEnds, command' = command
  PROVE  RunInv'
<1>1. /\ runPc = "next" /\ opc.idx > Len(suites) /\ ~config.build
      /\ opc' = opc /\ config' = config /\ compilers' = compilers /\ signalled' = signalled
      /\ elapsed' = elapsed /\ suites' = suites /\ binaries' = binaries
      /\ completed' = completed /\ unbuilt' = unbuilt
  BY DEF LoopEnds
<1>2. /\ suites \in Seq(SuiteType) /\ DOMAIN suites = 1..Len(suites) /\ Len(suites) \in Nat
      /\ opc.idx \in Nat /\ iteration \in Nat
  BY Fields DEF RunInv, RunTyped
<1>3. Named'
  BY <1>1 DEF RunInv, Named
<1>4. \A i \in DOMAIN suites : i < opc.idx /\ ~(i >= opc.idx)
  BY <1>1, <1>2
<1>5. \A i \in DOMAIN suites : suites[i].name \in binaries => suites[i].path
  BY <1>1, <1>4 DEF RunInv, OnDisk, Looping, Left
<1>6. \A i \in DOMAIN suites :
        /\ suites[i].state \in Verdicts
        /\ suites[i].state = "SkippedDueToPriorFailures" => FailedBefore(i)
        /\ completed[suites[i].name] =
             IF suites[i].state \in Done THEN iteration + 1 ELSE iteration
  BY <1>1, <1>4 DEF RunInv, Counted, Looping, Left
<1>7. CASE runPc' = "start"
  <2>1. Failures = 0 /\ iteration' = iteration + 1
    BY <1>7 DEF LoopEnds
  <2>2. \A i \in DOMAIN suites : suites[i].state \notin FailureStates
    BY <1>2, <2>1, FailuresCount
  <2>3. \A i \in DOMAIN suites : suites[i].state \in Done
    BY <1>6, <2>2 DEF Verdicts, FailedBefore
  <2>4. RunTyped'
    BY <1>1, <1>2, <1>7, <2>1 DEF RunInv, RunTyped, RunPcs, Ends
  <2>5. Begun' /\ Stopped' /\ Ended'
    BY <1>1, <1>7 DEF RunInv, Begun, Stopped, Ended, Left
  <2>6. Placed'
    <3>1. opc.toCompile = <<>> /\ \A c \in 1..NumCompilers : compilers[c] = <<>>
      BY <1>1, NothingInFlight DEF Looping
    <3> QED
      BY <1>1, <1>7, <3>1 DEF Placed, Looping, Ending
  <2>7. Answered'
    BY <1>1, <1>7, <2>2 DEF Answered, Looping
  <2>8. OnDisk'
    BY <1>1, <1>5, <1>7 DEF OnDisk, Looping, Ending, Left
  <2>9. Counted'
    BY <1>1, <1>6, <1>7, <2>1, <2>3 DEF Counted, Looping, Left
  <2> QED
    BY <1>3, <2>4, <2>5, <2>6, <2>7, <2>8, <2>9 DEF RunInv
<1>8. CASE runPc' = "cleanup"
  <2>1. iteration' = iteration
    BY <1>8 DEF LoopEnds
  <2>2. RunTyped'
    BY <1>1, <1>2, <1>8, <2>1 DEF RunInv, RunTyped, RunPcs, Ends
  <2>3. Begun' /\ Stopped' /\ Ended'
    BY <1>1, <1>8 DEF RunInv, Begun, Stopped, Ended, Left
  <2>4. Placed'
    BY <1>1, <1>8 DEF RunInv, Placed, Looping, Ending
  <2>5. Answered'
    BY <1>8 DEF Answered, Looping
  <2>6. OnDisk'
    BY <1>1, <1>5, <1>8 DEF OnDisk, Looping, Ending, Left
  <2>7. Counted'
    BY <1>1, <1>4, <1>6, <1>8, <2>1 DEF Counted, Looping, FailedBefore, Left
  <2> QED
    BY <1>3, <2>2, <2>3, <2>4, <2>5, <2>6, <2>7 DEF RunInv
<1> QED
  BY <1>7, <1>8 DEF LoopEnds

\* BuildEnds.
LEMMA BuildEndsStep ==
  ASSUME RunInv, BuildEnds, command' = command
  PROVE  RunInv'
<1>1. /\ runPc = "next" /\ runPc' = "exited" /\ opc.idx > Len(suites) /\ config.build
      /\ UNCHANGED <<config, opc, compilers, signalled, elapsed, suites, iteration, binaries,
                     completed, unbuilt>>
  BY DEF BuildEnds, Abort, suiteVars
<1>2. RunTyped' /\ Named' /\ Begun'
  BY <1>1 DEF RunInv, RunTyped, RunPcs, Named, Begun, Ends
<1>3. Placed' /\ Stopped' /\ Answered' /\ OnDisk' /\ Counted'
  BY <1>1 DEF Placed, Stopped, Answered, OnDisk, Counted, Looping, Ending, Left
<1>4. Ended'
  BY <1>1 DEF RunInv, Begun, Ended, Left
<1> QED
  BY <1>2, <1>3, <1>4 DEF RunInv

\* Cleanup: of the binaries only the precompiled ones are left.
LEMMA CleanupStep ==
  ASSUME RunInv, Cleanup, command' = command
  PROVE  RunInv'
<1>1. /\ runPc = "cleanup" /\ runPc' = "finalize"
      /\ binaries' = IF config.preserve THEN binaries
                     ELSE binaries \ {suites[i].name :
                                        i \in {j \in DOMAIN suites : Removable(suites[j])}}
      /\ UNCHANGED <<config, opc, compilers, signalled, elapsed, suites, iteration,
                     completed, unbuilt>>
  BY DEF Cleanup
<1>2. RunTyped' /\ Named' /\ Begun'
  BY <1>1 DEF RunInv, RunTyped, RunPcs, Named, Begun, Ends
<1>3. Placed'
  BY <1>1 DEF RunInv, Placed, Looping, Ending
<1>4. Stopped' /\ Answered'
  BY <1>1 DEF Stopped, Answered, Looping
<1>5. Counted' /\ Ended'
  BY <1>1 DEF RunInv, Counted, Ended, Looping, FailedBefore, BrokenOff, Left
<1>6. OnDisk'
  <2>1. SUFFICES ASSUME ~BrokenOff, NEW i \in DOMAIN suites, suites[i].name \in binaries'
                 PROVE  /\ suites[i].path
                        /\ ~config.preserve => suites[i].precompiled
    BY <1>1 DEF OnDisk, BrokenOff, Looping, Ending, Left
  <2>2. suites[i].name \in binaries
    BY <1>1, <2>1
  <2>3. suites[i].path
    <3>1. opc.idx > Len(suites) /\ opc.idx \in Nat /\ Len(suites) \in Nat
          /\ DOMAIN suites = 1..Len(suites)
      BY <1>1, <2>1, Fields DEF RunInv, RunTyped, Ended, Left
    <3>2. ~(i >= opc.idx)
      BY <3>1
    <3> QED
      BY <1>1, <2>1, <2>2, <3>2 DEF RunInv, OnDisk, Ending, Left
  <2>4. ~config.preserve => ~Removable(suites[i])
    BY <1>1, <2>1
  <2> QED
    BY <2>3, <2>4 DEF Removable
<1> QED
  BY <1>2, <1>3, <1>4, <1>5, <1>6 DEF RunInv

\* Finalize: the exit code.
LEMMA FinalizeStep ==
  ASSUME RunInv, Finalize, command' = command
  PROVE  RunInv'
<1>1. /\ runPc = "finalize" /\ runPc' = "exited"
      /\ exitCode' = IF Failures > 0 THEN 1
                     ELSE IF AnyHaveProgrammaticFocus /\ ~config.editor THEN 197 ELSE 0
      /\ UNCHANGED <<config, opc, compilers, signalled, elapsed, suites, iteration, binaries,
                     completed, unbuilt>>
  BY DEF Finalize, Abort, suiteVars
<1>2. RunTyped' /\ Named' /\ Begun'
  BY <1>1 DEF RunInv, RunTyped, RunPcs, Named, Begun, Ends
<1>3. Placed' /\ Stopped' /\ Answered'
  BY <1>1 DEF Placed, Stopped, Answered, Looping, Ending
<1>4. OnDisk' /\ Counted'
  BY <1>1 DEF RunInv, OnDisk, Counted, Looping, Ending, FailedBefore, BrokenOff, Left
<1>5. Ended'
  <2>1. Failures' = Failures /\ AnyHaveProgrammaticFocus' = AnyHaveProgrammaticFocus
    BY <1>1 DEF Failures, AnyHaveProgrammaticFocus
  <2>2. ~BrokenOff' => opc'.idx > Len(suites')
    BY <1>1 DEF RunInv, Ended, BrokenOff, Left
  <2> QED
    BY <1>1, <2>1, <2>2 DEF Ended, Left
<1> QED
  BY <1>2, <1>3, <1>4, <1>5 DEF RunInv

\* FinalizeAborts: everything but the exit code is as after Finalize.
LEMMA FinalizeAbortsStep ==
  ASSUME RunInv, FinalizeAborts, command' = command
  PROVE  RunInv'
<1>1. /\ runPc = "finalize" /\ runPc' = "finalizeAborted" /\ exitCode' = 1
      /\ UNCHANGED <<config, opc, compilers, signalled, elapsed, suites, iteration, binaries,
                     completed, unbuilt>>
  BY DEF FinalizeAborts, suiteVars
<1>2. RunTyped' /\ Named' /\ Begun'
  BY <1>1 DEF RunInv, RunTyped, RunPcs, Ends, Named, Begun
<1>3. Placed' /\ Stopped' /\ Answered'
  BY <1>1 DEF Placed, Stopped, Answered, Looping, Ending
<1>4. OnDisk' /\ Counted'
  BY <1>1 DEF RunInv, OnDisk, Counted, Looping, Ending, Left, FailedBefore, BrokenOff
<1>5. Ended'
  BY <1>1 DEF RunInv, Ended, Left, BrokenOff
<1> QED
  BY <1>2, <1>3, <1>4, <1>5 DEF RunInv

\* RunAborts: the loop is left at once.
LEMMA RunAbortsStep ==
  ASSUME RunInv, RunAborts, command' = command
  PROVE  RunInv'
<1>1. /\ runPc = "running" /\ runPc' = "runAborted" /\ exitCode' = 1
      /\ UNCHANGED <<config, opc, compilers, signalled, elapsed, suites, iteration, binaries,
                     completed, unbuilt>>
  BY DEF RunAborts, suiteVars
<1>2. RunTyped' /\ Named' /\ Begun'
  BY <1>1 DEF RunInv, RunTyped, RunPcs, Ends, Named, Begun
<1>3. Placed' /\ Stopped' /\ Answered'
  BY <1>1 DEF Placed, Stopped, Answered, Looping, Ending
<1>4. OnDisk' /\ Counted' /\ Ended'
  BY <1>1 DEF OnDisk, Counted, Ended, Looping, Ending, Left
<1> QED
  BY <1>2, <1>3, <1>4 DEF RunInv

\* Interrupt and TimeElapses only add to what may have broken off the run.
LEMMA SignalStep ==
  ASSUME RunInv, Interrupt \/ TimeElapses, command' = command
  PROVE  RunInv'
<1>1. /\ ~Exited
      /\ UNCHANGED <<config, runPc, opc, compilers, exitCode, suites, iteration, binaries,
                     completed, unbuilt>>
      /\ signalled' \in BOOLEAN /\ elapsed' \in BOOLEAN
      /\ (signalled => signalled') /\ (elapsed => elapsed')
  BY DEF Interrupt, TimeElapses, suiteVars, RunInv, RunTyped
<1>2. BrokenOff => BrokenOff'
  BY <1>1 DEF BrokenOff
<1>3. RunTyped' /\ Named' /\ Begun'
  BY <1>1 DEF RunInv, RunTyped, RunPcs, Named, Begun, Ends
<1>4. Placed'
  BY <1>1 DEF RunInv, Placed, Looping, Ending
<1>5. Stopped'
  BY <1>1 DEF RunInv, Stopped, FailedBefore
<1>6. Answered'
  BY <1>1 DEF RunInv, Answered, Answer, Looping
<1>7. OnDisk'
  BY <1>1, <1>2 DEF RunInv, OnDisk, Looping, Ending, Left
<1>8. Counted'
  BY <1>1, <1>2 DEF RunInv, Counted, Looping, FailedBefore, Left
<1>9. Ended'
  BY <1>1, <1>2 DEF RunInv, Ended, Left, Exited, Ends
<1> QED
  BY <1>3, <1>4, <1>5, <1>6, <1>7, <1>8, <1>9 DEF RunInv

\* FirstCompiled and CloseToCompile: the main goroutine goes on.
LEMMA GoOnStep ==
  ASSUME RunInv, FirstCompiled \/ CloseToCompile, command' = command
  PROVE  RunInv'
<1>1. /\ runPc \in {"feed", "first"} /\ runPc' \in {"feed", "next"}
      /\ UNCHANGED <<config, opc, compilers, signalled, elapsed, exitCode, suites, iteration,
                     binaries, completed, unbuilt>>
  BY DEF FirstCompiled, CloseToCompile, suiteVars
<1>3. RunTyped' /\ Named' /\ Begun'
  BY <1>1 DEF RunInv, RunTyped, RunPcs, Named, Begun, Ends
<1>4. Placed'
  BY <1>1 DEF RunInv, Placed, Looping, Ending
<1>5. Stopped'
  BY <1>1 DEF RunInv, Stopped, FailedBefore
<1>6. Answered'
  BY <1>1 DEF RunInv, Answered, Answer, Looping
<1>7. OnDisk'
  BY <1>1 DEF RunInv, OnDisk, Looping, Ending, Left
<1>8. Counted'
  BY <1>1 DEF RunInv, Counted, Looping, FailedBefore, Left
<1>9. Ended'
  BY <1>1 DEF RunInv, Ended, Left
<1> QED
  BY <1>3, <1>4, <1>5, <1>6, <1>7, <1>8, <1>9 DEF RunInv

-----------------------------------------------------------------------------
(* The goroutines                                                          *)

\* What a step of the ordered parallel compiler leaves alone.
LEMMA CompilerKeeps ==
  ASSUME RunInv, command' = command, opc' \in OpcType, compilers' \in [1..NumCompilers -> Holds],
         opc'.idx = opc.idx, opc'.stopped = opc.stopped, ~Exited,
         \/ runPc' = runPc
         \/ runPc = "feed" /\ runPc' \in {"feed", "first"},
         UNCHANGED <<config, signalled, elapsed, exitCode, suites, iteration, completed, unbuilt>>
  PROVE  RunTyped' /\ Named' /\ Begun' /\ Stopped' /\ Counted' /\ Ended'
<1>1. BrokenOff' <=> BrokenOff
  BY DEF BrokenOff
<1>2. RunTyped' /\ Named' /\ Begun'
  BY DEF RunInv, RunTyped, RunPcs, Named, Begun, Ends
<1>3. Stopped'
  BY DEF RunInv, Stopped, FailedBefore
<1>4. Counted' /\ Ended'
  BY <1>1 DEF RunInv, Counted, Ended, Looping, FailedBefore, Left, Exited, Ends
<1> QED
  BY <1>2, <1>3, <1>4

\* SendBundle: the next suite goes into the channel.
LEMMA SendBundleStep ==
  ASSUME RunInv, SendBundle, command' = command
  PROVE  RunInv'
<1> DEFINE n == opc.fed + 1
<1>1. /\ runPc = "feed" /\ opc.fed < Len(suites) /\ runPc' \in {"first", "feed"}
      /\ opc' = [opc EXCEPT !.fed = @ + 1, !.toCompile = Append(@, opc.fed + 1)]
      /\ UNCHANGED <<config, compilers, signalled, elapsed, exitCode, suites, iteration,
                     binaries, completed, unbuilt>>
  BY DEF SendBundle, suiteVars
<1>2. opc \in OpcType /\ opc.fed \in Nat /\ opc.toCompile \in Seq(Nat) /\ Len(suites) \in Nat
  BY Fields DEF RunInv, RunTyped
<1>3. n \in Nat /\ Append(opc.toCompile, n) \in Seq(Nat)
  BY <1>2
<1>4. /\ opc' \in OpcType /\ opc'.idx = opc.idx /\ opc'.stopped = opc.stopped
      /\ opc'.fed = n /\ opc'.toCompile = Append(opc.toCompile, n)
      /\ opc'.compiled = opc.compiled
  BY <1>1, <1>2, <1>3 DEF OpcType
<1>5. RunTyped' /\ Named' /\ Begun' /\ Stopped' /\ Counted' /\ Ended'
  BY <1>1, <1>4, CompilerKeeps DEF RunInv, RunTyped, Exited, Ends
<1>6. Answered' /\ OnDisk'
  BY <1>1, <1>4 DEF RunInv, Answered, Answer, OnDisk, Looping, Ending, Left, Exited, Ends
<1>7. Placed'
  <2>1. /\ opc.fed <= Len(suites) /\ opc.idx <= Len(suites) + 1
        /\ Len(opc.compiled) = Len(suites) /\ DOMAIN suites = 1..Len(suites)
        /\ \A i \in DOMAIN suites : i < opc.idx => opc.compiled[i] # <<>>
        /\ \A i \in DOMAIN suites : i > opc.fed => opc.compiled[i] = <<>>
    BY <1>1, <1>2 DEF RunInv, RunTyped, Placed, Looping
  <2>2. \A x \in DOMAIN opc.toCompile :
          /\ opc.toCompile[x] \in 1..opc.fed /\ opc.compiled[opc.toCompile[x]] = <<>>
          /\ \A y \in DOMAIN opc.toCompile : opc.toCompile[x] = opc.toCompile[y] => x = y
    BY <1>1 DEF RunInv, Placed, Looping
  <2>3. \A c \in 1..NumCompilers : compilers[c] # <<>> =>
          /\ compilers[c][1] \in 1..opc.fed /\ opc.compiled[compilers[c][1]] = <<>>
          /\ \A x \in DOMAIN opc.toCompile : opc.toCompile[x] # compilers[c][1]
          /\ \A d \in 1..NumCompilers : compilers[d] = compilers[c] => d = c
    BY <1>1 DEF RunInv, Placed, Looping
  <2>4. n \in DOMAIN suites /\ opc.compiled[n] = <<>> /\ n \in 1..n /\ n \notin 1..opc.fed
    BY <1>1, <1>2, <2>1
  <2>5. \A k \in 1..opc.fed : k \in 1..n /\ k # n
    BY <1>2
  <2> DEFINE q == opc.toCompile
             m == Len(opc.toCompile) + 1
  <2>6. /\ DOMAIN q = 1..Len(q) /\ DOMAIN opc'.toCompile = 1..m
        /\ opc'.toCompile[m] = n /\ \A x \in 1..Len(q) : opc'.toCompile[x] = q[x] /\ x \in DOMAIN q
        /\ \A x \in 1..m : x = m \/ x \in 1..Len(q)
    BY <1>2, <1>3, <1>4
  <2> HIDE DEF n, q, m
  <2>7. \A x \in DOMAIN opc'.toCompile :
          /\ opc'.toCompile[x] \in 1..n /\ opc.compiled[opc'.toCompile[x]] = <<>>
          /\ \A y \in DOMAIN opc'.toCompile : opc'.toCompile[x] = opc'.toCompile[y] => x = y
    BY <2>2, <2>4, <2>5, <2>6 DEF q
  <2>8. \A c \in 1..NumCompilers : compilers[c] # <<>> =>
          /\ compilers[c][1] \in 1..n /\ opc.compiled[compilers[c][1]] = <<>>
          /\ \A x \in DOMAIN opc'.toCompile : opc'.toCompile[x] # compilers[c][1]
          /\ \A d \in 1..NumCompilers : compilers[d] = compilers[c] => d = c
    BY <2>3, <2>5, <2>6 DEF q
  <2>9. /\ n <= Len(suites)
        /\ \A i \in DOMAIN suites : i > n => opc.compiled[i] = <<>>
    BY <1>1, <1>2, <2>1 DEF n
  <2> QED
    BY <1>1, <1>4, <2>1, <2>7, <2>8, <2>9 DEF Placed
<1> QED
  BY <1>5, <1>6, <1>7 DEF RunInv

\* The facts about a suite that is being compiled.
LEMMA InFlight ==
  ASSUME RunInv, ~Exited, NEW k \in 1..opc.fed, Looping \/ Ending, opc.compiled[k] = <<>>
  PROVE  /\ k \in DOMAIN suites /\ k \in Nat /\ k >= opc.idx /\ k \in DOMAIN opc.compiled
         /\ suites[k] \in SuiteType
         /\ Ending => BrokenOff
         /\ Looping => suites[k].state \notin FailureStates
<1>1. /\ suites \in Seq(SuiteType) /\ DOMAIN suites = 1..Len(suites) /\ Len(suites) \in Nat
      /\ opc.idx \in Nat /\ opc.fed \in Nat /\ opc.compiled \in Seq(Bundles)
  BY Fields DEF RunInv, RunTyped
<1>2. /\ opc.fed <= Len(suites) /\ Len(opc.compiled) = Len(suites)
      /\ \A i \in DOMAIN suites : i < opc.idx => opc.compiled[i] # <<>>
  BY DEF RunInv, Placed
<1>3. k \in DOMAIN suites /\ k \in Nat /\ k >= opc.idx /\ k \in DOMAIN opc.compiled
  BY <1>1, <1>2
<1>4. Ending => BrokenOff
  BY <1>1, <1>3 DEF RunInv, Ended, Ending, Left, Exited, Ends
<1>5. Looping => suites[k].state \notin FailureStates
  BY <1>3 DEF RunInv, Answered
<1> QED
  BY <1>1, <1>3, <1>4, <1>5

\* The compiler has an answer s about suite k.
LEMMA AnswerKeeps ==
  ASSUME RunInv, Looping \/ Ending, runPc' = runPc,
         NEW k \in DOMAIN suites, NEW s \in SuiteType,
         opc.compiled[k] = <<>>, k >= opc.idx, k \in DOMAIN opc.compiled,
         opc'.idx = opc.idx, opc'.stopped = opc.stopped,
         opc'.compiled = [opc.compiled EXCEPT ![k] = <<s>>],
         Looping => Answer(k, s), Ending => BrokenOff, s.name = suites[k].name,
         binaries' = binaries \/ (s.path /\ binaries' = binaries \cup {s.name}),
         UNCHANGED <<config, signalled, suites>>
  PROVE  Answered' /\ OnDisk'
<1>1. opc'.compiled[k] = <<s>> /\ <<s>> # <<>> /\ <<s>>[1] = s
  OBVIOUS
<1>2. /\ Len(opc.compiled) = Len(suites) /\ opc.compiled \in Seq(Bundles)
      /\ suites \in Seq(SuiteType)
  BY Fields DEF RunInv, RunTyped, Placed
<1>3. \A i \in DOMAIN suites : i # k => opc'.compiled[i] = opc.compiled[i]
  BY <1>2
<1>4. Answered'
  <2>1. SUFFICES ASSUME Looping, NEW i \in DOMAIN suites, i >= opc.idx
                 PROVE  /\ suites[i].state \notin FailureStates
                        /\ opc'.compiled[i] # <<>> => Answer(i, opc.compiled[i][1])'
    BY DEF RunInv, Answered, Looping, Ending
  <2>2. /\ suites[i].state \notin FailureStates
        /\ opc.compiled[i] # <<>> => Answer(i, opc.compiled[i][1])
    BY <2>1 DEF RunInv, Answered
  <2>3. CASE i = k
    <3>1. Answer(k, s) /\ opc'.compiled[i][1] = s
      BY <1>1, <2>1, <2>3
    <3> QED
      BY <2>2, <2>3, <3>1 DEF Answer
  <2>4. CASE i # k
    BY <1>3, <2>2, <2>4 DEF Answer
  <2> QED
    BY <2>3, <2>4
<1>5. OnDisk'
  <2>1. SUFFICES ASSUME Looping, NEW i \in DOMAIN suites, suites[i].name \in binaries'
                 PROVE  \/ suites[i].path
                        \/ i >= opc.idx /\ opc'.compiled[i] # <<>> /\ opc'.compiled[i][1].path
    BY DEF OnDisk, Looping, Ending, BrokenOff, Left
  <2>2. CASE i = k
    <3>1. CASE suites[i].name \in binaries
      BY <2>1, <2>2, <3>1 DEF RunInv, OnDisk, Left
    <3>2. CASE suites[i].name \notin binaries
      BY <1>1, <2>1, <2>2, <3>2
    <3> QED
      BY <3>1, <3>2
  <2>3. CASE i # k
    <3>1. suites[i].name # s.name
      BY <2>3 DEF RunInv, Named
    <3>2. suites[i].name \in binaries
      BY <2>1, <3>1
    <3> QED
      BY <1>3, <2>1, <2>3, <3>2 DEF RunInv, OnDisk, Left
  <2> QED
    BY <2>2, <2>3
<1> QED
  BY <1>4, <1>5

\* TakeBundle: the goroutine holds the bundle, or passes it on.
LEMMA TakeBundleStep ==
  ASSUME RunInv, ~Exited, NEW c \in 1..NumCompilers, TakeBundle(c), command' = command
  PROVE  RunInv'
<1> DEFINE k == Head(opc.toCompile)
           q == opc.toCompile
<1>1. /\ compilers[c] = <<>> /\ q # <<>>
      /\ IF opc.stopped
         THEN /\ opc' = [opc EXCEPT !.toCompile = Tail(@), !.compiled[k] = <<suites[k]>>]
              /\ UNCHANGED compilers
         ELSE /\ opc' = [opc EXCEPT !.toCompile = Tail(@)]
              /\ compilers' = [compilers EXCEPT ![c] = <<k>>]
      /\ UNCHANGED <<config, runPc, signalled, elapsed, exitCode, suites, iteration, binaries,
                     completed, unbuilt>>
  BY DEF TakeBundle, suiteVars
<1>2. /\ opc \in OpcType /\ q \in Seq(Nat) /\ compilers \in [1..NumCompilers -> Holds]
      /\ opc.compiled \in Seq(Bundles) /\ opc.fed \in Nat
  BY Fields DEF RunInv, RunTyped
<1>3. Looping \/ Ending
  BY <1>1 DEF RunInv, RunTyped, RunPcs, Placed, Looping, Ending, Ends, Exited
<1>4. /\ k = q[1] /\ 1 \in DOMAIN q /\ k \in Nat
      /\ Tail(q) \in Seq(Nat) /\ DOMAIN Tail(q) = 1..(Len(q) - 1)
      /\ \A x \in DOMAIN Tail(q) : x + 1 \in DOMAIN q /\ Tail(q)[x] = q[x + 1] /\ x + 1 # 1
      /\ \A x, y \in DOMAIN Tail(q) : x + 1 = y + 1 => x = y
  BY <1>1, <1>2
<1>5. /\ \A x \in DOMAIN q :
           /\ q[x] \in 1..opc.fed /\ opc.compiled[q[x]] = <<>>
           /\ \A y \in DOMAIN q : q[x] = q[y] => x = y
      /\ \A d \in 1..NumCompilers : compilers[d] # <<>> =>
           /\ compilers[d][1] \in 1..opc.fed /\ opc.compiled[compilers[d][1]] = <<>>
           /\ \A x \in DOMAIN q : q[x] # compilers[d][1]
           /\ \A e \in 1..NumCompilers : compilers[e] = compilers[d] => e = d
      /\ opc.fed <= Len(suites) /\ opc.idx <= Len(suites) + 1
      /\ Len(opc.compiled) = Len(suites)
      /\ \A i \in DOMAIN suites : i < opc.idx => opc.compiled[i] # <<>>
      /\ \A i \in DOMAIN suites : i > opc.fed => opc.compiled[i] = <<>>
  BY <1>3 DEF RunInv, Placed
<1>6. k \in 1..opc.fed /\ opc.compiled[k] = <<>>
  BY <1>4, <1>5
<1>7. /\ k \in DOMAIN suites /\ k >= opc.idx /\ k \in DOMAIN opc.compiled
      /\ suites[k] \in SuiteType /\ (Ending => BrokenOff)
      /\ Looping => suites[k].state \notin FailureStates
  BY <1>3, <1>6, InFlight
<1>8. \A x \in DOMAIN Tail(q) :
        /\ Tail(q)[x] \in 1..opc.fed /\ opc.compiled[Tail(q)[x]] = <<>> /\ Tail(q)[x] # k
        /\ \A y \in DOMAIN Tail(q) : Tail(q)[x] = Tail(q)[y] => x = y
  <2> DEFINE t == Tail(q)
  <2>1. /\ k = q[1] /\ 1 \in DOMAIN q
        /\ \A x \in DOMAIN t : x + 1 \in DOMAIN q /\ t[x] = q[x + 1] /\ x + 1 # 1
        /\ \A x, y \in DOMAIN t : x + 1 = y + 1 => x = y
    BY <1>4
  <2>2. \A x \in DOMAIN q : /\ q[x] \in 1..opc.fed /\ opc.compiled[q[x]] = <<>>
                            /\ \A y \in DOMAIN q : q[x] = q[y] => x = y
    BY <1>5
  <2> HIDE DEF k, q, t
  <2>3. \A x \in DOMAIN t :
          /\ t[x] \in 1..opc.fed /\ opc.compiled[t[x]] = <<>> /\ t[x] # k
          /\ \A y \in DOMAIN t : t[x] = t[y] => x = y
    BY <2>1, <2>2
  <2> QED
    BY <2>3 DEF t
<1> DEFINE r == Tail(q)
<1>9. r \in Seq(Nat)
  BY <1>4
<1> HIDE DEF r
<1>10. CASE opc.stopped
  <2> DEFINE s == suites[k]
             cc == [opc.compiled EXCEPT ![k] = <<s>>]
  <2>1. opc' = [opc EXCEPT !.toCompile = r, !.compiled = cc] /\ compilers' = compilers
    BY <1>1, <1>2, <1>10 DEF r, OpcType
  <2>2. /\ cc \in Seq(Bundles) /\ Len(cc) = Len(opc.compiled) /\ cc[k] # <<>>
        /\ \A i \in DOMAIN suites : i # k => cc[i] = opc.compiled[i]
    <3>1. <<s>> \in Bundles /\ <<s>> # <<>>
      BY <1>7 DEF Bundles
    <3> QED
      BY <1>2, <1>5, <1>7, <3>1 DEF RunInv, RunTyped
  <2> HIDE DEF cc
  <2>3. /\ opc' \in OpcType /\ opc'.idx = opc.idx /\ opc'.stopped = opc.stopped
        /\ opc'.fed = opc.fed /\ opc'.toCompile = r /\ opc'.compiled = cc
    BY <1>2, <1>9, <2>1, <2>2 DEF OpcType
  <2>4. RunTyped' /\ Named' /\ Begun' /\ Stopped' /\ Counted' /\ Ended'
    BY <1>1, <1>2, <2>1, <2>3, CompilerKeeps
  <2>5. Answered' /\ OnDisk'
    <3>1. Looping => Answer(k, s)
      BY <1>7, <1>10 DEF Answer
    <3>2. opc'.compiled = [opc.compiled EXCEPT ![k] = <<s>>]
      BY <2>3 DEF cc
    <3> QED
      BY <1>1, <1>3, <1>6, <1>7, <2>3, <3>1, <3>2, AnswerKeeps
  <2>6. Placed'
    <3>1. \A x \in DOMAIN r : cc[r[x]] = <<>>
      <4>1. \A i \in 1..opc.fed : i \in DOMAIN suites
        BY <1>2, <1>5 DEF RunInv, RunTyped
      <4>2. \A x \in DOMAIN r : r[x] \in 1..opc.fed /\ opc.compiled[r[x]] = <<>> /\ r[x] # k
        BY <1>8 DEF r
      <4> HIDE DEF k
      <4> QED
        BY <2>2, <4>1, <4>2
    <3>2. \A d \in 1..NumCompilers : compilers[d] # <<>> =>
            cc[compilers[d][1]] = <<>> /\ \A x \in DOMAIN r : r[x] # compilers[d][1]
      <4> SUFFICES ASSUME NEW d \in 1..NumCompilers, compilers[d] # <<>>
                   PROVE  cc[compilers[d][1]] = <<>> /\ \A x \in DOMAIN r : r[x] # compilers[d][1]
        OBVIOUS
      <4>1. compilers[d][1] # k /\ compilers[d][1] \in DOMAIN suites
        BY <1>2, <1>4, <1>5 DEF RunInv, RunTyped
      <4> QED
        BY <1>4, <1>5, <2>2, <4>1 DEF r
    <3>3. /\ \A i \in DOMAIN suites : i < opc.idx => cc[i] # <<>>
          /\ \A i \in DOMAIN suites : i > opc.fed => cc[i] = <<>>
      <4>1. DOMAIN suites \subseteq Nat /\ k \in Nat /\ ~(k > opc.fed)
        BY <1>2, <1>6 DEF RunInv, RunTyped
      <4> HIDE DEF k
      <4> QED
        BY <1>5, <2>2, <4>1
    <3>4. runPc \notin {"find", "start"}
      BY <1>3 DEF Looping, Ending
    <3>5. \A x \in DOMAIN r : r[x] \in 1..opc.fed
            /\ \A y \in DOMAIN r : r[x] = r[y] => x = y
      BY <1>8 DEF r
    <3> QED
      BY <1>1, <1>5, <2>1, <2>2, <2>3, <3>1, <3>2, <3>3, <3>4, <3>5 DEF Placed
  <2> QED
    BY <2>4, <2>5, <2>6 DEF RunInv
<1>11. CASE ~opc.stopped
  <2>1. opc' = [opc EXCEPT !.toCompile = r] /\ compilers' = [compilers EXCEPT ![c] = <<k>>]
    BY <1>1, <1>2, <1>11 DEF r, OpcType
  <2>2. /\ opc' \in OpcType /\ opc'.idx = opc.idx /\ opc'.stopped = opc.stopped
        /\ opc'.fed = opc.fed /\ opc'.toCompile = r /\ opc'.compiled = opc.compiled
    BY <1>2, <1>9, <2>1 DEF OpcType
  <2>3. /\ compilers' \in [1..NumCompilers -> Holds] /\ compilers'[c] = <<k>>
        /\ \A d \in 1..NumCompilers : d # c => compilers'[d] = compilers[d]
    <3>1. <<k>> \in Holds
      BY <1>4 DEF Holds
    <3> QED
      BY <1>2, <2>1, <3>1
  <2>4. RunTyped' /\ Named' /\ Begun' /\ Stopped' /\ Counted' /\ Ended'
    BY <1>1, <2>2, <2>3, CompilerKeeps
  <2>5. Answered' /\ OnDisk'
    BY <1>1, <2>2 DEF RunInv, Answered, Answer, OnDisk, Looping, Ending, BrokenOff, Left, Exited, Ends
  <2>6. Placed'
    <3>1. \A d \in 1..NumCompilers : compilers'[d] # <<>> =>
            /\ compilers'[d][1] \in 1..opc.fed /\ opc.compiled[compilers'[d][1]] = <<>>
            /\ \A x \in DOMAIN r : r[x] # compilers'[d][1]
            /\ \A e \in 1..NumCompilers : compilers'[e] = compilers'[d] => e = d
      <4> SUFFICES ASSUME NEW d \in 1..NumCompilers, compilers'[d] # <<>>
                   PROVE  /\ compilers'[d][1] \in 1..opc.fed
                          /\ opc.compiled[compilers'[d][1]] = <<>>
                          /\ \A x \in DOMAIN r : r[x] # compilers'[d][1]
                          /\ \A e \in 1..NumCompilers : compilers'[e] = compilers'[d] => e = d
        OBVIOUS
      <4>1. \A e \in 1..NumCompilers : compilers[e] # <<>> => compilers[e][1] # k
        BY <1>4, <1>5
      <4>2. <<k>>[1] = k /\ <<k>> # <<>>
        OBVIOUS
      <4> HIDE DEF k
      <4>3. CASE d = c
        BY <1>6, <1>8, <2>3, <4>1, <4>2, <4>3 DEF r
      <4>4. CASE d # c
        <5>1. compilers'[d] = compilers[d] /\ compilers[d] # <<>> /\ compilers[d] # compilers'[c]
          BY <2>3, <4>1, <4>2, <4>4
        <5>2. \A e \in 1..NumCompilers : compilers'[e] = compilers'[d] => e = d
          BY <1>5, <2>3, <5>1
        <5>3. \A x \in DOMAIN r : r[x] # compilers[d][1]
          <6>1. \A x \in DOMAIN r : x + 1 \in DOMAIN q /\ r[x] = q[x + 1]
            BY <1>4 DEF r
          <6>2. \A x \in DOMAIN q : q[x] # compilers[d][1]
            BY <1>5, <5>1
          <6> HIDE DEF q
          <6> QED
            BY <6>1, <6>2
        <5> QED
          BY <1>5, <5>1, <5>2, <5>3
      <4> QED
        BY <4>3, <4>4
    <3>2. runPc \notin {"find", "start"}
      BY <1>3 DEF Looping, Ending
    <3>3. \A x \in DOMAIN r : r[x] \in 1..opc.fed /\ opc.compiled[r[x]] = <<>>
            /\ \A y \in DOMAIN r : r[x] = r[y] => x = y
      BY <1>8 DEF r
    <3> QED
      BY <1>1, <1>5, <2>2, <3>1, <3>2, <3>3 DEF Placed
  <2> QED
    BY <2>4, <2>5, <2>6 DEF RunInv
<1> QED
  BY <1>10, <1>11

\* FinishCompile: the bundle is done, and the binary may be on disk.
LEMMA FinishCompileStep ==
  ASSUME RunInv, ~Exited, NEW c \in 1..NumCompilers, FinishCompile(c), command' = command
  PROVE  RunInv'
<1> DEFINE k == compilers[c][1]
<1>1. PICK s \in CompileSuite(suites[k]) :
        /\ compilers[c] # <<>>
        /\ opc' = [opc EXCEPT !.compiled[k] = <<s>>]
        /\ binaries' = IF s.path THEN binaries \cup {s.name} ELSE binaries
        /\ compilers' = [compilers EXCEPT ![c] = <<>>]
        /\ UNCHANGED <<config, runPc, signalled, elapsed, exitCode, suites, iteration,
                       completed, unbuilt>>
  BY DEF FinishCompile
<1>2. /\ opc \in OpcType /\ compilers \in [1..NumCompilers -> Holds]
      /\ opc.compiled \in Seq(Bundles) /\ opc.fed \in Nat /\ opc.toCompile \in Seq(Nat)
  BY Fields DEF RunInv, RunTyped
<1>3. Looping \/ Ending
  BY <1>1 DEF RunInv, RunTyped, RunPcs, Placed, Looping, Ending, Ends, Exited
<1>5. /\ \A x \in DOMAIN opc.toCompile :
           /\ opc.toCompile[x] \in 1..opc.fed /\ opc.compiled[opc.toCompile[x]] = <<>>
           /\ \A y \in DOMAIN opc.toCompile : opc.toCompile[x] = opc.toCompile[y] => x = y
      /\ \A d \in 1..NumCompilers : compilers[d] # <<>> =>
           /\ compilers[d][1] \in 1..opc.fed /\ opc.compiled[compilers[d][1]] = <<>>
           /\ \A x \in DOMAIN opc.toCompile : opc.toCompile[x] # compilers[d][1]
           /\ \A e \in 1..NumCompilers : compilers[e] = compilers[d] => e = d
      /\ opc.fed <= Len(suites) /\ opc.idx <= Len(suites) + 1
      /\ Len(opc.compiled) = Len(suites)
      /\ \A i \in DOMAIN suites : i < opc.idx => opc.compiled[i] # <<>>
      /\ \A i \in DOMAIN suites : i > opc.fed => opc.compiled[i] = <<>>
  BY <1>3 DEF RunInv, Placed
<1>6. k \in 1..opc.fed /\ opc.compiled[k] = <<>>
  BY <1>1, <1>5
<1>7. /\ k \in DOMAIN suites /\ k >= opc.idx /\ k \in DOMAIN opc.compiled
      /\ suites[k] \in SuiteType /\ (Ending => BrokenOff)
      /\ Looping => suites[k].state \notin FailureStates
  BY <1>3, <1>6, InFlight
<1>8. /\ s \in SuiteType /\ s.name = suites[k].name /\ s.precompiled = suites[k].precompiled
      /\ suites[k].path => s.path
      /\ s.path \/ s.state \in {"FailedToCompile", "SkippedDueToEmptyCompilation"}
      /\ s = suites[k] \/ s.state \in {"FailedToCompile", "Compiled", "SkippedDueToEmptyCompilation"}
  <2> DEFINE u == suites[k]
  <2>1. u \in SuiteType /\ s \in CompileSuite(u)
    BY <1>1, <1>7
  <2> HIDE DEF u
  <2>2. \/ u.path /\ s = u
        \/ ~u.path /\ s = [u EXCEPT !.state = "FailedToCompile"]
        \/ ~u.path /\ s = [u EXCEPT !.state = "Compiled", !.path = TRUE]
        \/ ~u.path /\ s = [u EXCEPT !.state = "SkippedDueToEmptyCompilation"]
    BY <2>1 DEF CompileSuite
  <2>3. /\ s \in SuiteType /\ s.name = u.name /\ s.precompiled = u.precompiled
        /\ u.path => s.path
        /\ s.path \/ s.state \in {"FailedToCompile", "SkippedDueToEmptyCompilation"}
        /\ s = u \/ s.state \in {"FailedToCompile", "Compiled", "SkippedDueToEmptyCompilation"}
    BY <2>1, <2>2 DEF SuiteType, SuiteStates
  <2> QED
    BY <2>3 DEF u
<1> DEFINE cc == [opc.compiled EXCEPT ![k] = <<s>>]
<1>9. /\ cc \in Seq(Bundles) /\ Len(cc) = Len(opc.compiled) /\ cc[k] # <<>>
      /\ \A i \in DOMAIN suites : i # k => cc[i] = opc.compiled[i]
  <2>1. <<s>> \in Bundles /\ <<s>> # <<>>
    BY <1>8 DEF Bundles
  <2> QED
    BY <1>2, <1>5, <1>7, <2>1 DEF RunInv, RunTyped
<1>10. opc' = [opc EXCEPT !.compiled = cc]
  BY <1>1, <1>2 DEF OpcType
<1> HIDE DEF cc
<1>11. /\ opc' \in OpcType /\ opc'.idx = opc.idx /\ opc'.stopped = opc.stopped
       /\ opc'.fed = opc.fed /\ opc'.toCompile = opc.toCompile /\ opc'.compiled = cc
  BY <1>2, <1>9, <1>10 DEF OpcType
<1>12. /\ compilers' \in [1..NumCompilers -> Holds] /\ compilers'[c] = <<>>
       /\ \A d \in 1..NumCompilers : d # c => compilers'[d] = compilers[d]
  <2>1. <<>> \in Holds
    BY DEF Holds
  <2> QED
    BY <1>1, <1>2, <2>1
<1>13. RunTyped' /\ Named' /\ Begun' /\ Stopped' /\ Counted' /\ Ended'
  BY <1>1, <1>11, <1>12, CompilerKeeps
<1>14. Answered' /\ OnDisk'
  <2>1. Looping => Answer(k, s)
    BY <1>7, <1>8 DEF Answer, FailureStates
  <2>2. opc'.compiled = [opc.compiled EXCEPT ![k] = <<s>>]
    BY <1>11 DEF cc
  <2>3. binaries' = binaries \/ (s.path /\ binaries' = binaries \cup {s.name})
    BY <1>1
  <2> QED
    BY <1>1, <1>3, <1>6, <1>7, <1>8, <1>11, <2>1, <2>2, <2>3, AnswerKeeps
<1>15. Placed'
  <2>1. \A x \in DOMAIN opc.toCompile : cc[opc.toCompile[x]] = <<>>
    <3> SUFFICES ASSUME NEW x \in DOMAIN opc.toCompile
                 PROVE  cc[opc.toCompile[x]] = <<>>
      OBVIOUS
    <3>1. opc.toCompile[x] # k /\ opc.toCompile[x] \in DOMAIN suites
      BY <1>1, <1>2, <1>5 DEF RunInv, RunTyped
    <3> QED
      BY <1>5, <1>9, <3>1
  <2>2. \A d \in 1..NumCompilers : compilers'[d] # <<>> =>
          /\ compilers'[d][1] \in 1..opc.fed /\ cc[compilers'[d][1]] = <<>>
          /\ \A x \in DOMAIN opc.toCompile : opc.toCompile[x] # compilers'[d][1]
          /\ \A e \in 1..NumCompilers : compilers'[e] = compilers'[d] => e = d
    <3> SUFFICES ASSUME NEW d \in 1..NumCompilers, compilers'[d] # <<>>
                 PROVE  /\ compilers'[d][1] \in 1..opc.fed /\ cc[compilers'[d][1]] = <<>>
                        /\ \A x \in DOMAIN opc.toCompile : opc.toCompile[x] # compilers'[d][1]
                        /\ \A e \in 1..NumCompilers : compilers'[e] = compilers'[d] => e = d
      OBVIOUS
    <3>1. d # c /\ compilers'[d] = compilers[d] /\ compilers[d] # <<>>
      BY <1>12
    <3>2. compilers[d][1] # k
      <4>1. compilers[d] = <<compilers[d][1]>> /\ compilers[c] = <<compilers[c][1]>>
        BY <1>1, <1>2, <3>1 DEF Holds
      <4> QED
        BY <1>5, <3>1, <4>1
    <3>3. compilers[d][1] \in DOMAIN suites
      BY <1>2, <1>5, <3>1 DEF RunInv, RunTyped
    <3>4. cc[compilers[d][1]] = <<>>
      BY <1>5, <1>9, <3>1, <3>2, <3>3
    <3> HIDE DEF k
    <3> QED
      BY <1>5, <1>12, <3>1, <3>4
  <2>3. /\ \A i \in DOMAIN suites : i < opc.idx => cc[i] # <<>>
        /\ \A i \in DOMAIN suites : i > opc.fed => cc[i] = <<>>
    <3>1. DOMAIN suites \subseteq Nat /\ k \in Nat /\ ~(k > opc.fed)
      BY <1>2, <1>6 DEF RunInv, RunTyped
    <3> HIDE DEF k
    <3> QED
      BY <1>5, <1>9, <3>1
  <2>4. runPc \notin {"find", "start"}
    BY <1>3 DEF Looping, Ending
  <2> QED
    BY <1>1, <1>5, <1>9, <1>11, <2>1, <2>2, <2>3, <2>4 DEF Placed
<1> QED
  BY <1>13, <1>14, <1>15 DEF RunInv

-----------------------------------------------------------------------------
(* The beginning of the run                                                *)

\* WithoutState: what is kept of the suites found are suites with names of
\* their own.
LEMMA KeptSuites ==
  ASSUME NEW ts \in Found, NEW q \in Rising(Unfiltered(ts))
  PROVE  /\ DOMAIN q = 1..Cardinality(Unfiltered(ts)) /\ Cardinality(Unfiltered(ts)) \in Nat
         /\ \A i \in DOMAIN q : q[i] \in DOMAIN ts
         /\ \A i, j \in DOMAIN q : ts[q[i]].name = ts[q[j]].name => i = j
<1> DEFINE U == Unfiltered(ts)
           n == Cardinality(U)
<1>1. ts \in Seq(SuiteType)
  BY RunCommandAssumption
<1>2. DOMAIN ts = 1..Len(ts) /\ Len(ts) \in Nat
  BY <1>1
<1>3. U \in SUBSET (1..Len(ts))
  BY <1>2 DEF Unfiltered
<1>4. n \in Nat
  <2>1. IsFiniteSet(1..Len(ts))
    BY <1>2, FS_Interval
  <2>2. IsFiniteSet(U)
    BY <1>3, <2>1, FS_Subset
  <2> QED
    BY <2>2, FS_CardinalityType
<1>5. q \in [1..n -> U] /\ \A i, j \in DOMAIN q : i < j => q[i] < q[j]
  BY DEF Rising
<1> HIDE DEF U, n
<1>6. DOMAIN q = 1..n /\ \A i \in DOMAIN q : q[i] \in DOMAIN ts /\ q[i] \in Nat
  <2>1. DOMAIN q = 1..n /\ \A i \in 1..n : q[i] \in U
    BY <1>5
  <2>2. \A u \in U : u \in DOMAIN ts /\ u \in Nat
    BY <1>2, <1>3
  <2> QED
    BY <2>1, <2>2
<1>7. \A i, j \in DOMAIN ts : ts[i].name = ts[j].name => i = j
  BY RunCommandAssumption
<1>8. \A i, j \in DOMAIN q : q[i] = q[j] => i = j
  BY <1>4, <1>5, <1>6
<1> QED
  BY <1>4, <1>6, <1>7, <1>8 DEF U, n

\* FindSuites.
LEMMA FindSuitesStep ==
  ASSUME RunInv, FindSuites, command \in {"run", "build"}, command' = command
  PROVE  RunInv'
<1>1. PICK ts \in Found : \E q \in Rising(Unfiltered(ts)) :
        LET kept == [i \in DOMAIN q |-> ts[q[i]]] IN
        /\ suites' = kept
        /\ binaries' = {kept[i].name : i \in {j \in DOMAIN kept : kept[j].precompiled}}
        /\ completed' = [n \in {kept[i].name : i \in DOMAIN kept} |-> 0]
        /\ IF kept = <<>>
           THEN Abort(IF ts # <<>> /\ ~config.build THEN 0 ELSE 1)
           ELSE runPc' = "start" /\ UNCHANGED exitCode
  BY DEF FindSuites
<1>0. PICK q \in Rising(Unfiltered(ts)) :
        LET kept == [i \in DOMAIN q |-> ts[q[i]]] IN
        /\ suites' = kept
        /\ binaries' = {kept[i].name : i \in {j \in DOMAIN kept : kept[j].precompiled}}
        /\ completed' = [n \in {kept[i].name : i \in DOMAIN kept} |-> 0]
        /\ IF kept = <<>>
           THEN Abort(IF ts # <<>> /\ ~config.build THEN 0 ELSE 1)
           ELSE runPc' = "start" /\ UNCHANGED exitCode
  BY <1>1
<1>2. /\ suites' = [i \in DOMAIN q |-> ts[q[i]]]
      /\ binaries' = {suites'[i].name : i \in {j \in DOMAIN suites' : suites'[j].precompiled}}
      /\ completed' = [n \in {suites'[i].name : i \in DOMAIN suites'} |-> 0]
      /\ (suites' = <<>> /\ runPc' = "exited") \/ runPc' = "start"
  BY <1>0 DEF Abort
<1>3. /\ runPc = "find"
      /\ UNCHANGED <<config, iteration, opc, compilers, signalled, elapsed, unbuilt>>
  BY DEF FindSuites
<1>4. /\ DOMAIN q = 1..Cardinality(Unfiltered(ts)) /\ Cardinality(Unfiltered(ts)) \in Nat
      /\ \A i \in DOMAIN q : q[i] \in DOMAIN ts
      /\ \A i, j \in DOMAIN q : ts[q[i]].name = ts[q[j]].name => i = j
  BY KeptSuites
<1>5. /\ ts \in Seq(SuiteType)
      /\ \A i \in DOMAIN ts :
           /\ ts[i] \in SuiteType /\ ts[i].path = ts[i].precompiled
           /\ ts[i].state \in {"Uncompiled", "Compiled", "SkippedByFilter"}
  <2>1. ts \in Seq(SuiteType)
    BY RunCommandAssumption
  <2>2. \A i \in DOMAIN ts :
           /\ ts[i].path = ts[i].precompiled
           /\ ts[i].state \in {"Uncompiled", "Compiled", "SkippedByFilter"}
    BY RunCommandAssumption
  <2>3. \A i \in DOMAIN ts : ts[i] \in SuiteType
    BY <2>1
  <2> QED
    BY <2>1, <2>2, <2>3
<1>6. /\ suites' \in Seq(SuiteType) /\ DOMAIN suites' = DOMAIN q
      /\ \A i \in DOMAIN suites' :
           /\ suites'[i].path = suites'[i].precompiled
           /\ suites'[i].state \in {"Uncompiled", "Compiled", "SkippedByFilter"}
      /\ \A i, j \in DOMAIN suites' : suites'[i].name = suites'[j].name => i = j
  <2> DEFINE n == Cardinality(Unfiltered(ts))
             f == suites'
  <2>1. n \in Nat /\ f = [i \in 1..n |-> ts[q[i]]] /\ \A i \in 1..n : ts[q[i]] \in SuiteType
    BY <1>2, <1>4, <1>5
  <2> HIDE DEF n, f
  <2>4. f \in [1..n -> SuiteType]
    BY <2>1
  <2>2. f \in Seq(SuiteType) /\ DOMAIN f = 1..n
    BY <2>1, <2>4, SequenceOf
  <2> USE DEF n, f
  <2>3. \A i \in DOMAIN suites' : suites'[i] = ts[q[i]]
    BY <1>2, <1>4
  <2> QED
    BY <1>4, <1>5, <2>2, <2>3
<1>7. /\ \A i \in DOMAIN suites' : suites'[i].state \notin FailureStates
      /\ \A i \in DOMAIN suites' : suites'[i].name \in binaries' => suites'[i].path
  <2>1. \A i \in DOMAIN suites' : suites'[i].state \notin FailureStates
    BY <1>6 DEF FailureStates
  <2>2. SUFFICES ASSUME NEW i \in DOMAIN suites', suites'[i].name \in binaries'
                 PROVE  suites'[i].path
    BY <2>1
  <2>3. PICK j \in DOMAIN suites' : suites'[j].precompiled /\ suites'[i].name = suites'[j].name
    BY <1>2, <2>2
  <2> QED
    BY <1>6, <2>3
<1>8. RunTyped'
  BY <1>2, <1>3, <1>6 DEF RunInv, RunTyped, RunPcs, Ends
<1>9. Named'
  <2> DEFINE D == {suites'[i].name : i \in DOMAIN suites'}
  <2>1. completed' = [n \in D |-> 0]
    BY <1>2
  <2>2. completed' \in [D -> Nat]
    BY <2>1
  <2> QED
    BY <1>6, <2>2 DEF Named
<1>10. Begun'
  BY <1>2, <1>3 DEF RunInv, Begun
<1>11. \A i \in DOMAIN suites' : completed'[suites'[i].name] = 0
  BY <1>2
<1>12. iteration' = 0
  BY <1>3 DEF RunInv, Begun
<1>13. CASE runPc' = "start"
  <2>1. Placed'
    BY <1>3, <1>13 DEF RunInv, Placed, Looping, Ending
  <2>2. Stopped' /\ Answered'
    BY <1>7, <1>13 DEF Stopped, Answered, Looping
  <2>3. OnDisk'
    BY <1>7, <1>13 DEF OnDisk, Looping, Ending, Left
  <2>4. Counted' /\ Ended'
    BY <1>11, <1>12, <1>13 DEF Counted, Ended, Looping, Left
  <2> QED
    BY <1>8, <1>9, <1>10, <2>1, <2>2, <2>3, <2>4 DEF RunInv
<1>14. CASE suites' = <<>> /\ runPc' = "exited"
  <2>1. Placed' /\ Stopped' /\ Answered'
    BY <1>14 DEF Placed, Stopped, Answered, Looping, Ending
  <2>2. DOMAIN suites' = {} /\ Len(suites') = 0
    <3>1. Len(suites') = 0 /\ DOMAIN suites' = 1..Len(suites')
      BY <1>14, <1>6
    <3> QED
      BY <3>1
  <2>3. OnDisk'
    BY <1>14, <2>2 DEF OnDisk, Looping, Ending, Left
  <2>4. Counted'
    BY <1>14, <2>2 DEF Counted, Looping, Left
  <2>5. opc'.idx > Len(suites')
    <3>1. opc'.idx \in Nat \ {0}
      BY <1>8, Fields DEF RunTyped
    <3> QED
      BY <2>2, <3>1
  <2>6. Ended'
    BY <1>14, <2>5 DEF Ended, Left
  <2> QED
    BY <1>8, <1>9, <1>10, <2>1, <2>3, <2>4, <2>6 DEF RunInv
<1> QED
  BY <1>2, <1>13, <1>14

\* StartCompiling: the suites are the same ones, in the same or another order.
LEMMA StartCompilingStep ==
  ASSUME RunInv, StartCompiling, command' = command
  PROVE  RunInv'
<1> DEFINE D == DOMAIN suites
<1>1. /\ runPc = "start" /\ runPc' = "feed"
      /\ opc' = [idx |-> 1, fed |-> 0, stopped |-> FALSE, toCompile |-> <<>>,
                 compiled |-> [i \in D |-> <<>>]]
      /\ UNCHANGED <<config, iteration, compilers, signalled, elapsed, binaries, completed, unbuilt>>
  BY DEF StartCompiling
<1>2. suites \in Seq(SuiteType) /\ D = 1..Len(suites) /\ Len(suites) \in Nat
  BY DEF RunInv, RunTyped
<1>3. PICK p \in [D -> D] : /\ \A i, j \in D : p[i] = p[j] => i = j
                            /\ suites' = [i \in D |-> suites[p[i]]]
  <2>1. CASE suites' = suites
    <3>1. [i \in D |-> i] \in [D -> D] /\ suites = [i \in D |-> suites[[j \in D |-> j][i]]]
      BY <1>2
    <3> QED
      BY <2>1, <3>1
  <2>2. CASE suites' \in ShuffledCopy(suites)
    BY <2>2 DEF ShuffledCopy
  <2> QED
    BY <2>1, <2>2 DEF StartCompiling
<1>4. \A j \in D : \E i \in D : p[i] = j
  <2>1. IsFiniteSet(D)
    BY <1>2, FS_Interval
  <2>2. p \in Injection(D, D)
    BY <1>3 DEF Injection, IsInjective
  <2>3. p \in Surjection(D, D)
    BY <2>1, <2>2, FS_Injection
  <2> QED
    BY <2>3 DEF Surjection
<1>5. /\ suites' \in Seq(SuiteType) /\ DOMAIN suites' = D /\ Len(suites') = Len(suites)
      /\ \A i \in D : suites'[i] = suites[p[i]] /\ p[i] \in D
  <2> DEFINE n == Len(suites)
             f == suites'
  <2>1. n \in Nat /\ f = [i \in 1..n |-> suites[p[i]]] /\ \A i \in 1..n : suites[p[i]] \in SuiteType
    BY <1>2, <1>3
  <2> HIDE DEF n, f
  <2>2. f \in Seq(SuiteType) /\ DOMAIN f = 1..n /\ Len(f) = n
    BY <2>1
  <2> QED
    BY <1>2, <1>3, <2>2 DEF n, f
<1>6. /\ opc'.idx = 1 /\ opc'.fed = 0 /\ opc'.stopped = FALSE /\ opc'.toCompile = <<>>
      /\ opc'.compiled = [i \in D |-> <<>>]
  BY <1>1
<1>7. [i \in D |-> <<>>] \in Seq(Bundles) /\ Len([i \in D |-> <<>>]) = Len(suites)
  <2> DEFINE n == Len(suites)
             f == [i \in D |-> <<>>]
  <2>1. n \in Nat /\ f = [i \in 1..n |-> <<>>] /\ <<>> \in Bundles
    BY <1>2 DEF Bundles
  <2> HIDE DEF n, f
  <2>2. f \in Seq(Bundles) /\ Len(f) = n
    BY <2>1
  <2> QED
    BY <2>2 DEF n, f
<1>8. opc' \in OpcType
  BY <1>1, <1>7 DEF OpcType
<1> HIDE DEF D
<1>9. RunTyped'
  BY <1>1, <1>5, <1>8 DEF RunInv, RunTyped, RunPcs, Ends
<1>10. Named'
  <2>1. {suites'[i].name : i \in D} = {suites[i].name : i \in D}
    <3>1. \A i \in D : suites'[i].name \in {suites[j].name : j \in D}
      BY <1>5
    <3>2. \A j \in D : suites[j].name \in {suites'[i].name : i \in D}
      BY <1>4, <1>5
    <3> QED
      BY <3>1, <3>2
  <2>2. \A i, j \in D : suites'[i].name = suites'[j].name => i = j
    BY <1>3, <1>5 DEF RunInv, Named, D
  <2> QED
    BY <1>1, <1>5, <2>1, <2>2 DEF RunInv, Named, D
<1>11. \A i \in D : /\ suites'[i].state \notin FailureStates
                    /\ suites'[i].name \in binaries => suites'[i].path
                    /\ completed[suites'[i].name] = iteration
  BY <1>1, <1>5 DEF RunInv, Answered, OnDisk, Counted, D, Left
<1>12. Begun' /\ Stopped' /\ Ended'
  BY <1>1, <1>6 DEF RunInv, Begun, Stopped, Ended, Left
<1>13. \A i \in D : i \in Nat /\ i > 0 /\ ~(i < 1)
  BY <1>2
<1>14. Placed'
  <2>1. \A c \in 1..NumCompilers : compilers[c] = <<>>
    BY <1>1 DEF RunInv, Placed
  <2>2. \A i \in D : opc'.compiled[i] = <<>>
    BY <1>6
  <2>3. 0 <= Len(suites) /\ 1 <= Len(suites) + 1 /\ DOMAIN opc'.toCompile = {}
    BY <1>2, <1>6
  <2> QED
    BY <1>1, <1>5, <1>6, <1>7, <1>13, <2>1, <2>2, <2>3 DEF Placed
<1>15. Answered' /\ OnDisk'
  BY <1>1, <1>5, <1>6, <1>11 DEF Answered, OnDisk, Left
<1>16. Counted'
  BY <1>1, <1>5, <1>6, <1>11, <1>13 DEF Counted, Left
<1> QED
  BY <1>9, <1>10, <1>12, <1>14, <1>15, <1>16 DEF RunInv

-----------------------------------------------------------------------------
(* The exit code                                                           *)

\* Nothing has been found yet, or nothing is looked for.
Blank ==
  /\ suites = <<>> /\ runPc \in {"find", "exited"} /\ (runPc = "find" => Placed)
  /\ RunTyped /\ Named /\ Begun

\* Without suites the invariant only speaks of the compiler and the goroutines.
LEMMA NoSuites == Blank => RunInv
<1> SUFFICES ASSUME Blank
             PROVE  RunInv
  OBVIOUS
<1>0. /\ suites = <<>> /\ runPc \in {"find", "exited"} /\ (runPc = "find" => Placed)
      /\ RunTyped /\ Named /\ Begun
  BY DEF Blank
<1>1. DOMAIN suites = {} /\ Len(suites) = 0
  <2>1. Len(suites) = 0 /\ DOMAIN suites = 1..Len(suites)
    BY <1>0
  <2> QED
    BY <2>1
<1>3. Placed
  BY <1>0 DEF Placed, Looping, Ending
<1>4. Stopped /\ Answered
  BY <1>0 DEF Stopped, Answered, Looping
<1>5. OnDisk /\ Counted
  BY <1>0, <1>1 DEF OnDisk, Counted, Looping, Ending, Left
<1>6. opc.idx > Len(suites)
  <2>1. opc.idx \in Nat \ {0}
    BY <1>0, Fields DEF RunTyped
  <2> QED
    BY <1>1, <2>1
<1>7. Ended
  BY <1>0, <1>6 DEF Ended, Left
<1> QED
  BY <1>0, <1>3, <1>4, <1>5, <1>7 DEF RunInv

\* The invariant holds when the program starts.
LEMMA RunInvInit == Init => RunInv
<1> SUFFICES ASSUME Init
             PROVE  RunInv
  OBVIOUS
<1>1. /\ runPc = "find" /\ suites = <<>> /\ iteration = 0 /\ completed = <<>>
      /\ config = (CHOOSE c \in Configs : TRUE)
      /\ opc = [idx |-> 1, fed |-> 0, stopped |-> FALSE, toCompile |-> <<>>, compiled |-> <<>>]
      /\ compilers = [c \in 1..NumCompilers |-> <<>>]
      /\ signalled = FALSE /\ elapsed = FALSE /\ unbuilt = FALSE
  BY DEF Init, RunInit
<1>2. config \in ConfigType
  BY <1>1, RunCommandAssumption
<1>3. opc \in OpcType
  <2>1. <<>> \in Seq(Nat) /\ <<>> \in Seq(Bundles)
    OBVIOUS
  <2> QED
    BY <1>1, <2>1 DEF OpcType
<1>4. compilers \in [1..NumCompilers -> Holds]
  BY <1>1 DEF Holds
<1>5. RunTyped
  <2>1. suites \in Seq(SuiteType) /\ iteration \in Nat
    BY <1>1
  <2>2. runPc \in RunPcs /\ signalled \in BOOLEAN /\ elapsed \in BOOLEAN
    BY <1>1 DEF RunPcs, Ends
  <2> QED
    BY <1>2, <1>3, <1>4, <2>1, <2>2 DEF RunTyped
<1>6. Placed
  BY <1>1 DEF Placed, Looping, Ending
<1>7. Begun
  <2>1. command # "run"
    BY DEF Init
  <2> QED
    BY <1>1, <2>1 DEF Begun
<1>8. Named
  <2>1. DOMAIN suites = {}
    <3>1. Len(suites) = 0 /\ DOMAIN suites = 1..Len(suites)
      BY <1>1
    <3> QED
      BY <3>1
  <2>2. {suites[i].name : i \in DOMAIN suites} = {}
    BY <2>1
  <2>3. completed \in [{} -> Nat]
    BY <1>1
  <2> QED
    BY <2>1, <2>2, <2>3 DEF Named
<1> QED
  BY <1>1, <1>5, <1>6, <1>7, <1>8, NoSuites DEF Blank

\* RunAndExit chooses the command and its configuration.
LEMMA RunAndExitStep ==
  ASSUME RunInv, RunAndExit
  PROVE  RunInv'
<1>1. runPc = "find" /\ suites = <<>> /\ iteration = 0
  <2>1. runPc = "find"
    BY Zenon DEF RunAndExit, RunInv, Begun
  <2> QED
    BY <2>1 DEF RunInv, Begun
<1>2. UNCHANGED <<opc, compilers, signalled, elapsed, suites, iteration, binaries, completed, unbuilt>>
  BY DEF RunAndExit, suiteVars
<1>3. \/ /\ runPc' = "find" /\ config' \in Configs
         /\ config'.build = (command' = "build") /\ command' \in {"run", "build"}
      \/ runPc' = "find" /\ config' = config /\ command' = "watch"
      \/ /\ runPc' = "exited" /\ config' = config
         /\ command' \in {"run", "build", "watch", "unfocus", "help unknown", "help", "convert"}
  BY <1>1 DEF RunAndExit, Abort
<1>4. config' \in ConfigType
  BY <1>3, RunCommandAssumption DEF RunInv, RunTyped
<1>5. RunTyped'
  BY <1>2, <1>3, <1>4 DEF RunInv, RunTyped, RunPcs, Ends
<1>6. Begun'
  <2>1. command' = "run" /\ runPc' = "find" => ~config'.build
    BY <1>3
  <2>2. runPc' = "find" \/ (runPc' = "exited" /\ command' # "")
    BY <1>3
  <2> QED
    BY <1>1, <1>2, <2>1, <2>2 DEF RunInv, Begun
<1>7. runPc' = "find" => Placed'
  BY <1>1, <1>2 DEF RunInv, Placed, Looping, Ending
<1>8. Named'
  BY <1>2 DEF RunInv, Named
<1>9. Blank'
  BY <1>1, <1>2, <1>3, <1>5, <1>6, <1>7, <1>8 DEF Blank
<1> QED
  BY <1>9, NoSuites, PTL

\* A step of `ginkgo run` or `ginkgo build`.
LEMMA RunNextStep ==
  ASSUME RunInv, RunNext, command \in {"run", "build"}, command' = command
  PROVE  RunInv'
<1>1. CASE MainStep
  BY <1>1, FindSuitesStep, StartCompilingStep, SendBundleStep, GoOnStep, InterruptedStep, EmptyStep,
     FailedToCompileStep, AfterFailureStep, TimedOutStep, RunsStep, CompiledSuiteStep, BuiltStep,
     LoopEndsStep, BuildEndsStep, CleanupStep, FinalizeStep, FinalizeAbortsStep, RunAbortsStep
     DEF MainStep
<1>2. CASE \E c \in 1..NumCompilers : CompilerStep(c)
  BY <1>2, TakeBundleStep, FinishCompileStep DEF CompilerStep
<1>3. CASE Interrupt \/ TimeElapses
  BY <1>3, SignalStep
<1> QED
  BY <1>1, <1>2, <1>3 DEF RunNext

\* What leaves the run's variables alone keeps the invariant.
LEMMA RunInvStays ==
  ASSUME RunInv, UNCHANGED <<command, runVars>>
  PROVE  RunInv'
<1>1. UNCHANGED <<command, config, runPc, opc, compilers, signalled, elapsed, exitCode, suites,
                  iteration, binaries, completed, unbuilt>>
  BY DEF runVars, suiteVars
<1>2. RunTyped' /\ Named' /\ Begun'
  BY <1>1 DEF RunInv, RunTyped, Named, Begun
<1>3. Placed' /\ Stopped'
  BY <1>1 DEF RunInv, Placed, Stopped, Looping, Ending, FailedBefore
<1>4. Answered' /\ OnDisk'
  BY <1>1 DEF RunInv, Answered, Answer, OnDisk, Looping, Ending, BrokenOff, Left
<1>5. Counted' /\ Ended'
  BY <1>1 DEF RunInv, Counted, Ended, Looping, FailedBefore, BrokenOff, Failures,
              AnyHaveProgrammaticFocus, Left
<1> QED
  BY <1>2, <1>3, <1>4, <1>5 DEF RunInv

\* The exit code of a run says what became of its suites.
LEMMA RunInvExact == RunInv => ExitCodeExact
<1> DEFINE Verdict == \A i \in DOMAIN suites : suites[i].state \notin {"Uncompiled", "Compiled"}
           Removed == ~config.preserve => \A i \in DOMAIN suites :
                                            suites[i].name \in binaries => suites[i].precompiled
           Short   == \E n \in DOMAIN completed : completed[n] < iteration + 1
           Whole   == \A n \in DOMAIN completed : completed[n] = iteration + 1
<1> SUFFICES ASSUME RunInv, command = "run", Exited, suites # <<>>, ~BrokenOff
             PROVE  /\ exitCode \in {0, 197} => Whole
                    /\ exitCode = 197 <=> (/\ runPc = "exited" /\ ~config.editor
                                           /\ AnyHaveProgrammaticFocus /\ Failures = 0)
                    /\ exitCode = 1 <=> (runPc # "exited" \/ Short)
                    /\ ~unbuilt
                    /\ runPc # "runAborted" => Verdict /\ Removed
  BY DEF ExitCodeExact, BrokenOff
<1> HIDE DEF Verdict, Removed, Short, Whole
<1>0. runPc \in {"exited", "runAborted", "finalizeAborted"}
  BY DEF Exited, Ends
<1>a. CASE runPc = "runAborted"
  <2>1. exitCode = 1 /\ ~unbuilt
    BY <1>a DEF RunInv, Ended, Begun, Left
  <2> QED
    BY <1>a, <2>1
<1> SUFFICES ASSUME runPc # "runAborted"
             PROVE  /\ exitCode \in {0, 197} => Whole
                    /\ exitCode = 197 <=> (/\ runPc = "exited" /\ ~config.editor
                                           /\ AnyHaveProgrammaticFocus /\ Failures = 0)
                    /\ exitCode = 1 <=> (runPc # "exited" \/ Short)
                    /\ ~unbuilt
                    /\ Verdict /\ Removed
  BY <1>a
<1>b. Left
  BY <1>0 DEF Left
<1>1. /\ suites \in Seq(SuiteType) /\ DOMAIN suites = 1..Len(suites) /\ Len(suites) \in Nat
      /\ opc.idx \in Nat /\ iteration \in Nat
  BY Fields DEF RunInv, RunTyped
<1>2. ~config.build /\ ~unbuilt
  BY DEF RunInv, Begun
<1>3. \A i \in DOMAIN suites : i < opc.idx
  BY <1>1, <1>b DEF RunInv, Ended, Left
<1>4. \A i \in DOMAIN suites :
        /\ suites[i].state \in Verdicts
        /\ suites[i].state = "SkippedDueToPriorFailures" => FailedBefore(i)
        /\ completed[suites[i].name] =
             IF suites[i].state \in Done THEN iteration + 1 ELSE iteration
  BY <1>2, <1>3, <1>b DEF RunInv, Counted, Left
<1>5. /\ runPc = "exited" => exitCode = IF Failures > 0 THEN 1
                             ELSE IF AnyHaveProgrammaticFocus /\ ~config.editor THEN 197 ELSE 0
      /\ runPc # "exited" => exitCode = 1
  BY <1>0 DEF RunInv, Ended, Left
<1>6. /\ Failures \in Nat
      /\ Failures > 0 <=> \E i \in DOMAIN suites : suites[i].state \in FailureStates
  BY <1>1, FailuresCount
<1>7. Failures > 0 <=> \E i \in DOMAIN suites : suites[i].state \notin Done
  <2>1. \A i \in DOMAIN suites : suites[i].state \in FailureStates => suites[i].state \notin Done
    BY DEF FailureStates, Done
  <2>2. \A i \in DOMAIN suites : suites[i].state \notin Done =>
          \E j \in DOMAIN suites : suites[j].state \in FailureStates
    BY <1>4 DEF Verdicts, FailedBefore
  <2> QED
    BY <1>6, <2>1, <2>2
<1>8. DOMAIN completed = {suites[i].name : i \in DOMAIN suites}
  BY DEF RunInv, Named
<1>9. Failures > 0 <=> Short
  <2>1. \A i \in DOMAIN suites :
          suites[i].state \notin Done <=> completed[suites[i].name] < iteration + 1
    BY <1>1, <1>4
  <2>2. (\E n \in DOMAIN completed : completed[n] < iteration + 1) <=>
          \E i \in DOMAIN suites : completed[suites[i].name] < iteration + 1
    BY <1>8
  <2> QED
    BY <1>7, <2>1, <2>2 DEF Short
<1>10. ~(Failures > 0) => Whole
  BY <1>4, <1>7, <1>8 DEF Whole
<1>11. exitCode \in {0, 197} => ~(Failures > 0)
  BY <1>5
<1>12. exitCode = 1 <=> (runPc # "exited" \/ Failures > 0)
  BY <1>5
<1>13. exitCode = 197 <=> (/\ runPc = "exited" /\ ~config.editor
                          /\ AnyHaveProgrammaticFocus /\ Failures = 0)
  BY <1>5, <1>6
<1>14. Verdict
  BY <1>4 DEF Verdict, Verdicts, Done, FailureStates
<1>15. Removed
  BY <1>2, <1>b DEF RunInv, Removed, OnDisk, Left
<1> QED
  BY <1>2, <1>9, <1>10, <1>11, <1>12, <1>13, <1>14, <1>15

\* Of any suites, in any configuration and with any number of goroutines that
\* compile them: a run that exits with 0, or for programmatic focus, has run
\* every suite to a pass, or found it empty, in every iteration, one that exits
\* with 1 has not, or aborted, no suite is run before it is built, and no binary
\* is left unless the loop over the suites was aborted (run_command.go,
\* compile.go, run.go).
THEOREM ExitCodeIsExact == Spec => []ExitCodeExact
<1>1. Init => RunInv
  BY RunInvInit
<1>2. RunInv /\ [Next]_vars => RunInv'
  <2> SUFFICES ASSUME RunInv, [Next]_vars
               PROVE  RunInv'
    OBVIOUS
  <2>1. CASE RunAndExit
    BY <2>1, RunAndExitStep
  <2>2. CASE command \in {"run", "build"} /\ RunNext /\ UNCHANGED <<command, watchVars>>
    BY <2>2, RunNextStep
  <2>3. CASE UNCHANGED <<command, runVars>>
    BY <2>3, RunInvStays
  <2> QED
    BY <2>1, <2>2, <2>3 DEF Next, vars
<1> QED
  BY <1>1, <1>2, RunInvExact, PTL DEF Spec

-----------------------------------------------------------------------------
(* The invariant of `ginkgo watch`                                         *)

File     == [time : Nat, test : BOOLEAN, imports : SUBSET Packages]
DirType  == [present : BOOLEAN, entries : SUBSET File]
HashType == [codeHash : SUBSET File, testHash : SUBSET File, deleted : BOOLEAN,
             codeModified : Nat, testModified : Nat]
SuiteRec == [runTime : Nat, deps : SUBSET Packages]
WatchPcs == {"first", "wait", "check", "next", "compile", "run", "ran", "returned", "panicked",
             "aborted"}

WatchTyped ==
  /\ files \in [Packages -> DirType] /\ seen \in [Packages -> DirType]
  /\ clock \in Nat /\ started \in Nat /\ watchPc \in WatchPcs
  /\ DOMAIN tracked \subseteq SuitePackages /\ tracked \in [DOMAIN tracked -> SuiteRec]
  /\ DOMAIN hashes \subseteq Packages /\ hashes \in [DOMAIN hashes -> HashType]
  /\ DOMAIN built = DOMAIN tracked
  /\ found \subseteq SuitePackages /\ unchecked \subseteq DOMAIN hashes
  /\ toRun \in Seq(DOMAIN tracked)
  /\ watchPc \in {"first", "wait", "check"} => toRun = <<>>
  /\ watchPc \in {"next", "compile", "run", "ran"} => toRun # <<>>
  /\ watchPc = "first" => found = {}
  /\ watchPc # "check" => unchecked = {}

\* The files are no newer than the clock.
Past(fs) == \A f \in fs : f.time <= clock

\* Times are past; only where more was done than to save files is there none.
Filed ==
  /\ \A p \in Packages : /\ Past(files[p].entries) /\ Past(seen[p].entries)
                         /\ p \notin rearranged => files[p].present /\ files[p].entries # {}
  /\ \A p \in DOMAIN hashes : Past(hashes[p].codeHash) /\ Past(hashes[p].testHash)
  /\ \A s \in DOMAIN tracked : tracked[s].runTime <= clock
  /\ started <= clock

\* What suite s watches of package p.
Hashed(s, p)   == IF p = s THEN hashes[p].testHash ELSE hashes[p].codeHash
Modified(s, p) == IF p = s THEN hashes[p].testModified ELSE hashes[p].codeModified
Watched(s)     == {s} \cup tracked[s].deps

\* The suites of this tick that are still to be run, and to be built.
Rest == IF watchPc = "next" THEN Range(toRun)
        ELSE IF watchPc \in {"compile", "run", "ran"} THEN Range(Tail(toRun)) ELSE {}
Due(s) == s \in Rest \/ (watchPc = "compile" /\ s = Head(toRun))

\* Suites that were never lost have their hashes, and are there at each tick.
HashesKept ==
  \A s \in DOMAIN tracked \ lost :
    Watched(s) \subseteq DOMAIN hashes /\ (watchPc = "check" => s \in found)

\* A suite runs, or ran, after the last change its hashes show, or will do so
\* for the time they note.
Noted ==
  Watching => \A s \in DOMAIN tracked \ lost : \A p \in Watched(s) :
    \/ s \in Rest
    \/ Latest(Hashed(s, p)) <= Modified(s, p)
    \/ Latest(Hashed(s, p)) <= Since(s)

\* What has been compared is known by its hash.
Compared ==
  watchPc = "check" => \A p \in DOMAIN hashes \ unchecked :
    seen[p].present =>
      hashes[p].codeHash = CodeHash(seen[p]) /\ hashes[p].testHash = TestHash(seen[p])

\* After a tick's comparison the suite ran after what was seen, or is yet to run.
Settled ==
  watchPc \in {"wait", "next", "compile", "run", "ran"} =>
    \A s \in (DOMAIN tracked \cap found) \ lost : \A p \in Watched(s) :
      seen[p].present => s \in Rest \/ Latest(Watches(s, p, seen[p])) <= Since(s)

\* A saved file is in the last build, will be in the next, or is newer than the run.
Newer(s, p) == Latest(Watches(s, p, files[p])) > Since(s)
Fresh(s, p) == Watches(s, p, built[s][p]) = Watches(s, p, files[p])
Built ==
  Watching => \A s \in DOMAIN tracked, p \in Packages \ rearranged :
    Due(s) \/ Fresh(s, p) \/ Newer(s, p)

\* The dependencies that lie behind packages in which files were only saved.
Undisturbed(s, d) == {c \in Chains(s, d) : \A k \in 1..d : c[k] \notin rearranged}
SavedDependencies(s) == UNION {{c[d] : c \in Undisturbed(s, d)} : d \in 1..MaxDepth}

\* They are what the suite depends on, unless something it watches tells.
DepsKnown ==
  \A s \in DOMAIN tracked :
    \/ Watched(s) \cap rearranged # {}
    \/ \E p \in Watched(s) : Newer(s, p)
    \/ tracked[s].deps = SavedDependencies(s)

WatchInv ==
  WatchTyped /\ Filed /\ HashesKept /\ Noted /\ Compared /\ Settled /\ Built /\ DepsKnown

-----------------------------------------------------------------------------
(* Operators                                                               *)

\* A set of naturals has a least element.
LEMMA LeastElement ==
  ASSUME NEW T, T \subseteq Nat, T # {}
  PROVE  \E k \in T : \A j \in T : k <= j
<1>1. IsWellFoundedOn(OpToRel(<, Nat), Nat)
  BY NatLessThanWellFounded
<1>2. PICK k \in T : \A j \in T : ~(<<j, k>> \in OpToRel(<, Nat))
  BY <1>1, WFMin
<1>3. \A j \in T : ~(j < k)
  BY <1>2 DEF OpToRel
<1> QED
  BY <1>3

\* The latest of past times.
LEMMA LatestOf ==
  ASSUME NEW n \in Nat, NEW fs, \A f \in fs : f.time \in Nat /\ f.time <= n
  PROVE  /\ Latest(fs) \in Nat /\ Latest(fs) <= n
         /\ \A f \in fs : f.time <= Latest(fs)
<1>1. CASE fs = {}
  BY <1>1 DEF Latest
<1>2. CASE fs # {}
  <2> DEFINE S == {f.time : f \in fs}
             T == {n - f.time : f \in fs}
  <2>1. T \subseteq Nat /\ T # {}
    BY <1>2
  <2>2. PICK k \in T : \A j \in T : k <= j
    BY <2>1, LeastElement
  <2>3. PICK g \in fs : k = n - g.time
    BY <2>2
  <2>4. \A f \in fs : n - g.time <= n - f.time
    BY <2>2, <2>3
  <2>5. \A f \in fs : g.time >= f.time
    BY <2>4
  <2>6. \E x \in S : \A y \in S : x >= y
    BY <2>5
  <2>7. Latest(fs) = CHOOSE x \in S : \A y \in S : x >= y
    BY <1>2 DEF Latest, Max
  <2>8. Latest(fs) \in S /\ \A y \in S : Latest(fs) >= y
    BY <2>6, <2>7
  <2>9. \A y \in S : y \in Nat /\ y <= n
    OBVIOUS
  <2> HIDE DEF T
  <2> QED
    BY <2>8, <2>9
<1> QED
  BY <1>1, <1>2

\* An order of a set is a sequence of all its elements.
LEMMA OrderOf ==
  ASSUME NEW S, IsFiniteSet(S), NEW q \in Orders(S)
  PROVE  q \in Seq(S) /\ Range(q) = S /\ Len(q) = Cardinality(S)
<1> DEFINE n == Cardinality(S)
<1>1. n \in Nat
  BY FS_CardinalityType
<1>2. q \in [1..n -> S] /\ \A i, j \in DOMAIN q : q[i] = q[j] => i = j
  BY DEF Orders
<1>3. IsFiniteSet(1..n) /\ Cardinality(1..n) = n
  <2>1. IsFiniteSet(1..n) /\ Cardinality(1..n) = IF 1 > n THEN 0 ELSE n - 1 + 1
    BY <1>1, FS_Interval
  <2> HIDE DEF n
  <2> QED
    BY <1>1, <2>1
<1> HIDE DEF n
<1>4. q \in Injection(1..n, S)
  BY <1>2 DEF Injection, IsInjective
<1>5. Cardinality(1..n) = Cardinality(S)
  BY <1>3 DEF n
<1>6. q \in Surjection(1..n, S)
  BY <1>4, <1>5, FS_Injection
<1>7. DOMAIN q = 1..n /\ \A y \in S : \E x \in 1..n : q[x] = y
  BY <1>2, <1>6 DEF Surjection
<1>8. Range(q) = S
  BY <1>2, <1>7 DEF Range
<1>9. q \in Seq(S) /\ Len(q) = n
  BY <1>1, <1>2, SequenceOf
<1> QED
  BY <1>8, <1>9 DEF n

\* Dependencies, by the chains of imports that lead to them.
LEMMA InDependencies ==
  ASSUME NEW s, NEW x
  PROVE  /\ x \in NewDependencies(s) <=>
              \E d \in 1..MaxDepth : \E c \in Chains(s, d) : c[d] = x
         /\ x \in SavedDependencies(s) <=>
              \E d \in 1..MaxDepth : \E c \in Undisturbed(s, d) : c[d] = x
         /\ x \in SavedDependencies(s)' <=>
              \E d \in 1..MaxDepth : \E c \in Undisturbed(s, d)' : c[d] = x
BY DEF NewDependencies, SavedDependencies

\* What makes a sequence of packages a chain of imports.
Link(s, c, k) ==
  /\ IF k = 1 THEN c[1] \in ImportedBy(TestHash(files[s])) /\ c[1] # s
     ELSE c[k] \in ImportedBy(CodeHash(files[c[k - 1]]))
  /\ Buildable(c[k])

\* A chain of imports, now and after a step, is made of links.
LEMMA ChainLinks ==
  ASSUME NEW s, NEW d \in Nat \ {0}, NEW c
  PROVE  /\ c \in Chains(s, d) <=>
              c \in [0..d -> Packages] /\ c[0] = s /\ \A k \in 1..d : Link(s, c, k)
         /\ c \in Chains(s, d)' <=>
              c \in [0..d -> Packages] /\ c[0] = s /\ \A k \in 1..d : Link(s, c, k)'
<1>1. \A k \in 1..d : k = 1 \/ (k # 1 /\ k \in 2..d)
  OBVIOUS
<1>2. 1 \in 1..d /\ \A k \in 2..d : k \in 1..d /\ k # 1
  OBVIOUS
<1>3. c \in Chains(s, d) <=>
        c \in [0..d -> Packages] /\ c[0] = s /\ \A k \in 1..d : Link(s, c, k)
  BY <1>1, <1>2 DEF Chains, Link
<1>4. c \in Chains(s, d)' <=>
        c \in [0..d -> Packages] /\ c[0] = s /\ \A k \in 1..d : Link(s, c, k)'
  BY <1>1, <1>2 DEF Chains, Link
<1> QED
  BY <1>3, <1>4

\* The dependencies of a suite are packages.
LEMMA DependencyTypes ==
  ASSUME NEW s
  PROVE  NewDependencies(s) \subseteq Packages
<1> SUFFICES ASSUME NEW x \in NewDependencies(s)
             PROVE  x \in Packages
  OBVIOUS
<1>1. PICK d \in 1..MaxDepth : \E c \in Chains(s, d) : c[d] = x
  BY InDependencies
<1>2. PICK c \in Chains(s, d) : c[d] = x
  BY <1>1
<1>3. d \in 0..d
  BY WatchAssumption
<1> QED
  BY <1>2, <1>3 DEF Chains

\* The beginning of a chain is one, and leads to a dependency.
LEMMA ChainPrefix ==
  ASSUME NEW s, NEW d \in 1..MaxDepth, NEW c \in [0..d -> Packages], NEW k \in 1..d,
         c[0] = s, \A j \in 1..k : Link(s, c, j)
  PROVE  /\ c[k] \in NewDependencies(s)
         /\ (\A j \in 1..k : c[j] \notin rearranged) => c[k] \in SavedDependencies(s)
<1> DEFINE b == [j \in 0..k |-> c[j]]
<1>1. d \in Nat /\ k \in Nat \ {0} /\ k \in 1..MaxDepth /\ 0..k \subseteq 0..d /\ 1..k \subseteq 0..k
      /\ k \in 0..k /\ 0 \in 0..k /\ (\A j \in 1..k : j - 1 \in 0..k /\ (j = 1 => 1 \in 0..k))
  BY WatchAssumption
<1>2. b \in [0..k -> Packages] /\ b[0] = s /\ b[k] = c[k] /\ \A j \in 0..k : b[j] = c[j]
  BY <1>1
<1> HIDE DEF b
<1>3. \A j \in 1..k : Link(s, b, j)
  BY <1>1, <1>2 DEF Link
<1>4. b \in Chains(s, k)
  BY <1>1, <1>2, <1>3, ChainLinks
<1>5. (\A j \in 1..k : c[j] \notin rearranged) => b \in Undisturbed(s, k)
  BY <1>1, <1>2, <1>4 DEF Undisturbed
<1> QED
  BY <1>1, <1>2, <1>4, <1>5, InDependencies

\* Where files were only saved in all of them, the dependencies are these.
LEMMA SavedAreAll ==
  ASSUME NEW s, NewDependencies(s) \cap rearranged = {}
  PROVE  SavedDependencies(s) = NewDependencies(s)
<1>1. SavedDependencies(s) \subseteq NewDependencies(s)
  BY InDependencies DEF Undisturbed
<1>2. ASSUME NEW y \in NewDependencies(s)
      PROVE  y \in SavedDependencies(s)
  <2>1. PICK d \in 1..MaxDepth : \E c \in Chains(s, d) : c[d] = y
    BY <1>2, InDependencies
  <2>2. PICK c \in Chains(s, d) : c[d] = y
    BY <2>1
  <2>3. d \in Nat \ {0} /\ \A k \in 1..d : 1..k \subseteq 1..d
    BY WatchAssumption
  <2>4. c \in [0..d -> Packages] /\ c[0] = s /\ \A k \in 1..d : Link(s, c, k)
    BY <2>3, ChainLinks
  <2>5. \A k \in 1..d : c[k] \notin rearranged
    <3> SUFFICES ASSUME NEW k \in 1..d
                 PROVE  c[k] \in NewDependencies(s)
      OBVIOUS
    <3>1. \A j \in 1..k : Link(s, c, j)
      BY <2>3, <2>4
    <3> QED
      BY <2>4, <3>1, ChainPrefix
  <2> QED
    BY <2>2, <2>5, InDependencies DEF Undisturbed
<1> QED
  BY <1>1, <1>2

\* A link between other packages than x stays when x changes.
LEMMA LinkStays ==
  ASSUME NEW x, NEW s \in Packages, s # x, NEW d \in Nat \ {0}, NEW c \in [0..d -> Packages],
         \A p \in Packages \ {x} : files'[p] = files[p],
         NEW k \in 1..d, c[k] # x, k # 1 => c[k - 1] # x
  PROVE  Link(s, c, k)' <=> Link(s, c, k)
<1>1. k \in 0..d /\ (k # 1 => k - 1 \in 0..d)
  OBVIOUS
<1>2. files'[s] = files[s] /\ files'[c[k]] = files[c[k]] /\ (k # 1 => files'[c[k - 1]] = files[c[k - 1]])
  BY <1>1
<1> QED
  BY <1>1, <1>2 DEF Link, Buildable, TestHash, CodeHash, ImportedBy

\* A package that a suite does not depend on may be saved, or rearranged.
LEMMA SavedStay ==
  ASSUME NEW x \in Packages, NEW s \in Packages, s # x, x \notin SavedDependencies(s),
         \A p \in Packages \ {x} : files'[p] = files[p],
         \/ rearranged' = rearranged \cup {x}
         \/ rearranged' = rearranged /\ Buildable(x)
  PROVE  SavedDependencies(s)' = SavedDependencies(s)
<1>1. ASSUME NEW y \in SavedDependencies(s)
      PROVE  y \in SavedDependencies(s)'
  <2>1. PICK d \in 1..MaxDepth : \E c \in Undisturbed(s, d) : c[d] = y
    BY <1>1, InDependencies
  <2>2. PICK c \in Undisturbed(s, d) : c[d] = y
    BY <2>1
  <2>3. d \in Nat \ {0} /\ \A k \in 1..d : 1..k \subseteq 1..d /\ (k # 1 => k - 1 \in 1..d)
    BY WatchAssumption
  <2>4. /\ c \in [0..d -> Packages] /\ c[0] = s
        /\ \A k \in 1..d : Link(s, c, k) /\ c[k] \notin rearranged
    BY <2>2, <2>3, ChainLinks DEF Undisturbed
  <2>5. \A k \in 1..d : c[k] # x
    <3> SUFFICES ASSUME NEW k \in 1..d
                 PROVE  c[k] \in SavedDependencies(s)
      OBVIOUS
    <3>1. \A j \in 1..k : Link(s, c, j) /\ c[j] \notin rearranged
      BY <2>3, <2>4
    <3> QED
      BY <2>4, <3>1, ChainPrefix
  <2>6. \A k \in 1..d : Link(s, c, k)'
    BY <2>3, <2>4, <2>5, LinkStays
  <2>7. c \in Chains(s, d)'
    BY <2>3, <2>4, <2>6, ChainLinks
  <2>8. \A k \in 1..d : c[k] \notin rearranged'
    BY <2>4, <2>5
  <2>9. c \in Undisturbed(s, d)'
    BY <2>7, <2>8 DEF Undisturbed
  <2> QED
    BY <2>2, <2>9, InDependencies
<1>2. ASSUME NEW y \in SavedDependencies(s)'
      PROVE  y \in SavedDependencies(s)
  <2>1. PICK d \in 1..MaxDepth : \E c \in Undisturbed(s, d)' : c[d] = y
    BY <1>2, InDependencies
  <2>2. PICK c \in Undisturbed(s, d)' : c[d] = y
    BY <2>1
  <2>3. d \in Nat \ {0} /\ \A k \in 1..d : 1..k \subseteq 1..d /\ (k # 1 => k - 1 \in 1..d)
    BY WatchAssumption
  <2>4. c \in Chains(s, d)' /\ \A k \in 1..d : c[k] \notin rearranged'
    BY <2>2 DEF Undisturbed
  <2>5. /\ c \in [0..d -> Packages] /\ c[0] = s
        /\ \A k \in 1..d : Link(s, c, k)' /\ c[k] \notin rearranged
    BY <2>3, <2>4, ChainLinks
  <2>6. \A k \in 1..d : c[k] # x
    <3>1. CASE rearranged' = rearranged \cup {x}
      BY <2>4, <3>1
    <3>2. CASE Buildable(x)
      <4> DEFINE T == {k \in 1..d : c[k] = x}
      <4> SUFFICES ASSUME T # {}
                   PROVE  FALSE
        OBVIOUS
      <4>1. T \subseteq Nat
        BY <2>3
      <4>2. PICK k \in T : \A j \in T : k <= j
        BY <4>1, LeastElement
      <4>3. k \in 1..d /\ c[k] = x /\ \A j \in 1..d : c[j] = x => k <= j
        BY <4>2
      <4> HIDE DEF T
      <4>4. \A j \in 1..k : j \in 1..d /\ (j = k \/ c[j] # x) /\ (j # 1 => j - 1 \in 1..d /\ c[j - 1] # x)
        <5> SUFFICES ASSUME NEW j \in 1..k
                     PROVE  j \in 1..d /\ (j = k \/ c[j] # x) /\ (j # 1 => j - 1 \in 1..d /\ c[j - 1] # x)
          OBVIOUS
        <5>1. j \in 1..d /\ (j # k => ~(k <= j)) /\ (j # 1 => j - 1 \in 1..d /\ ~(k <= j - 1))
          BY <2>3, <4>3
        <5> QED
          BY <4>3, <5>1
      <4>5. \A j \in 1..k : Link(s, c, j)
        <5> SUFFICES ASSUME NEW j \in 1..k
                     PROVE  Link(s, c, j)
          OBVIOUS
        <5>1. CASE j # k
          BY <2>3, <2>5, <4>4, <5>1, LinkStays
        <5>2. CASE j = k
          <6>1. Link(s, c, k)' /\ (k # 1 => k - 1 \in 1..d /\ c[k - 1] # x) /\ k \in 1..k
            BY <2>3, <2>5, <4>3, <4>4, <5>2
          <6>2. k # 1 => c[k - 1] \in Packages \ {x}
            BY <2>3, <2>5, <6>1
          <6>3. files'[s] = files[s] /\ (k # 1 => files'[c[k - 1]] = files[c[k - 1]])
            BY <6>2
          <6> QED
            BY <3>2, <4>3, <5>2, <6>1, <6>3 DEF Link, CodeHash, TestHash, ImportedBy
        <5> QED
          BY <5>1, <5>2
      <4>6. \A j \in 1..k : c[j] \notin rearranged
        BY <2>5, <4>4
      <4>7. c[k] \in SavedDependencies(s)
        BY <2>5, <4>3, <4>5, <4>6, ChainPrefix
      <4> QED
        BY <4>3, <4>7
    <3> QED
      BY <3>1, <3>2
  <2>7. \A k \in 1..d : Link(s, c, k)
    BY <2>3, <2>5, <2>6, LinkStays
  <2>8. c \in Chains(s, d)
    BY <2>3, <2>5, <2>7, ChainLinks
  <2>9. c \in Undisturbed(s, d)
    BY <2>5, <2>8 DEF Undisturbed
  <2> QED
    BY <2>2, <2>9, InDependencies
<1> QED
  BY <1>1, <1>2

\* Dependencies are a matter of what is there and what it imports.
LEMMA DependenciesOf ==
  ASSUME NEW s, ImportedBy(TestHash(files'[s])) = ImportedBy(TestHash(files[s])),
         rearranged' = rearranged,
         \A p \in Packages : /\ CodeHash(files'[p]) = CodeHash(files[p])
                             /\ Buildable(p)' <=> Buildable(p)
  PROVE  SavedDependencies(s)' = SavedDependencies(s)
<1>1. ASSUME NEW d \in 1..MaxDepth
      PROVE  Undisturbed(s, d)' = Undisturbed(s, d)
  <2>1. d \in Nat \ {0} /\ \A k \in 1..d : k \in 0..d /\ (k # 1 => k - 1 \in 0..d)
    BY WatchAssumption
  <2>2. ASSUME NEW c \in [0..d -> Packages], NEW k \in 1..d
        PROVE  Link(s, c, k)' <=> Link(s, c, k)
    <3>1. /\ Buildable(c[k])' <=> Buildable(c[k])
          /\ k # 1 => CodeHash(files'[c[k - 1]]) = CodeHash(files[c[k - 1]])
      BY <2>1
    <3> QED
      BY <3>1 DEF Link
  <2>3. \A c : c \in Chains(s, d)' <=> c \in Chains(s, d)
    BY <2>1, <2>2, ChainLinks
  <2>4. \A c : c \in Undisturbed(s, d)' <=> c \in Undisturbed(s, d)
    BY <2>3 DEF Undisturbed
  <2> QED
    BY <2>4 DEF Undisturbed
<1> QED
  BY <1>1 DEF SavedDependencies

\* The fields of files, directories, hashes and tracked suites.
LEMMA WatchFields ==
  /\ \A f \in File : f.time \in Nat /\ f.test \in BOOLEAN /\ f.imports \subseteq Packages
  /\ \A r \in DirType : r.present \in BOOLEAN /\ r.entries \subseteq File
  /\ \A h \in HashType : /\ h.codeHash \subseteq File /\ h.testHash \subseteq File
                         /\ h.deleted \in BOOLEAN /\ h.codeModified \in Nat /\ h.testModified \in Nat
  /\ \A r \in SuiteRec : r.runTime \in Nat /\ r.deps \subseteq Packages
BY DEF File, DirType, HashType, SuiteRec

\* The latest of files that are past is a time that is past.
LEMMA LatestPast ==
  ASSUME WatchInv, NEW fs \in SUBSET File, Past(fs)
  PROVE  Latest(fs) \in Nat /\ Latest(fs) <= clock
<1>1. clock \in Nat /\ \A f \in fs : f.time \in Nat /\ f.time <= clock
  BY WatchFields DEF WatchInv, WatchTyped, Past
<1> QED
  BY <1>1, LatestOf

\* What is watched of a directory is part of it.
LEMMA WatchesPart ==
  ASSUME NEW s, NEW p, NEW dir
  PROVE  Watches(s, p, dir) \subseteq dir.entries /\ CodeHash(dir) \subseteq dir.entries
         /\ TestHash(dir) = dir.entries
BY DEF Watches, CodeHash, TestHash

\* What the invariant says of a suite that is tracked.
LEMMA TrackedSuite ==
  ASSUME WatchInv, NEW s \in DOMAIN tracked
  PROVE  /\ s \in SuitePackages /\ s \in Packages
         /\ tracked[s].runTime \in Nat /\ tracked[s].runTime <= clock
         /\ clock \in Nat /\ started \in Nat
         /\ Since(s) \in Nat /\ Since(s) <= clock /\ tracked[s].runTime <= Since(s)
         /\ tracked[s].deps \subseteq Packages /\ Watched(s) \subseteq Packages
<1>1. tracked[s] \in SuiteRec /\ s \in SuitePackages /\ clock \in Nat /\ started \in Nat
  BY DEF WatchInv, WatchTyped
<1>2. tracked[s].runTime \in Nat /\ tracked[s].deps \subseteq Packages
  BY <1>1, WatchFields
<1>3. s \in Packages
  BY <1>1, WatchAssumption
<1>4. tracked[s].runTime <= clock /\ started <= clock
  BY DEF WatchInv, Filed
<1> QED
  BY <1>1, <1>2, <1>3, <1>4 DEF Watched, Since

\* The files of the packages, and those last seen, are past.
LEMMA FileTimes ==
  ASSUME WatchInv, NEW p \in Packages
  PROVE  /\ files[p] \in DirType /\ files[p].entries \subseteq File /\ Past(files[p].entries)
         /\ seen[p] \in DirType /\ seen[p].entries \subseteq File /\ Past(seen[p].entries)
<1>1. files[p] \in DirType /\ seen[p] \in DirType
  BY DEF WatchInv, WatchTyped
<1> QED
  BY <1>1, WatchFields DEF WatchInv, Filed

-----------------------------------------------------------------------------
(* The user                                                                *)

\* Files of package x are saved, or x is rearranged.
Edited(x) ==
  /\ files' \in [Packages -> DirType]
  /\ \A p \in Packages \ {x} : files'[p] = files[p]
  /\ \A f \in files'[x].entries : f.time <= clock + 1
  /\ clock' = clock + 1 /\ UNCHANGED <<watchPc, trackerVars>>
  /\ \/ rearranged' = rearranged \cup {x}
     \/ /\ rearranged' = rearranged
        /\ files'[x].present = files[x].present /\ Buildable(x)
        /\ \E f \in files'[x].entries :
             f.time = clock + 1 /\ (f.test => CodeHash(files'[x]) = CodeHash(files[x]))

\* To change a directory is to put another in its place.
LEMMA PutDirectory ==
  ASSUME WatchInv, NEW x \in Packages, NEW dir \in DirType, files' = [files EXCEPT ![x] = dir]
  PROVE  /\ files' \in [Packages -> DirType] /\ files'[x] = dir
         /\ \A p \in Packages \ {x} : files'[p] = files[p]
<1>1. files \in [Packages -> DirType]
  BY DEF WatchInv, WatchTyped
<1> QED
  BY <1>1

\* The same, when only its files change.
LEMMA PutEntries ==
  ASSUME WatchInv, NEW x \in Packages, NEW es \in SUBSET File,
         files' = [files EXCEPT ![x].entries = es]
  PROVE  /\ files' \in [Packages -> DirType]
         /\ files'[x].entries = es /\ files'[x].present = files[x].present
         /\ \A p \in Packages \ {x} : files'[p] = files[p]
<1> DEFINE dir == [files[x] EXCEPT !.entries = es]
<1>1. files \in [Packages -> DirType] /\ files[x] \in DirType
  BY DEF WatchInv, WatchTyped
<1>2. files' = [files EXCEPT ![x] = dir]
  BY <1>1
<1>3. dir \in DirType /\ dir.entries = es /\ dir.present = files[x].present
  BY <1>1 DEF DirType
<1> HIDE DEF dir
<1> QED
  BY <1>2, <1>3, PutDirectory

\* What is checked out are files of that time.
LEMMA CheckedOutFiles ==
  ASSUME NEW p \in Packages, NEW t \in Nat
  PROVE  /\ CheckedOut(p, t) \subseteq File /\ CheckedOut(p, t) # {}
         /\ \A f \in CheckedOut(p, t) : f.time = t
<1> DEFINE a == [time |-> t, test |-> FALSE, imports |-> Imports[p]]
           b == [time |-> t, test |-> TRUE, imports |-> TestImports[p]]
<1>1. Imports[p] \subseteq Packages /\ TestImports[p] \subseteq Packages
  BY WatchAssumption
<1>2. a \in File /\ b \in File /\ a.time = t /\ b.time = t
  BY <1>1 DEF File
<1>3. CheckedOut(p, t) = {a} \cup (IF p \in SuitePackages THEN {b} ELSE {})
  BY DEF CheckedOut
<1> HIDE DEF a, b
<1> QED
  BY <1>2, <1>3

\* Every step of the user on the files is one of these.
LEMMA UserStepEdits ==
  ASSUME WatchInv, NEW x \in Packages, UserStep(x)
  PROVE  Edited(x)
<1>1. /\ files[x] \in DirType /\ files[x].entries \subseteq File /\ clock \in Nat /\ clock + 1 \in Nat
      /\ \A f \in files[x].entries : f.time \in Nat /\ f.time <= clock
  BY FileTimes, WatchFields DEF WatchInv, WatchTyped, Past
<1>2. \A f \in files[x].entries : f.time <= clock + 1
  BY <1>1
<1>3. CASE Save(x)
  <2>1. /\ clock' = clock + 1 /\ UNCHANGED <<watchPc, trackerVars>> /\ rearranged' = rearranged
        /\ files[x].entries # {}
    BY <1>3 DEF Save, UserEdits
  <2>2. PICK test \in BOOLEAN : \E imports \in ImportSets :
          \E old \in {{}} \cup {{f} : f \in {g \in files[x].entries : g.test = test}} :
            files' = [files EXCEPT ![x].entries =
                        (@ \ old) \cup {[time |-> clock + 1, test |-> test, imports |-> imports]}]
    BY <1>3 DEF Save
  <2>2a. PICK imports \in ImportSets,
              old \in {{}} \cup {{f} : f \in {g \in files[x].entries : g.test = test}} :
          files' = [files EXCEPT ![x].entries =
                      (@ \ old) \cup {[time |-> clock + 1, test |-> test, imports |-> imports]}]
    BY <2>2
  <2> DEFINE new == [time |-> clock + 1, test |-> test, imports |-> imports]
             es == (files[x].entries \ old) \cup {new}
  <2>3. new \in File /\ new.time = clock + 1 /\ new.test = test
    BY <1>1, WatchAssumption DEF File
  <2> HIDE DEF new
  <2>4. files' = [files EXCEPT ![x].entries = es]
    BY <2>2a DEF new
  <2>5. es \subseteq File /\ new \in es /\ \A f \in es : f.time <= clock + 1
    BY <1>1, <1>2, <2>3
  <2>6. \A f \in old : f \in files[x].entries /\ f.test = test
    BY <2>2a
  <2>7. test => {f \in es : ~f.test} = {f \in files[x].entries : ~f.test}
    BY <2>3, <2>6
  <2> HIDE DEF es
  <2>8. /\ files' \in [Packages -> DirType]
        /\ files'[x].entries = es /\ files'[x].present = files[x].present
        /\ \A p \in Packages \ {x} : files'[p] = files[p]
    BY <2>4, <2>5, PutEntries
  <2>9. new.test => CodeHash(files'[x]) = CodeHash(files[x])
    BY <2>3, <2>7, <2>8 DEF CodeHash
  <2> QED
    BY <2>1, <2>3, <2>5, <2>8, <2>9 DEF Edited, Buildable
<1>4. CASE Delete(x)
  <2>1. /\ clock' = clock + 1 /\ UNCHANGED <<watchPc, trackerVars>>
        /\ rearranged' = rearranged \cup {x}
    BY <1>4 DEF Delete, Rearranges, UserEdits
  <2>2. PICK f \in files[x].entries : files' = [files EXCEPT ![x].entries = @ \ {f}]
    BY <1>4 DEF Delete
  <2> DEFINE es == files[x].entries \ {f}
  <2>3. files' = [files EXCEPT ![x].entries = es]
    BY <2>2
  <2>4. es \subseteq File /\ \A g \in es : g.time <= clock + 1
    BY <1>1, <1>2
  <2> HIDE DEF es
  <2>5. /\ files' \in [Packages -> DirType] /\ files'[x].entries = es
        /\ \A p \in Packages \ {x} : files'[p] = files[p]
    BY <2>3, <2>4, PutEntries
  <2> QED
    BY <2>1, <2>4, <2>5 DEF Edited
<1>5. CASE MoveIn(x)
  <2>1. /\ clock' = clock + 1 /\ UNCHANGED <<watchPc, trackerVars>>
        /\ rearranged' = rearranged \cup {x}
    BY <1>5 DEF MoveIn, Rearranges, UserEdits
  <2>2. PICK f \in [time : 1..clock, test : BOOLEAN, imports : ImportSets] :
          files' = [files EXCEPT ![x].entries = @ \cup {f}]
    BY <1>5 DEF MoveIn
  <2> DEFINE es == files[x].entries \cup {f}
  <2>3. files' = [files EXCEPT ![x].entries = es]
    BY <2>2
  <2>4. f \in File /\ f.time <= clock + 1
    BY <1>1, WatchAssumption DEF File
  <2>5. es \subseteq File /\ \A g \in es : g.time <= clock + 1
    BY <1>1, <1>2, <2>4
  <2> HIDE DEF es
  <2>6. /\ files' \in [Packages -> DirType] /\ files'[x].entries = es
        /\ \A p \in Packages \ {x} : files'[p] = files[p]
    BY <2>3, <2>5, PutEntries
  <2> QED
    BY <2>1, <2>5, <2>6 DEF Edited
<1>6. CASE RemovePackage(x)
  <2> DEFINE dir == [present |-> FALSE, entries |-> {}]
  <2>1. /\ clock' = clock + 1 /\ UNCHANGED <<watchPc, trackerVars>>
        /\ rearranged' = rearranged \cup {x} /\ files' = [files EXCEPT ![x] = dir]
    BY <1>6 DEF RemovePackage, Rearranges, UserEdits
  <2>2. dir \in DirType /\ dir.entries = {}
    BY DEF DirType
  <2> HIDE DEF dir
  <2> QED
    BY <2>1, <2>2, PutDirectory DEF Edited
<1>7. CASE RestorePackage(x)
  <2> DEFINE es == CheckedOut(x, clock + 1)
             dir == [present |-> TRUE, entries |-> es]
  <2>1. /\ clock' = clock + 1 /\ UNCHANGED <<watchPc, trackerVars>>
        /\ rearranged' = rearranged \cup {x} /\ files' = [files EXCEPT ![x] = dir]
    BY <1>7 DEF RestorePackage, Rearranges, UserEdits
  <2>2. es \subseteq File /\ \A f \in es : f.time = clock + 1
    BY <1>1, CheckedOutFiles
  <2> HIDE DEF es
  <2>3. dir \in DirType /\ dir.entries = es
    BY <2>2 DEF DirType
  <2> HIDE DEF dir
  <2>4. \A f \in es : f.time <= clock + 1
    BY <1>1, <2>2
  <2> QED
    BY <2>1, <2>3, <2>4, PutDirectory DEF Edited
<1> QED
  BY <1>3, <1>4, <1>5, <1>6, <1>7 DEF UserStep

\* What the tracker knows does not depend on the files.
LEMMA SameTracker ==
  ASSUME WatchInv, UNCHANGED <<watchPc, started, tracked, lost, hashes, found, unchecked, toRun, seen>>
  PROVE  /\ HashesKept' /\ Noted' /\ Compared' /\ Settled'
         /\ (Rest)' = Rest /\ (Watching' <=> Watching)
         /\ \A s : (Due(s)' <=> Due(s)) /\ Since(s)' = Since(s) /\ Watched(s)' = Watched(s)
<1>1. /\ (Rest)' = Rest /\ (Watching' <=> Watching)
      /\ \A s : (Due(s)' <=> Due(s)) /\ Since(s)' = Since(s) /\ Watched(s)' = Watched(s)
  BY DEF Rest, Due, Watching, Since, Watched
<1>2. HashesKept' /\ Compared'
  BY <1>1 DEF WatchInv, HashesKept, Compared
<1>3. \A s, p : Hashed(s, p)' = Hashed(s, p) /\ Modified(s, p)' = Modified(s, p)
  BY DEF Hashed, Modified
<1>4. Noted'
  BY <1>1, <1>3 DEF WatchInv, Noted
<1>5. Settled'
  BY <1>1 DEF WatchInv, Settled
<1> QED
  BY <1>1, <1>2, <1>4, <1>5

\* A file of a new time that a suite watches is newer than its last run.
LEMMA NewTimeIsNewer ==
  ASSUME WatchInv, NEW x \in Packages, Edited(x), NEW s \in DOMAIN tracked,
         NEW f \in Watches(s, x, files'[x]), f.time = clock + 1
  PROVE  Newer(s, x)'
<1>1. Since(s) \in Nat /\ Since(s) <= clock /\ clock \in Nat /\ Since(s)' = Since(s)
  BY TrackedSuite DEF Edited, trackerVars, Since
<1> DEFINE fs == Watches(s, x, files'[x])
<1>2. fs \subseteq files'[x].entries /\ files'[x] \in DirType
  BY WatchesPart DEF Edited
<1>3. \A g \in fs : g.time \in Nat /\ g.time <= clock + 1
  BY <1>2, WatchFields DEF Edited
<1>4. f \in fs /\ clock + 1 \in Nat
  BY <1>1
<1> HIDE DEF fs
<1>5. Latest(fs) \in Nat /\ f.time <= Latest(fs)
  BY <1>3, <1>4, LatestOf
<1>6. Latest(fs) > Since(s)
  BY <1>1, <1>5
<1> QED
  BY <1>1, <1>6 DEF Newer, fs

\* An edit keeps the invariant: a saved file is newer than the last run of the
\* suites that watch it, and the others need not know.
LEMMA EditedStep ==
  ASSUME WatchInv, NEW x \in Packages, Edited(x)
  PROVE  WatchInv'
<1>1. /\ UNCHANGED <<watchPc, started, tracked, lost, hashes, found, unchecked, toRun, seen, built>>
      /\ clock' = clock + 1 /\ files' \in [Packages -> DirType]
      /\ \A p \in Packages \ {x} : files'[p] = files[p]
      /\ rearranged \subseteq rearranged'
  BY DEF Edited, trackerVars
<1>2. clock \in Nat /\ clock + 1 \in Nat
  BY DEF WatchInv, WatchTyped
<1>3. WatchTyped'
  BY <1>1, <1>2 DEF WatchInv, WatchTyped
<1>4. ASSUME NEW fs \in SUBSET File, Past(fs)
      PROVE  \A f \in fs : f.time <= clock'
  <2>1. \A f \in fs : f.time \in Nat /\ f.time <= clock
    BY <1>4, WatchFields DEF Past
  <2> QED
    BY <1>1, <1>2, <2>1
<1>5. Filed'
  <2>1. \A p \in DOMAIN hashes : Past(hashes[p].codeHash)' /\ Past(hashes[p].testHash)'
    <3> SUFFICES ASSUME NEW p \in DOMAIN hashes
                 PROVE  Past(hashes[p].codeHash)' /\ Past(hashes[p].testHash)'
      OBVIOUS
    <3>1. hashes[p] \in HashType /\ Past(hashes[p].codeHash) /\ Past(hashes[p].testHash)
      BY DEF WatchInv, WatchTyped, Filed
    <3>2. hashes[p].codeHash \subseteq File /\ hashes[p].testHash \subseteq File
      BY <3>1, WatchFields
    <3> QED
      BY <1>1, <1>4, <3>1, <3>2 DEF Past
  <2>2. \A s \in DOMAIN tracked : tracked[s].runTime <= clock'
    <3> SUFFICES ASSUME NEW s \in DOMAIN tracked
                 PROVE  tracked[s].runTime <= clock'
      OBVIOUS
    <3> QED
      BY <1>1, <1>2, TrackedSuite
  <2>3. started <= clock'
    <3>1. started \in Nat /\ started <= clock
      BY DEF WatchInv, WatchTyped, Filed
    <3> QED
      BY <1>1, <1>2, <3>1
  <2>4. ASSUME NEW p \in Packages
        PROVE  /\ Past(files[p].entries)' /\ Past(seen[p].entries)'
               /\ p \notin rearranged' => files'[p].present /\ files'[p].entries # {}
    <3>1. Past(seen[p].entries)'
      BY <1>1, <1>4, FileTimes DEF Past
    <3>2. CASE p # x
      <4>1. files'[p] = files[p]
        BY <1>1, <3>2
      <4>2. Past(files[p].entries)'
        BY <1>4, <4>1, FileTimes DEF Past
      <4>3. p \notin rearranged => files[p].present /\ files[p].entries # {}
        BY DEF WatchInv, Filed
      <4> QED
        BY <1>1, <3>1, <4>1, <4>2, <4>3
    <3>3. CASE p = x
      <4>1. Past(files[x].entries)'
        BY <1>1 DEF Edited, Past
      <4>2. x \notin rearranged' =>
              /\ x \notin rearranged /\ files'[x].present = files[x].present
              /\ files'[x].entries # {}
        BY DEF Edited
      <4>3. x \notin rearranged => files[x].present
        BY DEF WatchInv, Filed
      <4> QED
        BY <3>1, <3>3, <4>1, <4>2, <4>3
    <3> QED
      BY <3>2, <3>3
  <2> QED
    BY <1>1, <2>1, <2>2, <2>3, <2>4 DEF Filed
<1>6. /\ HashesKept' /\ Noted' /\ Compared' /\ Settled'
      /\ (Rest)' = Rest /\ (Watching' <=> Watching)
      /\ \A s : (Due(s)' <=> Due(s)) /\ Since(s)' = Since(s) /\ Watched(s)' = Watched(s)
  BY <1>1, SameTracker
<1>7. ASSUME NEW s \in DOMAIN tracked, NEW p \in Packages, p # x
      PROVE  Newer(s, p)' <=> Newer(s, p)
  <2>1. files'[p] = files[p]
    BY <1>1, <1>7
  <2> QED
    BY <1>6, <2>1 DEF Newer, Watches, CodeHash, TestHash
\* What a suite watches of a saved package is newer than its run, or as it was.
<1>8. ASSUME NEW s \in DOMAIN tracked, x \notin rearranged'
      PROVE  /\ rearranged' = rearranged /\ Buildable(x) /\ Buildable(x)'
             /\ Newer(s, x)' \/ (s # x /\ CodeHash(files'[x]) = CodeHash(files[x]))
  <2>1. /\ rearranged' = rearranged /\ Buildable(x)
        /\ \E f \in files'[x].entries :
             f.time = clock + 1 /\ (f.test => CodeHash(files'[x]) = CodeHash(files[x]))
    BY <1>8 DEF Edited
  <2>2. PICK f \in files'[x].entries :
          f.time = clock + 1 /\ (f.test => CodeHash(files'[x]) = CodeHash(files[x]))
    BY <2>1
  <2>3. f.test \in BOOLEAN
    BY <1>1, WatchFields
  <2>4. s = x \/ ~f.test => f \in Watches(s, x, files'[x])
    BY DEF Watches, CodeHash, TestHash
  <2>5. s = x \/ ~f.test => Newer(s, x)'
    BY <2>2, <2>4, NewTimeIsNewer
  <2> QED
    BY <2>1, <2>2, <2>3, <2>5 DEF Buildable
<1>9. Built'
  <2> SUFFICES ASSUME Watching, NEW s \in DOMAIN tracked, NEW p \in Packages, p \notin rearranged',
                      ~Due(s), ~(Newer(s, p)')
               PROVE  Watches(s, p, built[s][p]) = Watches(s, p, files'[p])
    <3>1. \A s, p, dir : Watches(s, p, dir)' = Watches(s, p, dir')
      BY DEF Watches, CodeHash, TestHash
    <3> QED
      BY <1>1, <1>6, <3>1 DEF Built, Fresh, Watches, CodeHash, TestHash
  <2>1. p \notin rearranged
    BY <1>1
  <2>2. Watches(s, p, built[s][p]) = Watches(s, p, files[p]) \/ Newer(s, p)
    BY <2>1 DEF WatchInv, Built, Fresh
  <2>3. CASE p # x
    <3>1. files'[p] = files[p] /\ ~Newer(s, p)
      BY <1>1, <1>7, <2>3
    <3> QED
      BY <2>2, <3>1
  <2>4. CASE p = x
    <3>1. s # x /\ CodeHash(files'[x]) = CodeHash(files[x])
      BY <1>8, <2>4
    <3>2. Watches(s, x, files'[x]) = Watches(s, x, files[x])
      BY <3>1 DEF Watches
    <3>3. ~Newer(s, x)
      BY <1>6, <2>4, <3>2 DEF Newer, Watches, CodeHash, TestHash
    <3> QED
      BY <2>2, <2>4, <3>2, <3>3
  <2> QED
    BY <2>3, <2>4
<1>10. DepsKnown'
  <2> SUFFICES ASSUME NEW s \in DOMAIN tracked, Watched(s) \cap rearranged' = {},
                      \A p \in Watched(s) : ~(Newer(s, p)')
               PROVE  tracked[s].deps = SavedDependencies(s)'
    BY <1>1, <1>6 DEF DepsKnown
  <2>1. Watched(s) \cap rearranged = {} /\ Watched(s) \subseteq Packages /\ s \in Packages
        /\ s \in Watched(s)
    BY <1>1, TrackedSuite DEF Watched
  <2>2. CASE x \notin Watched(s)
    <3>1. \A p \in Watched(s) : ~Newer(s, p)
      BY <1>7, <2>1, <2>2
    <3>2. tracked[s].deps = SavedDependencies(s)
      BY <2>1, <3>1 DEF WatchInv, DepsKnown
    <3>3. s # x /\ x \notin SavedDependencies(s)
      BY <2>1, <2>2, <3>2 DEF Watched
    <3>4. \/ rearranged' = rearranged \cup {x}
          \/ rearranged' = rearranged /\ Buildable(x)
      BY DEF Edited
    <3>5. SavedDependencies(s)' = SavedDependencies(s)
      BY <1>1, <2>1, <3>3, <3>4, SavedStay
    <3> QED
      BY <3>2, <3>5
  <2>3. CASE x \in Watched(s)
    <3>1. /\ rearranged' = rearranged /\ Buildable(x) /\ Buildable(x)'
          /\ s # x /\ CodeHash(files'[x]) = CodeHash(files[x])
      BY <1>8, <2>3
    <3>2. Watches(s, x, files'[x]) = Watches(s, x, files[x])
      BY <3>1 DEF Watches
    <3>3. ~Newer(s, x)
      BY <1>6, <2>3, <3>2 DEF Newer, Watches, CodeHash, TestHash
    <3>4. \A p \in Watched(s) : ~Newer(s, p)
      BY <1>7, <2>1, <3>3
    <3>5. tracked[s].deps = SavedDependencies(s)
      BY <2>1, <3>4 DEF WatchInv, DepsKnown
    <3>6. files'[s] = files[s]
      BY <1>1, <2>1, <3>1
    <3>7. \A p \in Packages : /\ CodeHash(files'[p]) = CodeHash(files[p])
                              /\ Buildable(p)' <=> Buildable(p)
      <4> SUFFICES ASSUME NEW p \in Packages, p # x
                   PROVE  /\ CodeHash(files'[p]) = CodeHash(files[p])
                          /\ Buildable(p)' <=> Buildable(p)
        BY <3>1
      <4>1. files'[p] = files[p]
        BY <1>1
      <4> QED
        BY <4>1 DEF Buildable
    <3>8. SavedDependencies(s)' = SavedDependencies(s)
      BY <3>1, <3>6, <3>7, DependenciesOf
    <3> QED
      BY <3>5, <3>8
  <2> QED
    BY <2>2, <2>3
<1> QED
  BY <1>3, <1>5, <1>6, <1>9, <1>10 DEF WatchInv

-----------------------------------------------------------------------------
(* The watcher                                                             *)

\* Dependencies are a matter of the files.
LEMMA SameFiles ==
  ASSUME UNCHANGED <<files, rearranged>>
  PROVE  \A s : /\ NewDependencies(s)' = NewDependencies(s)
                /\ SavedDependencies(s)' = SavedDependencies(s)
<1>1. \A s, d : Chains(s, d)' = Chains(s, d)
  BY DEF Chains, Buildable, CodeHash, TestHash, ImportedBy
<1>2. \A s, d : Undisturbed(s, d)' = Undisturbed(s, d)
  BY <1>1 DEF Undisturbed
<1> QED
  BY <1>1, <1>2 DEF NewDependencies, SavedDependencies

\* A step that touches none of what is known.
LEMMA SameKnowledge ==
  ASSUME WatchInv,
         UNCHANGED <<files, clock, rearranged, started, tracked, lost, hashes, found, unchecked, seen>>,
         watchPc' # "check", WatchTyped',
         Watching' => Watching /\ (Rest)' = Rest /\ watchPc \notin {"first", "check"},
         \A s \in DOMAIN tracked : \A p \in Packages :
           Watching' /\ (Due(s) \/ Fresh(s, p)) => Due(s)' \/ Fresh(s, p)'
  PROVE  WatchInv'
<1>1. \A s : /\ NewDependencies(s)' = NewDependencies(s) /\ SavedDependencies(s)' = SavedDependencies(s)
             /\ Watched(s)' = Watched(s) /\ Since(s)' = Since(s)
  BY SameFiles DEF Watched, Since
<1>2. \A s, p : /\ Hashed(s, p)' = Hashed(s, p) /\ Modified(s, p)' = Modified(s, p)
                /\ Newer(s, p)' <=> Newer(s, p)
                /\ Watches(s, p, seen[p])' = Watches(s, p, seen[p])
  BY <1>1 DEF Hashed, Modified, Newer, Watches, CodeHash, TestHash
<1>3. Filed'
  BY DEF WatchInv, Filed, Past
<1>4. HashesKept' /\ Compared'
  BY <1>1 DEF WatchInv, HashesKept, Compared
<1>5. Noted'
  BY <1>1, <1>2 DEF WatchInv, Noted
<1>6. watchPc' \in {"wait", "next", "compile", "run", "ran"} =>
        watchPc \in {"wait", "next", "compile", "run", "ran"} /\ (Rest)' = Rest
  BY DEF WatchInv, WatchTyped, WatchPcs, Watching
<1>7. Settled'
  BY <1>1, <1>2, <1>6 DEF WatchInv, Settled
<1>8. Built'
  BY <1>2 DEF WatchInv, Built
<1>9. DepsKnown'
  BY <1>1, <1>2 DEF WatchInv, DepsKnown
<1> QED
  BY <1>3, <1>4, <1>5, <1>7, <1>8, <1>9 DEF WatchInv

\* A step that leaves all of the watcher's variables but `asked` and `edits` alone.
LEMMA WatchInvStays ==
  ASSUME WatchInv,
         UNCHANGED <<files, clock, rearranged, watchPc, started, tracked, lost, hashes, found,
                     unchecked, toRun, seen, built>>
  PROVE  WatchInv'
<1>1. WatchTyped' /\ Filed'
  BY DEF WatchInv, WatchTyped, Filed, Past
<1>2. /\ HashesKept' /\ Noted' /\ Compared' /\ Settled' /\ (Watching' <=> Watching)
      /\ \A s : (Due(s)' <=> Due(s)) /\ Since(s)' = Since(s) /\ Watched(s)' = Watched(s)
  BY SameTracker
<1>3. \A s, p : (Newer(s, p)' <=> Newer(s, p)) /\ (Fresh(s, p)' <=> Fresh(s, p))
  BY <1>2 DEF Newer, Fresh, Watches, CodeHash, TestHash
<1>4. Built'
  BY <1>2, <1>3 DEF WatchInv, Built
<1>5. DepsKnown'
  BY <1>2, <1>3, SameFiles DEF WatchInv, DepsKnown
<1> QED
  BY <1>1, <1>2, <1>4, <1>5 DEF WatchInv

\* The steps that end the command.
LEMMA EndStep ==
  ASSUME WatchInv, Stop \/ DeltaPanics \/ NothingToWatch \/ WatchAborts
  PROVE  WatchInv'
<1>1. /\ watchPc' \in {"returned", "panicked", "aborted"}
      /\ UNCHANGED <<files, clock, rearranged, started, tracked, lost, hashes, found, unchecked,
                     toRun, seen, built>>
  BY DEF Stop, DeltaPanics, NothingToWatch, WatchAborts, fileVars, trackerVars
<1>2. unchecked = {}
  BY DEF Stop, DeltaPanics, NothingToWatch, WatchAborts, WatchInv, WatchTyped
<1>3. WatchTyped'
  BY <1>1, <1>2 DEF WatchInv, WatchTyped, WatchPcs
<1>4. ~Watching' /\ watchPc' # "check"
  BY <1>1 DEF Watching
<1> QED
  BY <1>1, <1>3, <1>4, SameKnowledge

\* Compile: the build is made of the files as they are.
LEMMA CompileStep ==
  ASSUME WatchInv, Compile
  PROVE  WatchInv'
<1> DEFINE x == Head(toRun)
<1>1. /\ watchPc = "compile" /\ watchPc' \in {"run", "ran"}
      /\ built' = [built EXCEPT ![x] = files]
      /\ UNCHANGED <<files, clock, rearranged, started, tracked, lost, hashes, found, unchecked,
                     toRun, seen>>
  BY DEF Compile, fileVars
<1>2. toRun \in Seq(DOMAIN tracked) /\ toRun # <<>> /\ DOMAIN built = DOMAIN tracked
  BY <1>1 DEF WatchInv, WatchTyped
<1>3. x \in DOMAIN built
  BY <1>2
<1> HIDE DEF x
<1>4. DOMAIN built' = DOMAIN tracked /\ built'[x] = files
      /\ \A s \in DOMAIN tracked : s # x => built'[s] = built[s]
  BY <1>1, <1>2, <1>3
<1>5. WatchTyped'
  BY <1>1, <1>4 DEF WatchInv, WatchTyped, WatchPcs
<1>6. (Rest)' = Rest
  BY <1>1 DEF Rest
<1>7. ASSUME NEW s \in DOMAIN tracked, NEW p, Due(s) \/ Fresh(s, p)
      PROVE  Due(s)' \/ Fresh(s, p)'
  <2>1. CASE s = x
    BY <1>1, <1>4, <2>1 DEF Fresh
  <2>2. CASE s # x
    <3>1. Fresh(s, p) => Fresh(s, p)'
      BY <1>1, <1>4, <2>2 DEF Fresh, Watches, CodeHash, TestHash
    <3>2. Due(s) => Due(s)'
      BY <1>1, <1>6, <2>2 DEF Due, x
    <3> QED
      BY <1>7, <3>1, <3>2
  <2> QED
    BY <2>1, <2>2
<1>8. Watching /\ watchPc \notin {"first", "check"} /\ watchPc' # "check"
  BY <1>1 DEF Watching
<1> QED
  BY <1>1, <1>5, <1>6, <1>7, <1>8, SameKnowledge

\* RunAndCleanup, and ResumeWatch, which goes on with the next suite.
LEMMA ResumeStep ==
  ASSUME WatchInv, RunAndCleanup \/ ResumeWatch
  PROVE  WatchInv'
<1>1. /\ UNCHANGED <<files, clock, rearranged, started, tracked, lost, hashes, found, unchecked,
                     seen, built>>
      /\ \/ watchPc = "run" /\ watchPc' = "ran" /\ toRun' = toRun
         \/ /\ watchPc = "ran" /\ toRun' = Tail(toRun)
            /\ watchPc' = IF Len(toRun) = 1 THEN "wait" ELSE "next"
  BY DEF RunAndCleanup, ResumeWatch, fileVars, trackerVars
<1>2. toRun \in Seq(DOMAIN tracked) /\ toRun # <<>>
  BY <1>1 DEF WatchInv, WatchTyped
<1>3. /\ Tail(toRun) \in Seq(DOMAIN tracked)
      /\ Len(toRun) = 1 => Tail(toRun) = <<>>
      /\ Len(toRun) # 1 => Tail(toRun) # <<>>
  <2>1. Tail(toRun) \in Seq(DOMAIN tracked) /\ Len(Tail(toRun)) = Len(toRun) - 1
        /\ Len(toRun) \in Nat
    BY <1>2
  <2> DEFINE r == Tail(toRun)
  <2> HIDE DEF r
  <2>2. r \in Seq(DOMAIN tracked) /\ Len(r) = Len(toRun) - 1
    BY <2>1 DEF r
  <2>3. /\ Len(toRun) = 1 => r = <<>>
        /\ Len(toRun) # 1 => r # <<>>
    BY <2>1, <2>2
  <2> QED
    BY <2>2, <2>3 DEF r
<1>4. WatchTyped'
  BY <1>1, <1>3 DEF WatchInv, WatchTyped, WatchPcs
<1>5. (Rest)' = Rest
  <2>1. CASE watchPc = "run"
    BY <1>1, <2>1 DEF Rest
  <2>2. CASE watchPc = "ran" /\ Len(toRun) # 1
    BY <1>1, <2>2 DEF Rest
  <2>3. CASE watchPc = "ran" /\ Len(toRun) = 1
    <3>1. Range(Tail(toRun)) = {}
      <4> DEFINE r == Tail(toRun)
      <4>1. r = <<>>
        BY <1>3, <2>3
      <4> HIDE DEF r
      <4>2. DOMAIN r = 1..Len(r) /\ Len(r) = 0
        BY <4>1
      <4>3. DOMAIN r = {}
        BY <4>2
      <4> QED
        BY <4>3 DEF Range, r
    <3> QED
      BY <1>1, <2>3, <3>1 DEF Rest
  <2> QED
    BY <1>1, <2>1, <2>2, <2>3
<1>6. \A s, p : Due(s) \/ Fresh(s, p) => Due(s)' \/ Fresh(s, p)'
  BY <1>1, <1>5 DEF Due, Fresh, Watches, CodeHash, TestHash
<1>7. Watching /\ watchPc \notin {"first", "check"} /\ watchPc' \notin {"first", "check"}
      /\ watchPc # "wait"
  BY <1>1 DEF Watching
<1> QED
  BY <1>1, <1>4, <1>5, <1>6, <1>7, SameKnowledge

\* Tick: a round of comparisons begins, without the suites that are not there.
LEMMA TickStep ==
  ASSUME WatchInv, Tick
  PROVE  WatchInv'
<1>1. /\ watchPc = "wait" /\ watchPc' = "check"
      /\ found' = Provided /\ unchecked' = DOMAIN hashes
      /\ lost' = lost \cup (DOMAIN tracked \ Provided)
      /\ UNCHANGED <<files, clock, rearranged, started, tracked, hashes, toRun, seen, built>>
  BY DEF Tick, fileVars
<1>2. \A s : /\ SavedDependencies(s)' = SavedDependencies(s)
             /\ Watched(s)' = Watched(s) /\ Since(s)' = Since(s)
  BY <1>1, SameFiles DEF Watched, Since
<1>3. \A s, p : /\ Hashed(s, p)' = Hashed(s, p) /\ Modified(s, p)' = Modified(s, p)
                /\ Newer(s, p)' <=> Newer(s, p)
                /\ Fresh(s, p)' <=> Fresh(s, p)
  BY <1>1, <1>2 DEF Hashed, Modified, Newer, Fresh, Watches, CodeHash, TestHash
<1>4. WatchTyped'
  BY <1>1 DEF WatchInv, WatchTyped, WatchPcs, Provided
<1>5. Filed'
  BY <1>1 DEF WatchInv, Filed, Past
<1>6. HashesKept'
  BY <1>1, <1>2 DEF WatchInv, HashesKept
<1>7. (Rest)' = Rest /\ Watching /\ \A s : Due(s)' <=> Due(s)
  BY <1>1 DEF Rest, Due, Watching
<1>8. Noted'
  BY <1>1, <1>2, <1>3, <1>7 DEF WatchInv, Noted
<1>9. Compared' /\ Settled'
  BY <1>1 DEF Compared, Settled
<1>10. Built'
  BY <1>1, <1>3, <1>7 DEF WatchInv, Built
<1>11. DepsKnown'
  BY <1>1, <1>2, <1>3 DEF WatchInv, DepsKnown
<1> QED
  BY <1>4, <1>5, <1>6, <1>8, <1>9, <1>10, <1>11 DEF WatchInv

\* A hash of files that are past.
PastHash(h) == h \in HashType /\ Past(h.codeHash) /\ Past(h.testHash)

\* The hashes there are have past times, and so have new ones.
LEMMA HashTimes ==
  ASSUME WatchInv
  PROVE  /\ \A p \in DOMAIN hashes : PastHash(hashes[p])
         /\ \A p \in Packages : PastHash(NewPackageHash(p))
<1>1. \A p \in DOMAIN hashes : PastHash(hashes[p])
  BY DEF WatchInv, WatchTyped, Filed, PastHash
<1>2. ASSUME NEW p \in Packages
      PROVE  PastHash(NewPackageHash(p))
  <2> DEFINE d == ~files[p].present
             ch == CodeHash(files[p])
             th == TestHash(files[p])
  <2>1. NewPackageHash(p) = [codeHash |-> ch, testHash |-> th, deleted |-> d,
                             codeModified |-> 0, testModified |-> 0]
    BY DEF NewPackageHash
  <2>2. ch \subseteq File /\ th \subseteq File /\ d \in BOOLEAN /\ Past(ch) /\ Past(th)
    BY FileTimes DEF CodeHash, TestHash, Past
  <2> HIDE DEF d, ch, th
  <2> QED
    BY <2>1, <2>2 DEF HashType, PastHash
<1> QED
  BY <1>1, <1>2

\* PackageHashes.Add keeps the hashes there are.
LEMMA AddedHashes ==
  ASSUME WatchInv, NEW hs, NEW ps, ps \subseteq Packages, \A p \in DOMAIN hs : PastHash(hs[p])
  PROVE  /\ DOMAIN Add(hs, ps) = DOMAIN hs \cup ps
         /\ Add(hs, ps) \in [DOMAIN hs \cup ps -> HashType]
         /\ \A p \in DOMAIN hs : Add(hs, ps)[p] = hs[p]
         /\ \A p \in DOMAIN hs \cup ps : PastHash(Add(hs, ps)[p])
<1>1. \A p \in ps : PastHash(NewPackageHash(p))
  BY HashTimes
<1>2. \A h : PastHash(h) => h \in HashType
  BY DEF PastHash
<1> QED
  BY <1>1, <1>2 DEF Add

\* The packages the watcher knows are finite in number.
LEMMA FiniteSuites ==
  ASSUME NEW S \in SUBSET SuitePackages
  PROVE  IsFiniteSet(S)
<1>1. IsFiniteSet(Packages) /\ S \in SUBSET Packages
  BY WatchAssumption
<1> QED
  BY <1>1, FS_Subset

\* The dependencies just computed are known, or something in them is rearranged.
LEMMA JustComputed ==
  ASSUME NEW s
  PROVE  ({s} \cup NewDependencies(s)) \cap rearranged # {} \/ NewDependencies(s) = SavedDependencies(s)
BY SavedAreAll

\* WatchSpecs: the suites that are there are recorded.
LEMMA WatchSpecsStep ==
  ASSUME WatchInv, WatchSpecs
  PROVE  WatchInv'
<1> DEFINE P == Provided
           U == UNION {{s} \cup NewDependencies(s) : s \in P}
<1>1. /\ watchPc = "first" /\ started' = clock
      /\ tracked' = [s \in P |-> [runTime |-> 0, deps |-> NewDependencies(s)]]
      /\ hashes' = Add(<<>>, U) /\ built' = [s \in P |-> files] /\ seen' = files
      /\ UNCHANGED <<files, clock, rearranged, lost, found, unchecked>>
      /\ \/ Cardinality(P) = 1 /\ toRun' \in Orders(P) /\ watchPc' = "compile"
         \/ watchPc' = "wait" /\ toRun' = toRun
  BY DEF WatchSpecs, fileVars
<1>2. P \subseteq SuitePackages /\ P \subseteq Packages
  BY WatchAssumption DEF Provided
<1>3. \A s : NewDependencies(s) \subseteq Packages
  BY DependencyTypes
<1> HIDE DEF P
<1>4. U \subseteq Packages /\ \A s \in P : {s} \cup NewDependencies(s) \subseteq U
  BY <1>2, <1>3
<1> HIDE DEF U
<1>5. DOMAIN hashes' = U /\ hashes' \in [U -> HashType] /\ \A p \in U : PastHash(hashes'[p])
  <2> DEFINE e == <<>>
  <2>1. DOMAIN e = {}
    OBVIOUS
  <2>2. hashes' = Add(e, U)
    BY <1>1
  <2> HIDE DEF e
  <2>3. /\ DOMAIN Add(e, U) = DOMAIN e \cup U
        /\ Add(e, U) \in [DOMAIN e \cup U -> HashType]
        /\ \A p \in DOMAIN e \cup U : PastHash(Add(e, U)[p])
    BY <1>4, <2>1, AddedHashes
  <2> QED
    BY <2>1, <2>2, <2>3
<1>6. /\ DOMAIN tracked' = P /\ tracked' \in [P -> SuiteRec]
      /\ \A s \in P : tracked'[s].runTime = 0 /\ tracked'[s].deps = NewDependencies(s)
  BY <1>1, <1>3 DEF SuiteRec
<1>7. /\ clock \in Nat /\ files \in [Packages -> DirType] /\ found = {}
      /\ toRun = <<>> /\ unchecked = {}
  BY <1>1 DEF WatchInv, WatchTyped
<1>8. /\ toRun' \in Seq(P) /\ watchPc' \in {"compile", "wait"}
      /\ watchPc' = "wait" => toRun' = <<>>
      /\ watchPc' = "compile" => toRun' # <<>>
  <2>1. CASE watchPc' = "wait" /\ toRun' = toRun
    BY <1>7, <2>1
  <2>2. CASE Cardinality(P) = 1 /\ toRun' \in Orders(P) /\ watchPc' = "compile"
    <3>1. IsFiniteSet(P)
      BY <1>2, FiniteSuites
    <3>2. toRun' \in Seq(P) /\ Len(toRun') = 1
      BY <2>2, <3>1, OrderOf
    <3> QED
      BY <2>2, <3>2
  <2> QED
    BY <1>1, <2>1, <2>2
<1>9. WatchTyped'
  BY <1>1, <1>2, <1>4, <1>5, <1>6, <1>7, <1>8 DEF WatchTyped, WatchPcs
<1>10. Filed'
  <2>1. \A s \in P : tracked'[s].runTime <= clock
    BY <1>6, <1>7
  <2>2. clock <= clock
    BY <1>7
  <2> QED
    BY <1>1, <1>5, <1>6, <2>1, <2>2 DEF WatchInv, Filed, PastHash, Past
<1>11. \A s \in P : Watched(s)' \subseteq U /\ Since(s)' = clock
  BY <1>1, <1>4, <1>6 DEF Watched, Since
<1>12. HashesKept'
  BY <1>5, <1>6, <1>8, <1>11 DEF HashesKept
<1>13. Noted'
  <2> SUFFICES ASSUME NEW s \in P, NEW p \in U
               PROVE  Latest(Hashed(s, p)') <= clock
    BY <1>6, <1>11 DEF Noted
  <2>1. PastHash(hashes'[p])
    BY <1>5
  <2>2. Hashed(s, p)' \subseteq File /\ Past(Hashed(s, p)')
    BY <2>1, WatchFields DEF PastHash, Hashed
  <2> QED
    BY <2>2, LatestPast
<1>14. Compared' /\ Settled'
  BY <1>1, <1>7, <1>8 DEF Compared, Settled
<1>15. Built'
  <2> SUFFICES ASSUME NEW s \in P, NEW p
               PROVE  Fresh(s, p)'
    BY <1>6 DEF Built
  <2>1. built'[s] = files'
    BY <1>1
  <2> QED
    BY <2>1 DEF Fresh
<1>16. DepsKnown'
  <2> SUFFICES ASSUME NEW s \in P
               PROVE  \/ ({s} \cup NewDependencies(s)) \cap rearranged # {}
                      \/ NewDependencies(s) = SavedDependencies(s)
    BY <1>1, <1>6, SameFiles DEF DepsKnown, Watched
  <2> QED
    BY JustComputed
<1> QED
  BY <1>9, <1>10, <1>12, <1>13, <1>14, <1>15, <1>16 DEF WatchInv

\* PackageHash.CheckForChanges answers a hash of the files that are there, and
\* notes the time of a change.
LEMMA CheckedHash ==
  ASSUME WatchInv, NEW x \in DOMAIN hashes, NEW g,
         g = CheckForChanges(hashes[x], files[x], clock + 1)
  PROVE  /\ PastHash(g)
         /\ files[x].present => g.codeHash = CodeHash(files[x]) /\ g.testHash = TestHash(files[x])
         /\ \/ g.codeHash = hashes[x].codeHash /\ g.codeModified = hashes[x].codeModified
            \/ Latest(g.codeHash) <= g.codeModified
         /\ \/ g.testHash = hashes[x].testHash /\ g.testModified = hashes[x].testModified
            \/ Latest(g.testHash) <= g.testModified
<1> DEFINE h == hashes[x]
           ch == CodeHash(files[x])
           th == TestHash(files[x])
<1>1. /\ PastHash(h) /\ clock \in Nat /\ x \in Packages /\ clock + 1 \in Nat
      /\ ch \subseteq File /\ th \subseteq File /\ Past(ch) /\ Past(th)
  <2>1. PastHash(h) /\ clock \in Nat /\ x \in Packages
    BY HashTimes DEF WatchInv, WatchTyped
  <2>2. files[x].entries \subseteq File /\ Past(files[x].entries)
    BY <2>1, FileTimes
  <2> QED
    BY <2>1, <2>2 DEF CodeHash, TestHash, Past
<1>2. /\ h \in HashType /\ h.codeHash \subseteq File /\ h.testHash \subseteq File
      /\ h.codeModified \in Nat /\ h.testModified \in Nat /\ h.deleted \in BOOLEAN
      /\ Past(h.codeHash) /\ Past(h.testHash)
  BY <1>1, WatchFields DEF PastHash
<1>3. /\ Latest(ch) \in Nat /\ Latest(th) \in Nat
      /\ Latest(h.codeHash) \in Nat /\ Latest(h.codeHash) <= clock
      /\ Latest(h.testHash) \in Nat /\ Latest(h.testHash) <= clock
  BY <1>1, <1>2, LatestPast
<1>4. CASE files[x].present
  <2> DEFINE cm == IF h.codeHash # ch THEN Latest(ch) ELSE h.codeModified
             tm == IF h.testHash # th THEN Latest(th) ELSE h.testModified
             no == FALSE
  <2>1. g = [codeHash |-> ch, testHash |-> th, deleted |-> no,
             codeModified |-> cm, testModified |-> tm]
    BY <1>4 DEF CheckForChanges
  <2>2. cm \in Nat /\ tm \in Nat /\ no \in BOOLEAN
    BY <1>2, <1>3
  <2>3. /\ (ch = h.codeHash /\ cm = h.codeModified) \/ Latest(ch) <= cm
        /\ (th = h.testHash /\ tm = h.testModified) \/ Latest(th) <= tm
    BY <1>3
  <2> HIDE DEF cm, tm, no, ch, th, h
  <2>4. /\ g.codeHash = ch /\ g.testHash = th /\ g.codeModified = cm /\ g.testModified = tm
    BY <2>1
  <2>5. ch \in SUBSET File /\ th \in SUBSET File
    BY <1>1
  <2>6. g \in HashType
    BY <2>1, <2>2, <2>5 DEF HashType
  <2> QED
    BY <1>1, <2>3, <2>4, <2>6 DEF ch, th, h, PastHash
<1>5. CASE ~files[x].present
  <2> DEFINE cm == IF h.deleted THEN h.codeModified ELSE clock + 1
             tm == IF h.deleted THEN h.testModified ELSE clock + 1
  <2>1. g = [h EXCEPT !.codeModified = cm, !.testModified = tm, !.deleted = TRUE]
    BY <1>5 DEF CheckForChanges
  <2>2. cm \in Nat /\ tm \in Nat
    BY <1>1, <1>2
  <2>3. /\ cm = h.codeModified \/ Latest(h.codeHash) <= cm
        /\ tm = h.testModified \/ Latest(h.testHash) <= tm
    BY <1>1, <1>3
  <2> HIDE DEF cm, tm, ch, th, h
  <2>4. /\ g \in HashType /\ g.codeHash = h.codeHash /\ g.testHash = h.testHash
        /\ g.codeModified = cm /\ g.testModified = tm
    BY <1>2, <2>1, <2>2 DEF HashType
  <2> QED
    BY <1>2, <1>5, <2>3, <2>4 DEF h, PastHash
<1> QED
  BY <1>4, <1>5

\* CheckPackage: what changed is noted with its time.
LEMMA CheckPackageStep ==
  ASSUME WatchInv, NEW x \in Packages, CheckPackage(x)
  PROVE  WatchInv'
<1>1. PICK g : g = CheckForChanges(hashes[x], files[x], clock + 1)
  OBVIOUS
<1>2. /\ watchPc = "check" /\ x \in unchecked /\ watchPc' = watchPc
      /\ hashes' = [hashes EXCEPT ![x] = g]
      /\ clock' \in {clock, clock + 1}
      /\ seen' = [seen EXCEPT ![x] = files[x]]
      /\ unchecked' = unchecked \ {x}
      /\ UNCHANGED <<files, rearranged, started, tracked, lost, found, toRun, built>>
  BY <1>1 DEF CheckPackage
<1>3. /\ x \in DOMAIN hashes /\ hashes \in [DOMAIN hashes -> HashType]
      /\ clock \in Nat /\ clock' \in Nat /\ files[x] \in DirType /\ clock <= clock'
      /\ seen \in [Packages -> DirType] /\ DOMAIN hashes \subseteq Packages
  BY <1>2 DEF WatchInv, WatchTyped
<1>4. /\ PastHash(g)
      /\ files[x].present => g.codeHash = CodeHash(files[x]) /\ g.testHash = TestHash(files[x])
      /\ \/ g.codeHash = hashes[x].codeHash /\ g.codeModified = hashes[x].codeModified
         \/ Latest(g.codeHash) <= g.codeModified
      /\ \/ g.testHash = hashes[x].testHash /\ g.testModified = hashes[x].testModified
         \/ Latest(g.testHash) <= g.testModified
  BY <1>1, <1>3, CheckedHash
<1>5. /\ DOMAIN hashes' = DOMAIN hashes /\ hashes' \in [DOMAIN hashes -> HashType] /\ hashes'[x] = g
      /\ \A p \in DOMAIN hashes : p # x => hashes'[p] = hashes[p]
  BY <1>2, <1>3, <1>4 DEF PastHash
<1>6. /\ seen' \in [Packages -> DirType] /\ seen'[x] = files[x]
      /\ \A p \in Packages : p # x => seen'[p] = seen[p]
  BY <1>2, <1>3
<1>7. WatchTyped'
  BY <1>2, <1>3, <1>5, <1>6 DEF WatchInv, WatchTyped
<1>8. ASSUME NEW fs \in SUBSET File, Past(fs)
      PROVE  \A f \in fs : f.time <= clock'
  <2>1. \A f \in fs : f.time \in Nat /\ f.time <= clock
    BY <1>8, WatchFields DEF Past
  <2> QED
    BY <1>3, <2>1
<1>9. Filed'
  <2>1. ASSUME NEW p \in Packages
        PROVE  Past(files[p].entries)' /\ Past(seen[p].entries)'
    <3>1. Past(files[p].entries)'
      BY <1>2, <1>8, FileTimes DEF Past
    <3>2. seen'[p] = files[p] \/ seen'[p] = seen[p]
      BY <1>6
    <3>3. Past(seen[p].entries)'
      BY <1>8, <3>2, FileTimes DEF Past
    <3> QED
      BY <3>1, <3>3
  <2>2. ASSUME NEW p \in DOMAIN hashes
        PROVE  Past(hashes[p].codeHash)' /\ Past(hashes[p].testHash)'
    <3>1. PastHash(hashes'[p])
      BY <1>4, <1>5, HashTimes
    <3>2. /\ hashes'[p].codeHash \subseteq File /\ hashes'[p].testHash \subseteq File
          /\ Past(hashes'[p].codeHash) /\ Past(hashes'[p].testHash)
      BY <3>1, WatchFields DEF PastHash
    <3> QED
      BY <1>8, <3>2 DEF Past
  <2>3. \A s \in DOMAIN tracked : tracked[s].runTime <= clock'
    <3> SUFFICES ASSUME NEW s \in DOMAIN tracked
                 PROVE  tracked[s].runTime <= clock'
      OBVIOUS
    <3> QED
      BY <1>3, TrackedSuite
  <2>4. started <= clock'
    <3>1. started \in Nat /\ started <= clock
      BY DEF WatchInv, WatchTyped, Filed
    <3> QED
      BY <1>3, <3>1
  <2>5. \A p \in Packages : p \notin rearranged => files[p].present /\ files[p].entries # {}
    BY DEF WatchInv, Filed
  <2> QED
    BY <1>2, <1>5, <2>1, <2>2, <2>3, <2>4, <2>5 DEF Filed
<1>10. \A s : /\ Watched(s)' = Watched(s) /\ Since(s)' = Since(s)
              /\ SavedDependencies(s)' = SavedDependencies(s)
  BY <1>2, SameFiles DEF Watched, Since
<1>11. HashesKept'
  BY <1>2, <1>5, <1>10 DEF WatchInv, HashesKept
<1>12. Rest = {} /\ (Rest)' = {} /\ Watching /\ Watching' /\ \A s : ~Due(s)
  BY <1>2 DEF Rest, Due, Watching
<1>13. Noted'
  <2> SUFFICES ASSUME NEW s \in DOMAIN tracked \ lost, NEW p \in Watched(s)
               PROVE  \/ Latest(Hashed(s, p)') <= Modified(s, p)'
                      \/ Latest(Hashed(s, p)') <= Since(s)
    BY <1>2, <1>10 DEF Noted
  <2>1. \/ Latest(Hashed(s, p)) <= Modified(s, p)
        \/ Latest(Hashed(s, p)) <= Since(s)
    BY <1>12 DEF WatchInv, Noted
  <2>2. p \in DOMAIN hashes
    BY DEF WatchInv, HashesKept
  <2>3. CASE p # x
    <3>1. hashes'[p] = hashes[p]
      BY <1>5, <2>2, <2>3
    <3> QED
      BY <2>1, <3>1 DEF Hashed, Modified
  <2>4. CASE p = x
    BY <1>4, <1>5, <2>1, <2>4 DEF Hashed, Modified
  <2> QED
    BY <2>3, <2>4
<1>14. Compared'
  <2> SUFFICES ASSUME NEW p \in DOMAIN hashes, p \notin unchecked \/ p = x, seen'[p].present
               PROVE  hashes'[p].codeHash = CodeHash(seen'[p]) /\ hashes'[p].testHash = TestHash(seen'[p])
    BY <1>2, <1>5 DEF Compared, CodeHash, TestHash
  <2>1. CASE p = x
    BY <1>4, <1>5, <1>6, <2>1
  <2>2. CASE p # x
    <3>1. p \in Packages /\ seen'[p] = seen[p] /\ p \in DOMAIN hashes \ unchecked /\ hashes'[p] = hashes[p]
      BY <1>3, <1>5, <1>6, <2>2
    <3>2. hashes[p].codeHash = CodeHash(seen[p]) /\ hashes[p].testHash = TestHash(seen[p])
      BY <1>2, <3>1 DEF WatchInv, Compared
    <3> QED
      BY <3>1, <3>2
  <2> QED
    BY <2>1, <2>2
<1>15. Settled'
  BY <1>2 DEF Settled
<1>16. \A s, p : (Newer(s, p)' <=> Newer(s, p)) /\ (Fresh(s, p)' <=> Fresh(s, p))
  BY <1>2, <1>10 DEF Newer, Fresh, Watches, CodeHash, TestHash
<1>17. Built'
  BY <1>2, <1>12, <1>16 DEF WatchInv, Built
<1>18. DepsKnown'
  BY <1>2, <1>10, <1>16 DEF WatchInv, DepsKnown
<1> QED
  BY <1>7, <1>9, <1>11, <1>13, <1>14, <1>15, <1>17, <1>18 DEF WatchInv

\* The suites of a sequence are its head and those of the rest.
LEMMA RangeOfTail ==
  ASSUME NEW S, NEW q \in Seq(S), q # <<>>
  PROVE  /\ Head(q) \in S /\ Tail(q) \in Seq(S)
         /\ Range(q) = {Head(q)} \cup Range(Tail(q))
<1> DEFINE r == Tail(q)
           n == Len(q)
<1>1. /\ Head(q) \in S /\ Head(q) = q[1] /\ r \in Seq(S) /\ n \in Nat \ {0} /\ Len(r) = n - 1
      /\ DOMAIN q = 1..n
      /\ \A i \in 1..(n - 1) : r[i] = q[i + 1]
  OBVIOUS
<1>2. DOMAIN r = 1..(n - 1)
  BY <1>1
<1> HIDE DEF r, n
<1>3. \A i \in DOMAIN q : i = 1 \/ (i - 1 \in DOMAIN r /\ r[i - 1] = q[i])
  <2> SUFFICES ASSUME NEW i \in 1..n, i # 1
               PROVE  i - 1 \in 1..(n - 1) /\ r[i - 1] = q[i]
    BY <1>1, <1>2
  <2>1. i - 1 \in 1..(n - 1) /\ (i - 1) + 1 = i
    BY <1>1
  <2> QED
    BY <1>1, <2>1
<1>4. 1 \in DOMAIN q /\ \A i \in DOMAIN r : i + 1 \in DOMAIN q /\ r[i] = q[i + 1]
  BY <1>1, <1>2
<1>5. Range(q) \subseteq {q[1]} \cup Range(r)
  BY <1>3 DEF Range
<1>6. {q[1]} \cup Range(r) \subseteq Range(q)
  BY <1>4 DEF Range
<1> QED
  BY <1>1, <1>5, <1>6 DEF r

\* The suites of two sequences, one after the other.
LEMMA RangeOfBoth ==
  ASSUME NEW S, NEW a \in Seq(S), NEW b \in Seq(S)
  PROVE  a \o b \in Seq(S) /\ Range(a \o b) = Range(a) \cup Range(b)
<1> DEFINE c == a \o b
           m == Len(a)
           n == Len(b)
<1>1. /\ m \in Nat /\ n \in Nat /\ DOMAIN a = 1..m /\ DOMAIN b = 1..n
      /\ c \in Seq(S) /\ Len(c) = m + n
      /\ \A i \in 1..(m + n) : c[i] = IF i <= m THEN a[i] ELSE b[i - m]
  OBVIOUS
<1>2. DOMAIN c = 1..(m + n)
  BY <1>1
<1> HIDE DEF c, m, n
<1>3. \A i \in DOMAIN c : (i \in DOMAIN a /\ c[i] = a[i]) \/ (i - m \in DOMAIN b /\ c[i] = b[i - m])
  BY <1>1, <1>2
<1>4. \A i \in DOMAIN a : i \in DOMAIN c /\ c[i] = a[i]
  BY <1>1, <1>2
<1>5. \A i \in DOMAIN b : i + m \in DOMAIN c /\ c[i + m] = b[i]
  <2> SUFFICES ASSUME NEW i \in 1..n
               PROVE  i + m \in 1..(m + n) /\ c[i + m] = b[i]
    BY <1>1, <1>2
  <2>1. i + m \in 1..(m + n) /\ ~(i + m <= m) /\ (i + m) - m = i
    BY <1>1
  <2> QED
    BY <1>1, <2>1
<1>6. Range(c) \subseteq Range(a) \cup Range(b)
  BY <1>3 DEF Range
<1>7. Range(a) \cup Range(b) \subseteq Range(c)
  BY <1>4, <1>5 DEF Range
<1> QED
  BY <1>1, <1>6, <1>7 DEF c

\* WillRun: the run is later than every change there is, and the dependencies
\* are those of the files that will be built.
LEMMA WillRunStep ==
  ASSUME WatchInv, WillRun
  PROVE  WatchInv'
<1>0. PICK x : x = Head(toRun)
  OBVIOUS
<1> DEFINE N == {x} \cup NewDependencies(x)
<1>1. /\ watchPc = "next" /\ watchPc' = "compile" /\ clock' = clock + 1
      /\ tracked' = [tracked EXCEPT ![x] = MarkAsRun(x)]
      /\ hashes' = IF Buildable(x) THEN Add(hashes, N) ELSE hashes
      /\ UNCHANGED <<files, rearranged, started, lost, found, unchecked, toRun, seen, built>>
  BY <1>0 DEF WillRun
<1>2. /\ toRun \in Seq(DOMAIN tracked) /\ toRun # <<>> /\ clock \in Nat /\ unchecked = {}
      /\ DOMAIN hashes \subseteq Packages /\ hashes \in [DOMAIN hashes -> HashType]
      /\ tracked \in [DOMAIN tracked -> SuiteRec]
  BY <1>1 DEF WatchInv, WatchTyped
<1>3. x \in DOMAIN tracked /\ Range(toRun) = {x} \cup Range(Tail(toRun))
  BY <1>0, <1>2, RangeOfTail
<1>4. NewDependencies(x) \subseteq Packages /\ x \in Packages /\ tracked[x].deps \subseteq Packages
  BY <1>3, TrackedSuite, DependencyTypes
<1>5. /\ (Rest)' = Range(Tail(toRun)) /\ Rest = Range(toRun)
      /\ \A s : Due(s)' <=> s \in {x} \cup Range(Tail(toRun))
      /\ \A s : Due(s) <=> s \in Range(toRun)
  BY <1>0, <1>1 DEF Rest, Due
<1>6. N \subseteq Packages
  BY <1>4
<1> DEFINE d == IF Buildable(x) THEN NewDependencies(x) ELSE tracked[x].deps
<1>7. d \subseteq Packages
  BY <1>4
<1>8. MarkAsRun(x) = [runTime |-> clock + 1, deps |-> d]
  BY DEF MarkAsRun
<1> HIDE DEF d, N
<1>9. /\ DOMAIN tracked' = DOMAIN tracked /\ tracked' \in [DOMAIN tracked -> SuiteRec]
      /\ tracked'[x].runTime = clock + 1 /\ tracked'[x].deps = d
      /\ \A s \in DOMAIN tracked : s # x => tracked'[s] = tracked[s]
  <2>1. MarkAsRun(x) \in SuiteRec /\ MarkAsRun(x).runTime = clock + 1 /\ MarkAsRun(x).deps = d
    BY <1>2, <1>7, <1>8 DEF SuiteRec
  <2> QED
    BY <1>1, <1>2, <1>3, <2>1
<1>10. /\ DOMAIN hashes \subseteq DOMAIN hashes' /\ (Buildable(x) => N \subseteq DOMAIN hashes')
       /\ DOMAIN hashes' \subseteq Packages /\ hashes' \in [DOMAIN hashes' -> HashType]
       /\ \A p \in DOMAIN hashes : hashes'[p] = hashes[p]
       /\ \A p \in DOMAIN hashes' : PastHash(hashes'[p])
  <2>1. \A p \in DOMAIN hashes : PastHash(hashes[p])
    BY HashTimes
  <2>2. CASE Buildable(x)
    <3>1. hashes' = Add(hashes, N)
      BY <1>1, <2>2
    <3>2. /\ DOMAIN Add(hashes, N) = DOMAIN hashes \cup N
          /\ Add(hashes, N) \in [DOMAIN hashes \cup N -> HashType]
          /\ \A p \in DOMAIN hashes : Add(hashes, N)[p] = hashes[p]
          /\ \A p \in DOMAIN hashes \cup N : PastHash(Add(hashes, N)[p])
      BY <1>6, <2>1, AddedHashes
    <3> QED
      BY <1>2, <1>6, <2>2, <3>1, <3>2
  <2>3. CASE ~Buildable(x)
    BY <1>1, <1>2, <2>1, <2>3
  <2> QED
    BY <2>2, <2>3
<1>11. WatchTyped'
  <2>1. clock' \in Nat /\ watchPc' \in WatchPcs /\ started' \in Nat
    BY <1>1, <1>2 DEF WatchPcs, WatchInv, WatchTyped
  <2>2. toRun' \in Seq(DOMAIN tracked') /\ toRun' # <<>> /\ unchecked' = {} /\ watchPc' = "compile"
        /\ unchecked' \subseteq DOMAIN hashes'
    BY <1>1, <1>2, <1>9
  <2>3. /\ files' \in [Packages -> DirType] /\ seen' \in [Packages -> DirType]
        /\ found' \subseteq SuitePackages /\ DOMAIN tracked' \subseteq SuitePackages
        /\ DOMAIN built' = DOMAIN tracked'
    BY <1>1, <1>9 DEF WatchInv, WatchTyped
  <2> QED
    BY <1>9, <1>10, <2>1, <2>2, <2>3 DEF WatchTyped
<1>12. ASSUME NEW fs \in SUBSET File, Past(fs)
       PROVE  (\A f \in fs : f.time <= clock') /\ Latest(fs) <= clock + 1
  <2>1. \A f \in fs : f.time \in Nat /\ f.time <= clock
    BY <1>12, WatchFields DEF Past
  <2>2. Latest(fs) \in Nat /\ Latest(fs) <= clock
    BY <1>12, LatestPast
  <2> QED
    BY <1>1, <1>2, <2>1, <2>2
<1>13. Filed'
  <2>1. ASSUME NEW p \in Packages
        PROVE  Past(files[p].entries)' /\ Past(seen[p].entries)'
    BY <1>1, <1>12, FileTimes DEF Past
  <2>2. ASSUME NEW p \in DOMAIN hashes'
        PROVE  Past(hashes[p].codeHash)' /\ Past(hashes[p].testHash)'
    <3>1. /\ hashes'[p].codeHash \subseteq File /\ hashes'[p].testHash \subseteq File
          /\ Past(hashes'[p].codeHash) /\ Past(hashes'[p].testHash)
      BY <1>10, <2>2, WatchFields DEF PastHash
    <3> QED
      BY <1>12, <3>1 DEF Past
  <2>3. \A s \in DOMAIN tracked' : tracked'[s].runTime <= clock'
    <3> SUFFICES ASSUME NEW s \in DOMAIN tracked
                 PROVE  tracked'[s].runTime <= clock'
      BY <1>9
    <3>1. tracked[s].runTime \in Nat /\ tracked[s].runTime <= clock
      BY TrackedSuite
    <3>2. tracked[s].runTime <= clock' /\ clock + 1 <= clock'
      BY <1>1, <1>2, <3>1
    <3> QED
      BY <1>9, <3>2
  <2>4. started' <= clock'
    <3>1. started \in Nat /\ started <= clock
      BY DEF WatchInv, WatchTyped, Filed
    <3> QED
      BY <1>1, <1>2, <3>1
  <2>5. \A p \in Packages : p \notin rearranged => files[p].present /\ files[p].entries # {}
    BY DEF WatchInv, Filed
  <2> QED
    BY <1>1, <2>1, <2>2, <2>3, <2>4, <2>5 DEF Filed
<1>14. /\ Since(x)' = clock + 1 /\ Watched(x)' = {x} \cup d
       /\ \A s \in DOMAIN tracked : s # x => Since(s)' = Since(s) /\ Watched(s)' = Watched(s)
  BY <1>1, <1>2, <1>9 DEF Since, Watched
<1>15. HashesKept'
  <2> SUFFICES ASSUME NEW s \in DOMAIN tracked \ lost
               PROVE  Watched(s)' \subseteq DOMAIN hashes'
    BY <1>1, <1>9 DEF HashesKept
  <2>1. Watched(s) \subseteq DOMAIN hashes
    BY DEF WatchInv, HashesKept
  <2>2. CASE s # x
    BY <1>10, <1>14, <2>1, <2>2
  <2>3. CASE s = x /\ Buildable(x)
    <3>1. Watched(s)' = N
      BY <1>14, <2>3 DEF d, N
    <3> QED
      BY <1>10, <2>3, <3>1
  <2>4. CASE s = x /\ ~Buildable(x)
    <3>1. Watched(s)' = Watched(s)
      BY <1>14, <2>4 DEF d, Watched
    <3> QED
      BY <1>10, <2>1, <3>1
  <2> QED
    BY <2>2, <2>3, <2>4
<1>16. Noted'
  <2> SUFFICES ASSUME NEW s \in DOMAIN tracked \ lost, NEW p \in Watched(s)'
               PROVE  \/ s \in (Rest)'
                      \/ Latest(Hashed(s, p)') <= Modified(s, p)'
                      \/ Latest(Hashed(s, p)') <= Since(s)'
    BY <1>1, <1>9 DEF Noted
  <2>1. CASE s # x
    <3>1. p \in Watched(s) /\ p \in DOMAIN hashes /\ Since(s)' = Since(s) /\ Watching
      BY <1>1, <1>14, <2>1 DEF WatchInv, HashesKept, Watching
    <3>2. \/ s \in Rest
          \/ Latest(Hashed(s, p)) <= Modified(s, p)
          \/ Latest(Hashed(s, p)) <= Since(s)
      BY <3>1 DEF WatchInv, Noted
    <3>3. Hashed(s, p)' = Hashed(s, p) /\ Modified(s, p)' = Modified(s, p)
      BY <1>10, <3>1 DEF Hashed, Modified
    <3> QED
      BY <1>3, <1>5, <2>1, <3>1, <3>2, <3>3
  <2>2. CASE s = x
    <3>1. p \in DOMAIN hashes'
      BY <1>1, <1>9, <1>15 DEF HashesKept
    <3>2. Hashed(s, p)' \subseteq File /\ Past(Hashed(s, p)')
      BY <1>10, <3>1, WatchFields DEF PastHash, Hashed
    <3> QED
      BY <1>12, <1>14, <2>2, <3>2
  <2> QED
    BY <2>1, <2>2
<1>17. Compared'
  BY <1>1 DEF Compared
<1>18. Settled'
  <2> SUFFICES ASSUME NEW s \in (DOMAIN tracked \cap found) \ lost, NEW p \in Watched(s)',
                      seen[p].present
               PROVE  s \in (Rest)' \/ Latest(Watches(s, p, seen[p])) <= Since(s)'
    BY <1>1, <1>9 DEF Settled, Watches, CodeHash, TestHash
  <2>1. CASE s # x
    <3>1. p \in Watched(s) /\ Since(s)' = Since(s)
      BY <1>14, <2>1
    <3>2. s \in Rest \/ Latest(Watches(s, p, seen[p])) <= Since(s)
      BY <1>1, <3>1 DEF WatchInv, Settled
    <3> QED
      BY <1>3, <1>5, <2>1, <3>1, <3>2
  <2>2. CASE s = x
    <3>1. p \in Packages
      BY <1>4, <1>7, <1>14, <2>2
    <3>2. Watches(s, p, seen[p]) \subseteq File /\ Past(Watches(s, p, seen[p]))
      BY <3>1, FileTimes, WatchesPart DEF Past
    <3> QED
      BY <1>12, <1>14, <2>2, <3>2
  <2> QED
    BY <2>1, <2>2
<1>19. ASSUME NEW s \in DOMAIN tracked, NEW p, s # x
       PROVE  (Newer(s, p)' <=> Newer(s, p)) /\ (Fresh(s, p)' <=> Fresh(s, p))
  BY <1>1, <1>14, <1>19 DEF Newer, Fresh, Watches, CodeHash, TestHash
<1>20. Built'
  <2> SUFFICES ASSUME NEW s \in DOMAIN tracked, NEW p \in Packages \ rearranged
               PROVE  Due(s)' \/ Fresh(s, p)' \/ Newer(s, p)'
    BY <1>1, <1>9 DEF Built
  <2>1. CASE s = x
    BY <1>5, <2>1
  <2>2. CASE s # x
    <3>1. Watching
      BY <1>1 DEF Watching
    <3>2. Due(s) \/ Fresh(s, p) \/ Newer(s, p)
      BY <3>1 DEF WatchInv, Built
    <3> QED
      BY <1>3, <1>5, <1>19, <2>2, <3>2
  <2> QED
    BY <2>1, <2>2
<1>21. DepsKnown'
  <2> SUFFICES ASSUME NEW s \in DOMAIN tracked
               PROVE  \/ Watched(s)' \cap rearranged # {}
                      \/ \E p \in Watched(s)' : Newer(s, p)'
                      \/ tracked'[s].deps = SavedDependencies(s)
    BY <1>1, <1>9, SameFiles DEF DepsKnown
  <2>1. CASE s # x
    <3>1. \/ Watched(s) \cap rearranged # {}
          \/ \E p \in Watched(s) : Newer(s, p)
          \/ tracked[s].deps = SavedDependencies(s)
      BY DEF WatchInv, DepsKnown
    <3> QED
      BY <1>9, <1>14, <1>19, <2>1, <3>1
  <2>2. CASE s = x /\ Buildable(x)
    <3>1. tracked'[s].deps = NewDependencies(x) /\ Watched(s)' = {x} \cup NewDependencies(x)
      BY <1>9, <1>14, <2>2 DEF d
    <3> QED
      BY <2>2, <3>1, JustComputed
  <2>3. CASE s = x /\ ~Buildable(x)
    <3>1. x \in rearranged
      BY <1>4, <2>3 DEF WatchInv, Filed, Buildable
    <3> QED
      BY <1>14, <2>3, <3>1
  <2> QED
    BY <2>1, <2>2, <2>3
<1> QED
  BY <1>11, <1>13, <1>15, <1>16, <1>17, <1>18, <1>20, <1>21 DEF WatchInv

\* Without a delta no change the hashes note is after the suite's last run.
LEMMA NoDelta ==
  ASSUME WatchInv, NEW s \in DOMAIN tracked, Watched(s) \subseteq DOMAIN hashes, ~Delta(s),
         NEW p \in Watched(s)
  PROVE  Modified(s, p) \in Nat /\ Modified(s, p) <= tracked[s].runTime
<1>1. tracked[s].runTime \in Nat /\ hashes[p] \in HashType
  BY TrackedSuite DEF WatchInv, WatchTyped
<1>2. Modified(s, p) \in Nat
  BY <1>1, WatchFields DEF Modified
<1>3. ~(Modified(s, p) > tracked[s].runTime)
  BY DEF Delta, Watched, Modified
<1> QED
  BY <1>1, <1>2, <1>3

\* DeltaOfSuites: what was noted since its last run makes a suite run, and so
\* do the new suites.
LEMMA DeltaOfSuitesStep ==
  ASSUME WatchInv, DeltaOfSuites
  PROVE  WatchInv'
<1> DEFINE known == DOMAIN tracked \cap found
           modified == {s \in known : Delta(s)}
           used == UNION {{s} \cup tracked[s].deps : s \in known}
           new == {s \in found \ DOMAIN tracked : Buildable(s)}
           U == UNION {{s} \cup NewDependencies(s) : s \in new}
           old == Restricted(hashes, used)
<1>1. /\ watchPc = "check" /\ unchecked = {}
      /\ \A s \in known : Watched(s) \subseteq DOMAIN hashes
      /\ tracked' = [s \in DOMAIN tracked \cup new |->
                       IF s \in new THEN [runTime |-> 0, deps |-> NewDependencies(s)] ELSE tracked[s]]
      /\ hashes' = Add(old, U)
      /\ built' = [s \in DOMAIN built \cup new |-> IF s \in new THEN <<>> ELSE built[s]]
      /\ \E first \in Orders(new), second \in Orders(modified) : toRun' = first \o second
      /\ watchPc' = IF toRun' = <<>> THEN "wait" ELSE "next"
      /\ UNCHANGED <<files, clock, rearranged, started, lost, found, unchecked, seen>>
  BY DEF DeltaOfSuites, Extended, HashesMissing, Watched, fileVars
<1>2. /\ files \in [Packages -> DirType] /\ seen \in [Packages -> DirType] /\ clock \in Nat
      /\ DOMAIN tracked \subseteq SuitePackages /\ found \subseteq SuitePackages
      /\ tracked \in [DOMAIN tracked -> SuiteRec] /\ started \in Nat
      /\ DOMAIN hashes \subseteq Packages /\ hashes \in [DOMAIN hashes -> HashType]
      /\ DOMAIN built = DOMAIN tracked /\ toRun = <<>>
  BY <1>1 DEF WatchInv, WatchTyped
<1>3. /\ known \subseteq SuitePackages /\ modified \subseteq known /\ new \subseteq SuitePackages
      /\ known \subseteq DOMAIN tracked /\ known \subseteq found
      /\ \A s \in new : s \notin DOMAIN tracked
      /\ \A s \in found : s \in DOMAIN tracked => s \in known
  BY <1>2
<1>4. \A s : NewDependencies(s) \subseteq Packages
  BY DependencyTypes
<1>5. \A s \in known : Watched(s) \subseteq used
  BY DEF Watched
<1>6. \A s \in new : {s} \cup NewDependencies(s) \subseteq U
  OBVIOUS
<1>7. \A s \in known : s \in modified <=> Delta(s)
  OBVIOUS
<1>8. U \subseteq Packages
  BY <1>3, <1>4, WatchAssumption
<1> HIDE DEF known, modified, used, new, U
<1>9. DOMAIN old = DOMAIN hashes \cap used /\ \A p \in DOMAIN old : old[p] = hashes[p]
  BY DEF Restricted
<1> HIDE DEF old
<1>10. /\ DOMAIN hashes' = (DOMAIN hashes \cap used) \cup U
       /\ DOMAIN hashes' \subseteq Packages /\ hashes' \in [DOMAIN hashes' -> HashType]
       /\ \A p \in DOMAIN hashes \cap used : hashes'[p] = hashes[p]
       /\ \A p \in DOMAIN hashes' : PastHash(hashes'[p])
  <2>1. \A p \in DOMAIN old : PastHash(old[p])
    BY <1>9, HashTimes
  <2>2. DOMAIN old \subseteq Packages
    BY <1>2, <1>9
  <2>3. /\ DOMAIN Add(old, U) = DOMAIN old \cup U
        /\ Add(old, U) \in [DOMAIN old \cup U -> HashType]
        /\ \A p \in DOMAIN old : Add(old, U)[p] = old[p]
        /\ \A p \in DOMAIN old \cup U : PastHash(Add(old, U)[p])
    BY <1>8, <2>1, AddedHashes
  <2> QED
    BY <1>1, <1>8, <1>9, <2>2, <2>3
<1>11. /\ DOMAIN tracked' = DOMAIN tracked \cup new
       /\ tracked' \in [DOMAIN tracked' -> SuiteRec]
       /\ \A s \in new : tracked'[s].runTime = 0 /\ tracked'[s].deps = NewDependencies(s)
       /\ \A s \in DOMAIN tracked : tracked'[s] = tracked[s]
  <2>1. \A s \in new : [runTime |-> 0, deps |-> NewDependencies(s)] \in SuiteRec
    BY <1>4 DEF SuiteRec
  <2> QED
    BY <1>1, <1>2, <1>3, <2>1
<1>12. DOMAIN built' = DOMAIN tracked' /\ \A s \in DOMAIN tracked : built'[s] = built[s]
  BY <1>1, <1>2, <1>3, <1>11
<1>13. toRun' \in Seq(DOMAIN tracked') /\ Range(toRun') = new \cup modified
  <2>1. PICK first \in Orders(new), second \in Orders(modified) : toRun' = first \o second
    BY <1>1
  <2>2. IsFiniteSet(new) /\ IsFiniteSet(modified)
    BY <1>3, FiniteSuites
  <2>3. first \in Seq(new) /\ Range(first) = new /\ second \in Seq(modified) /\ Range(second) = modified
    BY <2>2, OrderOf
  <2>4. new \subseteq DOMAIN tracked' /\ modified \subseteq DOMAIN tracked'
    BY <1>3, <1>11
  <2> DEFINE D == DOMAIN tracked'
  <2> HIDE DEF D
  <2>5. first \in Seq(D) /\ second \in Seq(D)
    BY <2>3, <2>4 DEF D
  <2>6. first \o second \in Seq(D) /\ Range(first \o second) = Range(first) \cup Range(second)
    BY <2>5, RangeOfBoth
  <2> QED
    BY <2>1, <2>3, <2>6 DEF D
<1>14. (Rest)' = new \cup modified
  <2>1. CASE toRun' = <<>>
    <3>1. Range(toRun') = {}
      BY <2>1 DEF Range
    <3> QED
      BY <1>1, <1>13, <2>1, <3>1 DEF Rest
  <2>2. CASE toRun' # <<>>
    BY <1>1, <1>13, <2>2 DEF Rest
  <2> QED
    BY <2>1, <2>2
<1>15. WatchTyped'
  <2>1. watchPc' \in {"wait", "next"} /\ (watchPc' = "wait" <=> toRun' = <<>>)
    BY <1>1
  <2>2. DOMAIN tracked' \subseteq SuitePackages
    BY <1>2, <1>3, <1>11
  <2> QED
    BY <1>1, <1>2, <1>10, <1>11, <1>12, <1>13, <2>1, <2>2 DEF WatchTyped, WatchPcs
<1>16. Filed'
  <2>1. \A s \in DOMAIN tracked' : tracked'[s].runTime <= clock
    <3>1. \A s \in DOMAIN tracked : tracked[s].runTime <= clock
      BY TrackedSuite
    <3>2. 0 <= clock
      BY <1>2
    <3> QED
      BY <1>11, <3>1, <3>2
  <2> QED
    BY <1>1, <1>10, <2>1 DEF WatchInv, Filed, PastHash, Past
<1>17. /\ \A s \in new : Watched(s)' = {s} \cup NewDependencies(s)
       /\ \A s \in DOMAIN tracked : Watched(s)' = Watched(s) /\ Since(s)' = Since(s)
  BY <1>1, <1>11 DEF Watched, Since
<1>18. ASSUME NEW s \in known, NEW p \in Watched(s)
       PROVE  /\ p \in DOMAIN hashes /\ p \in DOMAIN hashes' /\ hashes'[p] = hashes[p]
              /\ Hashed(s, p)' = Hashed(s, p) /\ Modified(s, p)' = Modified(s, p)
  <2>1. p \in DOMAIN hashes /\ p \in used
    BY <1>1, <1>5
  <2>2. hashes'[p] = hashes[p] /\ p \in DOMAIN hashes'
    BY <1>10, <2>1
  <2> QED
    BY <2>1, <2>2 DEF Hashed, Modified
\* A suite that is not there is lost; the others are known, or new.
<1>19. ASSUME NEW s \in DOMAIN tracked' \ lost
       PROVE  s \in new \/ s \in known
  <2>1. s \in DOMAIN tracked => s \in found
    BY <1>1 DEF WatchInv, HashesKept
  <2> QED
    BY <1>3, <1>11, <2>1
<1>20. HashesKept'
  <2> SUFFICES ASSUME NEW s \in DOMAIN tracked' \ lost
               PROVE  Watched(s)' \subseteq DOMAIN hashes'
    BY <1>1 DEF HashesKept
  <2>1. CASE s \in new
    BY <1>6, <1>10, <1>17, <2>1
  <2>2. CASE s \in known
    BY <1>3, <1>17, <1>18, <2>2
  <2> QED
    BY <1>19, <2>1, <2>2
<1>21. Noted'
  <2> SUFFICES ASSUME NEW s \in DOMAIN tracked' \ lost, NEW p \in Watched(s)'
               PROVE  \/ s \in (Rest)'
                      \/ Latest(Hashed(s, p)') <= Modified(s, p)'
                      \/ Latest(Hashed(s, p)') <= Since(s)'
    BY <1>1 DEF Noted
  <2>1. CASE s \in new
    BY <1>14, <2>1
  <2>2. CASE s \in known
    <3>1. p \in Watched(s) /\ s \in DOMAIN tracked \ lost /\ Since(s)' = Since(s) /\ Rest = {} /\ Watching
      BY <1>1, <1>3, <1>17, <2>2 DEF Rest, Watching
    <3>2. \/ Latest(Hashed(s, p)) <= Modified(s, p)
          \/ Latest(Hashed(s, p)) <= Since(s)
      BY <3>1 DEF WatchInv, Noted
    <3> QED
      BY <1>18, <2>2, <3>1, <3>2
  <2> QED
    BY <1>19, <2>1, <2>2
<1>22. Settled'
  <2> SUFFICES ASSUME NEW s \in DOMAIN tracked' \ lost, NEW p \in Watched(s)', seen[p].present
               PROVE  s \in (Rest)' \/ Latest(Watches(s, p, seen[p])) <= Since(s)'
    BY <1>1 DEF Settled, Watches, CodeHash, TestHash
  <2>1. CASE s \in new \/ (s \in known /\ Delta(s))
    BY <1>7, <1>14, <2>1
  <2>2. CASE s \in known /\ ~Delta(s)
    <3>1. /\ p \in Watched(s) /\ s \in DOMAIN tracked \ lost /\ Since(s)' = Since(s) /\ Rest = {}
          /\ Watching /\ Watched(s) \subseteq DOMAIN hashes /\ p \in DOMAIN hashes
      BY <1>1, <1>3, <1>17, <2>2 DEF Rest, Watching
    <3>2. hashes[p].codeHash = CodeHash(seen[p]) /\ hashes[p].testHash = TestHash(seen[p])
      BY <1>1, <3>1 DEF WatchInv, Compared
    <3>3. Hashed(s, p) = Watches(s, p, seen[p])
      BY <3>2 DEF Hashed, Watches
    <3>4. \/ Latest(Hashed(s, p)) <= Modified(s, p)
          \/ Latest(Hashed(s, p)) <= Since(s)
      BY <3>1 DEF WatchInv, Noted
    <3>5. Modified(s, p) \in Nat /\ Modified(s, p) <= tracked[s].runTime
      BY <2>2, <3>1, NoDelta
    <3>6. tracked[s].runTime \in Nat /\ tracked[s].runTime <= Since(s) /\ Since(s) \in Nat
      BY <3>1, TrackedSuite
    <3>7. Latest(Hashed(s, p)) \in Nat
      <4>1. PastHash(hashes[p])
        BY <3>1, HashTimes
      <4>2. Hashed(s, p) \subseteq File /\ Past(Hashed(s, p))
        BY <4>1, WatchFields DEF PastHash, Hashed
      <4> QED
        BY <4>2, LatestPast
    <3>8. Latest(Hashed(s, p)) <= Since(s)
      BY <3>4, <3>5, <3>6, <3>7
    <3> QED
      BY <3>1, <3>3, <3>8
  <2> QED
    BY <1>19, <2>1, <2>2
<1>23. Compared'
  BY <1>1 DEF Compared
<1>24. \A s \in DOMAIN tracked : \A p : (Newer(s, p)' <=> Newer(s, p)) /\ (Fresh(s, p)' <=> Fresh(s, p))
  BY <1>1, <1>12, <1>17 DEF Newer, Fresh, Watches, CodeHash, TestHash
<1>25. Built'
  <2> SUFFICES ASSUME NEW s \in DOMAIN tracked', NEW p \in Packages \ rearranged
               PROVE  Due(s)' \/ Fresh(s, p)' \/ Newer(s, p)'
    BY <1>1 DEF Built
  <2>1. CASE s \in new
    BY <1>14, <2>1 DEF Due
  <2>2. CASE s \in DOMAIN tracked
    <3>1. Watching /\ ~Due(s)
      BY <1>1 DEF Watching, Due, Rest
    <3>2. Fresh(s, p) \/ Newer(s, p)
      BY <2>2, <3>1 DEF WatchInv, Built
    <3> QED
      BY <1>24, <2>2, <3>2
  <2> QED
    BY <1>11, <2>1, <2>2
<1>26. DepsKnown'
  <2> SUFFICES ASSUME NEW s \in DOMAIN tracked'
               PROVE  \/ Watched(s)' \cap rearranged # {}
                      \/ \E p \in Watched(s)' : Newer(s, p)'
                      \/ tracked'[s].deps = SavedDependencies(s)
    BY <1>1, SameFiles DEF DepsKnown
  <2>1. CASE s \in new
    BY <1>11, <1>17, <2>1, JustComputed
  <2>2. CASE s \in DOMAIN tracked
    <3>1. \/ Watched(s) \cap rearranged # {}
          \/ \E p \in Watched(s) : Newer(s, p)
          \/ tracked[s].deps = SavedDependencies(s)
      BY <2>2 DEF WatchInv, DepsKnown
    <3> QED
      BY <1>11, <1>17, <1>24, <2>2, <3>1
  <2> QED
    BY <1>11, <2>1, <2>2
<1> QED
  BY <1>15, <1>16, <1>20, <1>21, <1>22, <1>23, <1>25, <1>26 DEF WatchInv

-----------------------------------------------------------------------------
(* The theorem                                                             *)

\* To begin with nothing is known.
LEMMA WatchInvInit == Init => WatchInv
<1> SUFFICES ASSUME WatchInit
             PROVE  WatchInv
  BY DEF Init
<1>1. /\ clock = 1 /\ watchPc = "first" /\ started = 0 /\ rearranged = {}
      /\ tracked = <<>> /\ hashes = <<>> /\ found = {}
      /\ unchecked = {} /\ toRun = <<>> /\ built = <<>>
      /\ files = [p \in Packages |-> [present |-> TRUE, entries |-> CheckedOut(p, 1)]]
      /\ seen = files
  BY DEF WatchInit
<1>2. ASSUME NEW p \in Packages
      PROVE  /\ files[p] \in DirType /\ files[p].present /\ files[p].entries # {}
             /\ Past(files[p].entries)
  <2> DEFINE es == CheckedOut(p, 1)
             yes == TRUE
  <2>1. es \subseteq File /\ es # {} /\ \A f \in es : f.time = 1
    BY CheckedOutFiles
  <2>2. files[p] = [present |-> yes, entries |-> es] /\ yes \in BOOLEAN
    BY <1>1
  <2> HIDE DEF es, yes
  <2>3. files[p] \in DirType /\ files[p].entries = es /\ files[p].present = yes
    BY <2>1, <2>2 DEF DirType
  <2>4. \A f \in es : f.time <= clock
    BY <1>1, <2>1
  <2> QED
    BY <2>1, <2>3, <2>4 DEF Past, yes
<1>3. files \in [Packages -> DirType]
  <2>1. files = [p \in Packages |-> files[p]]
    BY <1>1
  <2> QED
    BY <1>2, <2>1
<1>4. DOMAIN tracked = {} /\ DOMAIN hashes = {} /\ DOMAIN built = {}
  BY <1>1
<1>5. WatchTyped
  <2>1. tracked \in [DOMAIN tracked -> SuiteRec] /\ hashes \in [DOMAIN hashes -> HashType]
    BY <1>1, <1>4
  <2>2. toRun \in Seq(DOMAIN tracked)
    BY <1>1
  <2> QED
    BY <1>1, <1>3, <1>4, <2>1, <2>2 DEF WatchTyped, WatchPcs
<1>6. Filed
  <2>1. started <= clock
    BY <1>1
  <2> QED
    BY <1>1, <1>2, <1>4, <2>1 DEF Filed
<1>7. HashesKept /\ Noted /\ Compared /\ Settled /\ Built /\ DepsKnown
  BY <1>1, <1>4 DEF HashesKept, Noted, Compared, Settled, Built, DepsKnown
<1> QED
  BY <1>5, <1>6, <1>7 DEF WatchInv

\* A step of the watcher or of the user.
LEMMA WatchNextStep ==
  ASSUME WatchInv, WatchNext
  PROVE  WatchInv'
<1>1. CASE WatcherStep
  <2>1. CASE WatchSpecs
    BY <2>1, WatchSpecsStep
  <2>2. CASE Tick
    BY <2>2, TickStep
  <2>3. CASE \E p \in Packages : CheckPackage(p)
    BY <2>3, CheckPackageStep
  <2>4. CASE DeltaOfSuites
    BY <2>4, DeltaOfSuitesStep
  <2>5. CASE WillRun
    BY <2>5, WillRunStep
  <2>6. CASE Compile
    BY <2>6, CompileStep
  <2>7. CASE RunAndCleanup \/ ResumeWatch
    BY <2>7, ResumeStep
  <2>8. CASE Stop \/ DeltaPanics \/ NothingToWatch \/ WatchAborts
    BY <2>8, EndStep
  <2> QED
    BY <1>1, <2>1, <2>2, <2>3, <2>4, <2>5, <2>6, <2>7, <2>8 DEF WatcherStep
<1>2. CASE \E p \in Packages : UserStep(p)
  BY <1>2, UserStepEdits, EditedStep
<1>3. CASE AskToStop
  BY <1>3, WatchInvStays DEF AskToStop, fileVars
<1> QED
  BY <1>1, <1>2, <1>3 DEF WatchNext

\* What was compared at the last tick, and is as it was then, is no newer than
\* the last run; if it was only saved, it is in the last build.
LEMMA WatchInvExact == WatchInv => ChangesAreRun
<1> SUFFICES ASSUME WatchInv, watchPc = "wait", NEW s \in (DOMAIN tracked \cap found) \ lost,
                    \A p \in Watched(s) : seen[p] = files[p]
             PROVE  /\ \A p \in Watched(s) :
                         files[p].present => Latest(Watches(s, p, files[p])) <= Since(s)
                    /\ (Watched(s) \cup NewDependencies(s)) \cap rearranged = {} =>
                         /\ tracked[s].deps = NewDependencies(s)
                         /\ \A p \in Watched(s) : Fresh(s, p)
  BY DEF ChangesAreRun, Watched, Fresh
<1>1. Rest = {} /\ ~Due(s) /\ Watching
  BY DEF Rest, Due, Watching
<1>2. Watched(s) \subseteq Packages /\ Since(s) \in Nat
  BY TrackedSuite
<1>3. \A p \in Watched(s) : files[p].present => Latest(Watches(s, p, files[p])) <= Since(s)
  BY <1>1 DEF WatchInv, Settled
<1>4. ASSUME (Watched(s) \cup NewDependencies(s)) \cap rearranged = {}
      PROVE  /\ tracked[s].deps = NewDependencies(s)
             /\ \A p \in Watched(s) : Fresh(s, p)
  <2>1. ASSUME NEW p \in Watched(s)
        PROVE  p \in Packages \ rearranged /\ ~Newer(s, p)
    <3>1. p \in Packages \ rearranged
      BY <1>2, <1>4
    <3>2. files[p].present
      BY <3>1 DEF WatchInv, Filed
    <3>3. Latest(Watches(s, p, files[p])) <= Since(s)
      BY <1>3, <3>2
    <3>4. Latest(Watches(s, p, files[p])) \in Nat
      <4>1. Watches(s, p, files[p]) \subseteq File /\ Past(Watches(s, p, files[p]))
        BY <3>1, FileTimes, WatchesPart DEF Past
      <4> QED
        BY <4>1, LatestPast
    <3> QED
      BY <1>2, <3>1, <3>3, <3>4 DEF Newer
  <2>2. \A p \in Watched(s) : Fresh(s, p)
    BY <1>1, <2>1 DEF WatchInv, Built
  <2>3. tracked[s].deps = SavedDependencies(s)
    BY <1>4, <2>1 DEF WatchInv, DepsKnown
  <2>4. SavedDependencies(s) = NewDependencies(s)
    BY <1>4, SavedAreAll
  <2> QED
    BY <2>2, <2>3, <2>4
<1> QED
  BY <1>3, <1>4

\* `ginkgo watch` runs a suite after what it watches was last modified, whatever
\* the packages import, however deep it looks, and however the user's changes
\* fall between the tracker's steps: between two ticks no file it watches, as
\* compared, is newer than the suite's last run, and where files were only saved
\* the suite was built from those that are there (delta_tracker.go, suite.go,
\* package_hash.go).
THEOREM ChangesGetRun == Spec => []ChangesAreRun
<1>1. Init => WatchInv
  BY WatchInvInit
<1>2. WatchInv /\ [Next]_vars => WatchInv'
  <2> SUFFICES ASSUME WatchInv, [Next]_vars
               PROVE  WatchInv'
    OBVIOUS
  <2>1. CASE WatchNext
    BY <2>1, WatchNextStep
  <2>2. CASE UNCHANGED watchVars
    BY <2>2, WatchInvStays DEF watchVars, fileVars, trackerVars
  <2>3. WatchNext \/ UNCHANGED watchVars
    BY DEF Next, RunAndExit, vars
  <2> QED
    BY <2>1, <2>2, <2>3
<1> QED
  BY <1>1, <1>2, WatchInvExact, PTL DEF Spec
=============================================================================
