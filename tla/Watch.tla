-------------------------------- MODULE Watch --------------------------------
(***************************************************************************)
(* `ginkgo watch`: a DeltaTracker keeps, for every suite it has met, the   *)
(* time it was last run and the packages it depends on, and, for every     *)
(* package in use, a hash of its files and the time they last changed.     *)
(* Every second it compares the hashes with the files, while the user goes *)
(* on editing them, and runs the suites that are new or have changed.      *)
(*                                                                         *)
(* A directory holds files; a file is known by the time it was last        *)
(* modified, by whether it is a test and by what it imports, and the set   *)
(* of a package's files is also its hash (0 marks no change yet, and a     *)
(* suite that never ran).  The clock moves on at every step that takes or  *)
(* leaves a time stamp.                                                    *)
(***************************************************************************)
EXTENDS Naturals, Sequences, FiniteSets, FiniteSetsExt

CONSTANTS
  Packages,      \* the directories
  SuitePackages, \* those the command line names
  Imports,       \* what the code of each package imports to begin with
  TestImports,   \* what its tests import
  ImportSets,    \* what a file the user writes may import
  MaxDepth,      \* --depth
  MaxEdits       \* bound: what the user does to the files

ASSUME WatchAssumption ==
  /\ IsFiniteSet(Packages) /\ SuitePackages \subseteq Packages
  /\ Imports \in [Packages -> SUBSET Packages] /\ TestImports \in [Packages -> SUBSET Packages]
  /\ ImportSets \subseteq SUBSET Packages
  /\ MaxDepth \in Nat /\ MaxEdits \in Nat

VARIABLES
  files,       \* per package: [present, entries]
  clock,
  edits,
  rearranged,  \* the packages in which more was done than to save a file
  watchPc,     \* where the watcher is
  started,     \* the time of the first Delta
  tracked,     \* DeltaTracker.suites: [runTime, deps] of the suites met so far
  lost,        \* the suites met so far that were not found at some tick
  hashes,      \* PackageHashes: what is known of each package in use
  found,       \* the suites FindSuites found at this tick
  unchecked,   \* packages CheckForChanges has still to look at
  toRun,       \* the suites of this tick, in order
  asked,       \* the interrupt handler's status is Interrupted
  seen,        \* per package: the files when they were last compared
  built        \* per suite: the files its last build was made from

fileVars == <<files, clock, edits, rearranged>>
trackerVars == <<started, tracked, lost, hashes, found, unchecked, toRun, asked, seen, built>>
watchVars == <<fileVars, watchPc, trackerVars>>

-----------------------------------------------------------------------------
(* PackageHash, PackageHashes, Dependencies. *)

Latest(fs) == IF fs = {} THEN 0 ELSE Max({f.time : f \in fs})

\* computeHashes: the hash of the tests covers the code as well.
CodeHash(dir) == {f \in dir.entries : ~f.test}
TestHash(dir) == dir.entries

NewPackageHash(p) ==
  [codeHash |-> CodeHash(files[p]), testHash |-> TestHash(files[p]),
   deleted |-> ~files[p].present, codeModified |-> 0, testModified |-> 0]

\* PackageHashes.Add: a hash that is there is kept.
Add(hs, ps) == [p \in DOMAIN hs \cup ps |-> IF p \in DOMAIN hs THEN hs[p] ELSE NewPackageHash(p)]

\* PackageHash.CheckForChanges at time `now`.
CheckForChanges(h, dir, now) ==
  IF ~dir.present
  THEN [h EXCEPT !.codeModified = IF h.deleted THEN @ ELSE now,
                 !.testModified = IF h.deleted THEN @ ELSE now, !.deleted = TRUE]
  ELSE [codeHash |-> CodeHash(dir), testHash |-> TestHash(dir), deleted |-> FALSE,
        codeModified |-> IF h.codeHash # CodeHash(dir) THEN Latest(CodeHash(dir)) ELSE h.codeModified,
        testModified |-> IF h.testHash # TestHash(dir) THEN Latest(TestHash(dir)) ELSE h.testModified]

\* A directory without Go files cannot be imported.
Buildable(p) == files[p].entries # {}

ImportedBy(fs) == UNION {f.imports : f \in fs}

\* NewDependencies: what a chain of at most MaxDepth imports leads to.  It
\* begins with what the package's code or tests import, other than itself, and
\* goes on with what the code of the packages it meets imports.
Chains(path, depth) ==
  {c \in [0..depth -> Packages] :
     /\ c[0] = path
     /\ c[1] \in ImportedBy(TestHash(files[path])) /\ c[1] # path
     /\ \A k \in 1..depth : Buildable(c[k])
     /\ \A k \in 2..depth : c[k] \in ImportedBy(CodeHash(files[c[k - 1]]))}
NewDependencies(path) ==
  UNION {{c[depth] : c \in Chains(path, depth)} : depth \in 1..MaxDepth}

-----------------------------------------------------------------------------
(* DeltaTracker. *)

Provided == {p \in SuitePackages : \E f \in files[p].entries : f.test}

\* Suite.Delta() > 0: the suite's own files, or the code of a package it
\* depends on, changed after its last run.  Their hashes must be there.
Delta(s) == \/ hashes[s].testModified > tracked[s].runTime
            \/ \E p \in tracked[s].deps : hashes[p].codeModified > tracked[s].runTime
HashesMissing(s) == ~({s} \cup tracked[s].deps \subseteq DOMAIN hashes)

Orders(S) == {q \in [1..Cardinality(S) -> S] : \A i, j \in DOMAIN q : q[i] = q[j] => i = j}
Restricted(f, S) == [x \in DOMAIN f \cap S |-> f[x]]
Extended(f, S, g(_)) == [x \in DOMAIN f \cup S |-> IF x \in S THEN g(x) ELSE f[x]]

\* The files of a package as they are checked out at a time.
CheckedOut(p, t) ==
  {[time |-> t, test |-> FALSE, imports |-> Imports[p]]} \cup
  IF p \in SuitePackages THEN {[time |-> t, test |-> TRUE, imports |-> TestImports[p]]} ELSE {}

WatchInit ==
  /\ files = [p \in Packages |-> [present |-> TRUE, entries |-> CheckedOut(p, 1)]]
  /\ clock = 1 /\ edits = 0 /\ rearranged = {}
  /\ watchPc = "first" /\ started = 0
  /\ tracked = <<>> /\ lost = {} /\ hashes = <<>>
  /\ found = {} /\ unchecked = {} /\ toRun = <<>>
  /\ asked = FALSE
  /\ seen = files /\ built = <<>>

\* The first Delta: the suites are only recorded, unless there is just one.
WatchSpecs ==
  /\ watchPc = "first" /\ Provided # {}
  /\ started' = clock
  /\ tracked' = [s \in Provided |-> [runTime |-> 0, deps |-> NewDependencies(s)]]
  /\ hashes' = Add(<<>>, UNION {{s} \cup NewDependencies(s) : s \in Provided})
  /\ built' = [s \in Provided |-> files]
  /\ seen' = files
  /\ IF Cardinality(Provided) = 1
     THEN toRun' \in Orders(Provided) /\ watchPc' = "compile"
     ELSE watchPc' = "wait" /\ UNCHANGED toRun
  /\ UNCHANGED <<fileVars, lost, found, unchecked, asked>>

NothingToWatch ==
  /\ watchPc = "first" /\ Provided = {}
  /\ watchPc' = "aborted"
  /\ UNCHANGED <<fileVars, trackerVars>>

\* The ticker ticks: FindSuites, and Delta begins with the hashes.
Tick ==
  /\ watchPc = "wait"
  /\ found' = Provided /\ unchecked' = DOMAIN hashes
  /\ lost' = lost \cup (DOMAIN tracked \ Provided)
  /\ watchPc' = "check"
  /\ UNCHANGED <<fileVars, started, tracked, hashes, toRun, asked, seen, built>>

CheckPackage(p) ==
  /\ watchPc = "check" /\ p \in unchecked
  /\ hashes' = [hashes EXCEPT ![p] = CheckForChanges(@, files[p], clock + 1)]
  /\ clock' = IF ~files[p].present /\ ~hashes[p].deleted THEN clock + 1 ELSE clock
  /\ seen' = [seen EXCEPT ![p] = files[p]]
  /\ unchecked' = unchecked \ {p}
  /\ UNCHANGED <<files, edits, rearranged, watchPc, started, tracked, lost, found, toRun, asked,
                 built>>

\* The rest of Delta: known suites that are still there are compared, the
\* hashes no suite asked for are pruned, new suites are taken in; removed
\* suites stay in the tracker's table.
DeltaOfSuites ==
  LET known == DOMAIN tracked \cap found
      modified == {s \in known : Delta(s)}
      used == UNION {{s} \cup tracked[s].deps : s \in known}
      new == {s \in found \ DOMAIN tracked : Buildable(s)} IN
  /\ watchPc = "check" /\ unchecked = {}
  /\ \A s \in known : ~HashesMissing(s)
  /\ tracked' = Extended(tracked, new, LAMBDA s : [runTime |-> 0, deps |-> NewDependencies(s)])
  /\ hashes' = Add(Restricted(hashes, used), UNION {{s} \cup NewDependencies(s) : s \in new})
  /\ built' = Extended(built, new, LAMBDA s : <<>>)
  /\ \E first \in Orders(new), second \in Orders(modified) : toRun' = first \o second
  /\ watchPc' = IF toRun' = <<>> THEN "wait" ELSE "next"
  /\ UNCHANGED <<fileVars, started, lost, found, unchecked, asked, seen>>

\* Get answers nil for a package whose hash was pruned: Suite.dt panics.
DeltaPanics ==
  /\ watchPc = "check" /\ unchecked = {}
  /\ \E s \in DOMAIN tracked \cap found : HashesMissing(s)
  /\ watchPc' = "panicked"
  /\ UNCHANGED <<fileVars, trackerVars>>

\* WillRun: the run's time is taken before the dependencies are computed and
\* the suite is compiled; without its files only the time is.
MarkTimeOnly(s) == [runTime |-> clock + 1, deps |-> tracked[s].deps]
MarkAsRun(s) == [runTime |-> clock + 1,
                 deps |-> IF Buildable(s) THEN NewDependencies(s) ELSE tracked[s].deps]

WillRun ==
  /\ watchPc = "next" /\ toRun # <<>> /\ ~asked
  /\ LET s == Head(toRun) IN
     /\ tracked' = [tracked EXCEPT ![s] = MarkAsRun(s)]
     /\ hashes' = IF Buildable(s) THEN Add(hashes, {s} \cup NewDependencies(s)) ELSE hashes
  /\ clock' = clock + 1
  /\ watchPc' = "compile"
  /\ UNCHANGED <<files, edits, rearranged, started, lost, found, unchecked, toRun, asked, seen,
                 built>>

\* compileAndRun, in two steps: the compiler reads the files, and the suite
\* runs, unless it did not compile or the user has interrupted the watcher.
Compile ==
  /\ watchPc = "compile"
  /\ built' = [built EXCEPT ![Head(toRun)] = files]
  /\ watchPc' \in IF asked THEN {"ran"} ELSE {"run", "ran"}
  /\ UNCHANGED <<fileVars, started, tracked, lost, hashes, found, unchecked, toRun, asked, seen>>

RunAndCleanup ==
  /\ watchPc = "run"
  /\ watchPc' = "ran"
  /\ UNCHANGED <<fileVars, trackerVars>>

ResumeWatch ==
  /\ watchPc = "ran"
  /\ toRun' = Tail(toRun)
  /\ watchPc' = IF Len(toRun) = 1 THEN "wait" ELSE "next"
  /\ UNCHANGED <<fileVars, started, tracked, lost, hashes, found, unchecked, asked, seen, built>>

\* A test that cannot be run aborts the command, and so do profiles or reports
\* that cannot be collected after the last suite of a tick.
WatchAborts ==
  /\ watchPc = "run" \/ (watchPc = "ran" /\ Len(toRun) = 1 /\ found # {})
  /\ watchPc' = "aborted"
  /\ UNCHANGED <<fileVars, trackerVars>>

Stop ==
  /\ asked /\ watchPc \in {"wait", "next"}
  /\ watchPc' = "returned"
  /\ UNCHANGED <<fileVars, trackerVars>>

-----------------------------------------------------------------------------
(* The user, whose steps interleave with the watcher's. *)

Watching == watchPc \notin {"returned", "panicked", "aborted"}
UserEdits == /\ Watching /\ edits < MaxEdits /\ edits' = edits + 1 /\ clock' = clock + 1
             /\ UNCHANGED <<watchPc, trackerVars>>

\* A file is written anew, in the place of another of its kind or besides.
Save(p) ==
  /\ UserEdits /\ files[p].entries # {}
  /\ \E test \in BOOLEAN, imports \in ImportSets :
     \E old \in {{}} \cup {{f} : f \in {g \in files[p].entries : g.test = test}} :
       files' = [files EXCEPT ![p].entries =
                   (@ \ old) \cup {[time |-> clock + 1, test |-> test, imports |-> imports]}]
  /\ UNCHANGED rearranged

Rearranges(p) == UserEdits /\ rearranged' = rearranged \cup {p}

Delete(p) ==
  /\ Rearranges(p)
  /\ \E f \in files[p].entries : files' = [files EXCEPT ![p].entries = @ \ {f}]

\* A file comes from elsewhere and keeps its time.
MoveIn(p) ==
  /\ Rearranges(p) /\ files[p].present
  /\ \E f \in [time : 1..clock, test : BOOLEAN, imports : ImportSets] :
       files' = [files EXCEPT ![p].entries = @ \cup {f}]

RemovePackage(p) ==
  /\ Rearranges(p) /\ files[p].present
  /\ files' = [files EXCEPT ![p] = [present |-> FALSE, entries |-> {}]]

\* A package appears, or a version control system brings it back.
RestorePackage(p) ==
  /\ Rearranges(p) /\ files[p].entries = {}
  /\ files' = [files EXCEPT ![p] = [present |-> TRUE, entries |-> CheckedOut(p, clock + 1)]]

AskToStop ==
  /\ Watching /\ ~asked
  /\ asked' = TRUE
  /\ UNCHANGED <<fileVars, watchPc, started, tracked, lost, hashes, found, unchecked, toRun, seen,
                 built>>

WatcherStep ==
  \/ WatchSpecs \/ NothingToWatch \/ Tick \/ (\E p \in Packages : CheckPackage(p))
  \/ DeltaOfSuites \/ DeltaPanics \/ WillRun \/ Compile \/ RunAndCleanup \/ ResumeWatch
  \/ WatchAborts \/ Stop

UserStep(p) == Save(p) \/ Delete(p) \/ MoveIn(p) \/ RemovePackage(p) \/ RestorePackage(p)

WatchNext == WatcherStep \/ (\E p \in Packages : UserStep(p)) \/ AskToStop
=============================================================================
