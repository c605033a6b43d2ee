------------------------------- MODULE Ginkgo -------------------------------
(***************************************************************************)
(* The ginkgo command line: the program picks a command by its first       *)
(* argument and the command runs until it aborts with an exit code.  The   *)
(* commands that work on files one after the other and end (version,       *)
(* bootstrap, generate, labels, outline, unfocus) are one step.            *)
(***************************************************************************)
EXTENDS RunCommand, Watch

VARIABLE command   \* what RunAndExit chose, and "" before

vars == <<command, runVars, watchVars>>

Init == command = "" /\ RunInit /\ WatchInit

\* A command other than the default one is chosen by its name alone.
Words == {"", "run", "package", "build", "watch", "unfocus", "help", "help unknown", "convert"}

CommandFor(word) ==
  CASE word \in {"", "run", "package"} -> "run"
    [] OTHER -> word

\* A configuration or usage error ends every command with 1 before it acts.
RunAndExit ==
  /\ command = ""
  /\ \E word \in Words :
       /\ command' = CommandFor(word)
       /\ \/ /\ command' \in {"run", "build"}
             /\ config' \in {c \in Configs : c.build = (command' = "build")}
             /\ UNCHANGED <<runPc, exitCode>>
          \/ command' = "watch" /\ UNCHANGED <<config, runPc, exitCode>>
          \/ /\ command' \in {"run", "build", "watch", "unfocus", "help unknown"}
             /\ Abort(1) /\ UNCHANGED config
          \/ command' \in {"unfocus", "help", "convert"} /\ Abort(0) /\ UNCHANGED config
  /\ UNCHANGED <<opc, compilers, signalled, elapsed, suiteVars, watchVars>>

Next ==
  \/ RunAndExit
  \/ command \in {"run", "build"} /\ RunNext /\ UNCHANGED <<command, watchVars>>
  \/ command = "watch" /\ ~Exited /\ WatchNext /\ UNCHANGED <<command, runVars>>
  \/ (Exited \/ ~Watching) /\ UNCHANGED vars

Spec == Init /\ [][Next]_vars

\* The goroutines run on; `go test -c` and a test binary end.
FairSpec ==
  /\ Spec
  /\ WF_vars(command \in {"run", "build"} /\ MainStep /\ UNCHANGED <<command, watchVars>>)
  /\ \A c \in 1..NumCompilers :
       WF_vars(command \in {"run", "build"} /\ CompilerStep(c) /\ UNCHANGED <<command, watchVars>>)

-----------------------------------------------------------------------------
(* Properties. *)

\* A run that was not interrupted and exits with 0, or with the exit code of
\* programmatic focus, ran every suite to a pass, or found it empty, in every
\* iteration; it exits with 1 for a failure, and when it had to abort because a
\* test process could not be run or what the suites left could not be
\* collected, whatever the verdicts.  No suite is run before it is built: what
\* the stopped compiler passes on uncompiled is skipped or failed, with and
\* without --keep-going.  Unless it aborted inside the loop, which removes
\* nothing and forgets the suites that follow, every suite has a verdict and no
\* binary is left but those that were there or must be preserved.
ExitCodeExact ==
  command = "run" /\ Exited /\ suites # <<>> /\ ~(signalled /\ opc.stopped) =>
    /\ exitCode \in {0, 197} =>
         \A n \in DOMAIN completed : completed[n] = iteration + 1
    /\ exitCode = 197 <=>
         /\ runPc = "exited" /\ ~config.editor
         /\ AnyHaveProgrammaticFocus /\ Failures = 0
    /\ exitCode = 1 <=>
         runPc # "exited" \/ \E n \in DOMAIN completed : completed[n] < iteration + 1
    /\ ~unbuilt
    /\ runPc # "runAborted" =>
         /\ \A i \in DOMAIN suites : suites[i].state \notin {"Uncompiled", "Compiled"}
         /\ ~config.preserve => \A i \in DOMAIN suites :
                                  suites[i].name \in binaries => suites[i].precompiled

\* The command comes to an end: the loop that hands out suites, the
\* goroutines that compile them and the loop that waits for each suite in
\* turn never wait for each other.
CommandEnds == (command \in {"run", "build"}) ~> Exited

\* What suite s watches of package p in a directory as it is, or was seen.
Watches(s, p, dir) == IF p = s THEN TestHash(dir) ELSE CodeHash(dir)

\* The time of the suite's last run, or the one it was recorded at.
Since(s) == IF tracked[s].runTime = 0 THEN started ELSE tracked[s].runTime

\* Between two ticks, of a suite that was found at the last one and at all
\* before it: when what it watches is as it was compared, no file of the suite
\* or of the code it is known to depend on is newer than its last run, however
\* the user's changes fell between the steps of the tracker.  And if in none of
\* its packages more was done than to save files, its dependencies are known
\* and its last build was made of the files that are there.  (What the user
\* deletes, moves in with an old time or lets appear later goes unnoticed.)
ChangesAreRun ==
  command = "watch" /\ watchPc = "wait" =>
    \A s \in (DOMAIN tracked \cap found) \ lost :
      LET W == {s} \cup tracked[s].deps IN
      (\A p \in W : seen[p] = files[p]) =>
        /\ \A p \in W : files[p].present => Latest(Watches(s, p, files[p])) <= Since(s)
        /\ (W \cup NewDependencies(s)) \cap rearranged = {} =>
             /\ tracked[s].deps = NewDependencies(s)
             /\ \A p \in W : Watches(s, p, built[s][p]) = Watches(s, p, files[p])
=============================================================================
