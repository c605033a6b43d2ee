------------------------- MODULE OutputInterceptor --------------------------
(***************************************************************************)
(* The output interceptor (internal/output_interceptor.go and              *)
(* output_interceptor_unix.go) and the GinkgoWriter (internal/writer.go),  *)
(* as the suite uses them in a parallel process: around every attempt of a *)
(* spec, every suite node and every report node the suite clears the       *)
(* writer, points stdout at a pipe, runs the body, and adds what both      *)
(* captured to the report.                                                 *)
(*                                                                         *)
(* One stretch between a Start and the matching Stop is a segment.  Within *)
(* it the body writes, may start a child process that inherits stdout, and *)
(* may pause and resume the interception; a goroutine that an earlier body *)
(* left behind may write at any moment.  Writes are numbered in the order  *)
(* in which they happen, and their numbers stand for the output.           *)
(***************************************************************************)
EXTENDS Integers, Sequences, FiniteSets, SequencesExt

CONSTANT Workloads  \* see WorkloadType

\* spec: the report the output belongs to; opens and closes: the writer is
\* cleared before, and read after, the segment; keep: the captured output is
\* added to the report; forward: it is also sent to the parallel server;
\* early: the node may return before it stops the interception.
SegmentType == [spec: Nat, opens: BOOLEAN, closes: BOOLEAN, keep: BOOLEAN,
                forward: BOOLEAN, early: BOOLEAN]

\* The segments, as a code path of the suite makes them, and the bounds on the
\* writes and on the user's calls of PauseOutputInterception.
WorkloadType == [segments: Seq(SegmentType), writes: Nat, pauses: Nat]

\* The writer is cleared at the start of every attempt, suite node and report
\* node and read once, at its end; the segments in between are about the same
\* report, and only a report node, which is one segment, may return early.
CodePath(segments) ==
  /\ \A i \in DOMAIN segments:
       /\ IF i = 1 THEN segments[i].opens ELSE segments[i].opens = segments[i - 1].closes
       /\ segments[i].opens \/ segments[i].spec = segments[i - 1].spec
       /\ segments[i].early => segments[i].opens /\ segments[i].closes

ASSUME InterceptorAssumption ==
  \A w \in Workloads: w \in WorkloadType /\ CodePath(w.segments)

Impls    == {"dup", "swap"}  \* dupSyscall..., osGlobalReassigning...
Console  == 0                \* the stdout the process was started with
Exited   == -3               \* the (one) child process
Nothing  == -1               \* no child process, or a write that is lost
GinkgoWriter == -2

VARIABLES
  work, impl,      \* chosen at the start
  seg,             \* the current segment
  pc, ret,         \* where the suite's goroutine is; where Pause returns to
  intercepting,
  clones,          \* stdoutClone is not nil
  factory,         \* the goroutine of startPipeFactory is running
  pipes,           \* every pipe handed out so far; the last is interceptor.pipe
  stdout,          \* what stdout is: the console or a pipe
  forwardTo, accumulatedOutput,
  child,           \* what the child process writes to: Nothing, Console, a pipe
  pauses,
  buffer,          \* of the GinkgoWriter
  report,          \* CapturedStdOutErr and CapturedGinkgoWriterOutput
  wrote            \* history: where each write was made, and where it went

caller == <<seg, pc, ret, pauses>>
self   == <<intercepting, clones, stdout, forwardTo, accumulatedOutput>>
fixed  == <<work, impl>>
vars   == <<fixed, caller, self, factory, pipes, child, buffer, report, wrote>>

Pipe    == Len(pipes)  \* interceptor.pipe
Segments == work.segments
Segment  == Segments[seg]
Dead    == pc \in {"end", "killed"}

NewPipe == [writers |-> {"writer"}, data |-> <<>>, buf |-> <<>>, fwd |-> forwardTo,
            copier |-> "copy", select |-> "wait", bailout |-> FALSE, broken |-> FALSE]

Init ==
  /\ work \in Workloads /\ impl \in Impls
  /\ seg = 1 /\ pc = "between" /\ ret = "body" /\ pauses = 0
  /\ intercepting = FALSE /\ clones = FALSE /\ stdout = Console
  /\ forwardTo = FALSE /\ accumulatedOutput = <<>>
  /\ factory = FALSE /\ pipes = <<>> /\ child = Nothing
  /\ buffer = <<>> /\ wrote = <<>>
  /\ report = [s \in {Segments[i].spec: i \in DOMAIN Segments} |-> [out |-> <<>>, gw |-> <<>>]]

-----------------------------------------------------------------------------
(* ResumeIntercepting, and StartInterceptingOutputAndForwardTo, which      *)
(* forgets the accumulated output first.                                   *)

\* The first half, up to the wait for a pipe.  Called while it is
\* intercepting, the interceptor does nothing at all.
ResumeIntercepting ==
  IF intercepting THEN pc' = "body" /\ UNCHANGED <<intercepting, clones, factory>>
  ELSE /\ intercepting' = TRUE /\ pc' = "pipe"
       /\ clones' = TRUE
       /\ factory' = (clones => factory)

TruncateNever == UNCHANGED buffer

\* writer.Truncate, at the start of an attempt, a suite node or a report node.
Truncate == buffer' = IF Segment.opens THEN <<>> ELSE buffer

StartIntercepting ==
  /\ pc = "between" /\ seg <= Len(Segments)
  /\ Truncate
  /\ IF intercepting THEN UNCHANGED <<forwardTo, accumulatedOutput>>
     ELSE forwardTo' = Segment.forward /\ accumulatedOutput' = <<>>
  /\ ResumeIntercepting
  /\ UNCHANGED <<fixed, seg, ret, pauses, stdout, pipes, child, report, wrote>>

\* The factory has the next pipe ready; the goroutines that copy it and that
\* wait for the end of the copy are started.
TakePipe ==
  /\ pc = "pipe" /\ factory
  /\ pipes' = Append(pipes, NewPipe)
  /\ pc' = "connect"
  /\ UNCHANGED <<fixed, seg, ret, pauses, self, factory, child, buffer, report, wrote>>

\* Dup2 makes descriptors 1 and 2 further holders of the write end; the other
\* implementation assigns the write end itself to os.Stdout and os.Stderr.
ConnectPipeToStdoutStderr ==
  /\ pc = "connect" /\ pc' = "body"
  /\ stdout' = Pipe
  /\ pipes' = IF impl = "dup" THEN [pipes EXCEPT ![Pipe].writers = @ \union {"fd"}] ELSE pipes
  /\ UNCHANGED <<fixed, seg, ret, pauses, intercepting, clones, forwardTo, accumulatedOutput,
                 factory, child, buffer, report, wrote>>

-----------------------------------------------------------------------------
(* PauseIntercepting.                                                      *)

\* A call of PauseIntercepting that continues at r.
Pause(r) ==
  IF intercepting THEN pc' = "close" /\ ret' = r ELSE pc' = r /\ UNCHANGED ret

KeepWriter ==
  /\ pc = "close" /\ pc' = "restore"
  /\ UNCHANGED <<fixed, seg, ret, pauses, self, factory, pipes, child, buffer, report, wrote>>

CloseWriter ==
  /\ pc = "close" /\ pc' = "restore"
  /\ pipes' = [pipes EXCEPT ![Pipe].writers = @ \ {"writer"}]
  /\ UNCHANGED <<fixed, seg, ret, pauses, self, factory, child, buffer, report, wrote>>

RestoreStdoutStderrFromClones ==
  /\ pc = "restore" /\ pc' = "await"
  /\ stdout' = Console
  /\ pipes' = [pipes EXCEPT ![Pipe].writers = @ \ {"fd"}]
  /\ UNCHANGED <<fixed, seg, ret, pauses, intercepting, clones, forwardTo, accumulatedOutput,
                 factory, child, buffer, report, wrote>>

\* BAILOUT_TIME is over.
NoBailout == FALSE /\ UNCHANGED vars

Bailout ==
  /\ pc = "await" /\ pc' = "bailed"
  /\ pipes' = [pipes EXCEPT ![Pipe].bailout = TRUE]
  /\ UNCHANGED <<fixed, seg, ret, pauses, self, factory, child, buffer, report, wrote>>

\* The goroutine of the pipe has sent what it had and is gone.
Sent(pipe) ==
  [pipe EXCEPT !.select = "sent", !.buf = IF pipe.bailout THEN @ ELSE <<>>]

\* What comes out of the interceptedContent channel, which all pipes share.
ReceiveContent(p) ==
  /\ pc \in {"await", "bailed"} /\ pc' = ret /\ ret' = "body"
  /\ pipes[p].select \in {"content", "empty"}
  /\ accumulatedOutput' = accumulatedOutput \o
       IF pipes[p].select = "content" THEN pipes[p].buf ELSE <<>>
  /\ pipes' = [pipes EXCEPT ![p] = Sent(@)]
  /\ intercepting' = FALSE
  /\ UNCHANGED <<fixed, seg, pauses, clones, stdout, forwardTo, factory, child, buffer, report,
                 wrote>>

-----------------------------------------------------------------------------
(* The goroutines of a pipe.                                               *)

OnlyPipes == UNCHANGED <<fixed, caller, self, factory, child, buffer, report, wrote>>

\* io.Copy moves the output to the buffer, and to the server if asked to.
Copied(pipe) == [pipe EXCEPT !.data = Tail(@), !.buf = Append(@, Head(pipe.data))]

Copy(p) ==
  /\ pipes[p].copier = "copy" /\ pipes[p].data # <<>>
  /\ pipes' = [pipes EXCEPT ![p] = Copied(@)]
  /\ OnlyPipes

\* The write end has no holder any more: io.Copy is over, the read end closed.
CopyFinished(p) ==
  /\ pipes[p].copier = "copy" /\ pipes[p].data = <<>> /\ pipes[p].writers = {}
  /\ pipes' = [pipes EXCEPT ![p].copier = "finished"]
  /\ OnlyPipes

\* The multi-writer buffers the output first, then fails; nobody reads the rest.
Broken(pipe) == [Copied(pipe) EXCEPT !.copier = "finished", !.broken = TRUE]

\* client.Write reports an error: the copy is over while stdout is still the
\* pipe.  (The HTTP client dereferences the missing response instead.)
ForwardFails(p) ==
  /\ pipes[p].copier = "copy" /\ pipes[p].data # <<>> /\ pipes[p].fwd
  /\ \/ /\ pipes' = [pipes EXCEPT ![p] = Broken(@)]
        /\ OnlyPipes
     \/ /\ pc' = "killed"
        /\ UNCHANGED <<fixed, seg, ret, pauses, self, factory, pipes, child, buffer, report, wrote>>

\* The select: with both cases ready either may be taken.
Select(p) ==
  /\ pipes[p].select = "wait"
  /\ \/ /\ pipes[p].copier = "finished"
        /\ pipes' = [pipes EXCEPT ![p].select = "content"]
     \/ /\ pipes[p].bailout
        /\ pipes' = [pipes EXCEPT ![p].select = "empty"]
  /\ OnlyPipes

-----------------------------------------------------------------------------
(* What the suite does with the interceptor.                               *)

\* The body of the segment is over: Stop... pauses if it is intercepting.
StopIntercepting ==
  /\ pc = "body" /\ Pause("stopped")
  /\ UNCHANGED <<fixed, seg, pauses, self, factory, pipes, child, buffer, report, wrote>>

\* ... and the suite adds the accumulated output, and what the writer holds,
\* to the report.
Stopped ==
  /\ pc = "stopped" /\ pc' = "between" /\ seg' = seg + 1
  /\ report' = [report EXCEPT ![Segment.spec] =
       [out |-> @.out \o (IF Segment.keep THEN accumulatedOutput ELSE <<>>),
        gw  |-> @.gw \o (IF Segment.closes THEN buffer ELSE <<>>)]]
  /\ UNCHANGED <<fixed, ret, pauses, self, factory, pipes, child, buffer, wrote>>

\* runReportSuiteNode could not fetch the report of the other processes and
\* returns while the interception goes on.
ReturnEarly ==
  /\ pc = "body" /\ Segment.early
  /\ pc' = "between" /\ seg' = seg + 1
  /\ UNCHANGED <<fixed, ret, pauses, self, factory, pipes, child, buffer, report, wrote>>

\* The suite is over, or exitIfErr gives up in the middle of a body.
Shutdown ==
  /\ pc = "body" \/ (pc = "between" /\ seg > Len(Segments))
  /\ Pause("shutdown")
  /\ UNCHANGED <<fixed, seg, pauses, self, factory, pipes, child, buffer, report, wrote>>

ShutdownClones ==
  /\ pc = "shutdown" /\ pc' = "end"
  /\ clones' = FALSE
  /\ factory' = (factory /\ ~clones)
  /\ UNCHANGED <<fixed, seg, ret, pauses, intercepting, stdout, forwardTo, accumulatedOutput,
                 pipes, child, buffer, report, wrote>>

-----------------------------------------------------------------------------
(* User code.                                                              *)

PauseOutputInterception ==
  /\ pc = "body" /\ pauses < work.pauses
  /\ pauses' = pauses + 1
  /\ Pause("body")
  /\ UNCHANGED <<fixed, seg, self, factory, pipes, child, buffer, report, wrote>>

ResumeOutputInterception ==
  /\ pc = "body" /\ ~intercepting /\ ResumeIntercepting
  /\ UNCHANGED <<fixed, seg, ret, pauses, stdout, forwardTo, accumulatedOutput, pipes, child,
                 buffer, report, wrote>>

Record(by, to) == wrote' = Append(wrote, [by |-> by, seg |-> seg, to |-> to])

\* A write to stdout.  The write end may be closed already (os.Stdout is the
\* pipe's own file), and the read end may be: then descriptors 1 and 2 get the
\* process killed by SIGPIPE.
WriteStdout(by) ==
  LET p == IF by = "child" THEN child ELSE stdout
      closed == p # Console /\ by # "child" /\ impl = "swap" /\ "writer" \notin pipes[p].writers
      broken == p # Console /\ pipes[p].copier = "finished"
  IN /\ Len(wrote) < work.writes
     /\ Record(by, IF closed \/ broken THEN Nothing ELSE p)
     /\ IF p = Console \/ closed \/ broken THEN UNCHANGED pipes
        ELSE pipes' = [pipes EXCEPT ![p].data = Append(@, Len(wrote) + 1)]
     /\ pc' = IF broken /\ impl = "dup" /\ by # "child" THEN "killed" ELSE pc
     /\ UNCHANGED <<fixed, seg, ret, pauses, self, factory, child, buffer, report>>

\* Writer.Write; in a parallel process the writer only buffers.
WriteGinkgoWriter(by) ==
  /\ Len(wrote) < work.writes
  /\ Record(by, GinkgoWriter)
  /\ buffer' = Append(buffer, Len(wrote) + 1)
  /\ UNCHANGED <<fixed, caller, self, factory, pipes, child, report>>

BodyWrites == pc = "body" /\ (WriteStdout("body") \/ WriteGinkgoWriter("body"))

\* A goroutine that the body of an earlier segment left behind.
LeakedWrites == ~Dead /\ seg > 1 /\ (WriteStdout("leaked") \/ WriteGinkgoWriter("leaked"))

\* cmd.Stdout = os.Stdout.
StartChild ==
  /\ pc = "body" /\ child = Nothing
  /\ child' = stdout
  /\ pipes' = IF stdout = Console THEN pipes
              ELSE [pipes EXCEPT ![stdout].writers = @ \union {"child"}]
  /\ UNCHANGED <<fixed, caller, self, factory, buffer, report, wrote>>

ChildWrites == child \notin {Nothing, Exited} /\ ~Dead /\ WriteStdout("child")

ChildExits ==
  /\ child \notin {Nothing, Exited} /\ ~Dead
  /\ child' = Exited
  /\ pipes' = IF child = Console THEN pipes
              ELSE [pipes EXCEPT ![child].writers = @ \ {"child"}]
  /\ UNCHANGED <<fixed, caller, self, factory, buffer, report, wrote>>

-----------------------------------------------------------------------------
Receive == \E p \in DOMAIN pipes: ReceiveContent(p)

\* What the goroutine of the suite does inside calls of the interceptor.
Calls == TakePipe \/ ConnectPipeToStdoutStderr \/ CloseWriter
         \/ RestoreStdoutStderrFromClones \/ Bailout \/ Receive \/ Stopped \/ ShutdownClones

Goroutines == ~Dead /\ \E p \in DOMAIN pipes: Copy(p) \/ CopyFinished(p) \/ Select(p)

Faults == ~Dead /\ \E p \in DOMAIN pipes: ForwardFails(p)

Done == Dead /\ UNCHANGED vars

Next ==
  \/ StartIntercepting \/ StopIntercepting \/ ReturnEarly \/ Shutdown \/ Calls
  \/ Goroutines \/ Faults
  \/ PauseOutputInterception \/ ResumeOutputInterception
  \/ BodyWrites \/ LeakedWrites \/ StartChild \/ ChildWrites \/ ChildExits
  \/ Done

Spec == Init /\ [][Next]_vars

\* Goroutines that can run do run, and the bailout timer fires; a child
\* process need never write, nor exit.
FairSpec == Spec /\ WF_vars(Calls) /\ WF_vars(Goroutines)

-----------------------------------------------------------------------------
(* Properties.                                                             *)

Within(s) == {t \in DOMAIN wrote: wrote[t].seg = s}
Increasing(out) == \A i, j \in DOMAIN out: i < j => out[i] < out[j]

\* What a body wrote while stdout was a pipe is in the report of its spec,
\* once and in the order in which it was written, and in no other report,
\* across attempts, pauses and the restarts inside suite nodes; and so is what
\* it wrote to the GinkgoWriter.  Only the emergency bailout and a failing
\* server lose output, and only an early return lets it go to a later report.
OutputFiled ==
  /\ \A spec \in DOMAIN report: LET r == report[spec] IN
       /\ Increasing(r.out) /\ Increasing(r.gw)
       /\ \A t \in Range(r.out) \union Range(r.gw):
            \/ Segments[wrote[t].seg].spec = spec
            \/ wrote[t].by # "body" \/ \E s \in wrote[t].seg..seg: Segments[s].early
  /\ \A s \in 1..(seg - 1): LET r == report[Segments[s].spec] IN
       \A t \in {u \in Within(s): wrote[u].by = "body"}:
         IF wrote[t].to = GinkgoWriter
         THEN ~Segments[s].early /\ (\E e \in s..(seg - 1): Segments[e].closes) => t \in Range(r.gw)
         ELSE /\ wrote[t].to # Console /\ wrote[t].to # Nothing /\ Segments[s].keep
              /\ ~Segments[s].early
              /\ ~pipes[wrote[t].to].bailout /\ ~pipes[wrote[t].to].broken
              => t \in Range(r.out)

\* While the interceptor is not intercepting and none of its calls is under
\* way, stdout is the console again, the process holds no write end of any
\* pipe, no goroutine of an earlier interception is left that could answer a
\* later one, and only a bailout leaves a copy running.
Released ==
  ~intercepting /\ pc \notin {"pipe", "connect", "close", "restore", "await", "bailed"} =>
    /\ stdout = Console
    /\ \A p \in DOMAIN pipes:
         /\ pipes[p].writers \subseteq {"child"}
         /\ pipes[p].select = "sent"
         /\ pipes[p].copier = "copy" => pipes[p].bailout

\* Every call of the interceptor returns, even when a child process holds the
\* write end of the pipe for ever.
CallsReturn == pc \in {"pipe", "connect", "close", "restore", "await", "bailed"}
                 ~> pc \notin {"pipe", "connect", "close", "restore", "await", "bailed"}
=============================================================================
