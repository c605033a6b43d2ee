-------------------------- MODULE InterruptHandler --------------------------
(***************************************************************************)
(* internal/interrupt_handler: one goroutine listens for OS signals and    *)
(* for the abort channel, one polls the parallel server for an abort, and  *)
(* the suite's goroutine calls Status().  The three share the handler's    *)
(* level, cause and broadcast channel under a lock, and two channels       *)
(* (abortChannel, requestAbortCheck) that are closed to send a message.    *)
(* Closing a Go channel twice panics.                                      *)
(***************************************************************************)
EXTENDS Integers

CONSTANTS
  Parallel,    \* handler.client # nil: the process is part of a parallel run
  MaxSignals   \* bound on the number of OS signals delivered

ASSUME ConstantsAssumption == Parallel \in BOOLEAN /\ MaxSignals \in Nat

VARIABLES
  level, cause,     \* handler.level, handler.cause
  c, closed,        \* handler.c (channels are numbered), the closed channels
  signalChannel,    \* signals buffered in the one-slot signalChannel
  signals,          \* signals delivered so far
  abortChannel,     \* abortChannel has been closed by the poller
  shouldAbort,      \* the server's shouldAbort flag
  requestAbortCheck,\* requestAbortCheck has been closed by Status
  stop,             \* handler.stop has been closed
  poller,           \* the abort-polling goroutine
  listener,         \* the listening goroutine
  listening,        \* its own copy of abortChannel is not yet nil
  interruptCause,   \* its local variable
  caller,           \* the suite's goroutine inside Status()
  status,           \* the snapshot Status() took, and in the end returned
  panicked          \* a closed channel was closed again

vars == <<level, cause, c, closed, signalChannel, signals, abortChannel,
          shouldAbort, requestAbortCheck, stop, poller, listener, listening,
          interruptCause, caller, status, panicked>>
shared    == <<level, cause, c, closed>>
listenerV == <<listener, listening, interruptCause>>
callerV   == <<caller, status>>
env       == <<signals, shouldAbort, stop>>

Abstract == INSTANCE Interrupts WITH level <- level, cause <- cause, c <- c

TypeOK ==
  /\ level \in Abstract!Levels
  /\ cause \in Abstract!Causes
  /\ c \in Nat
  /\ closed \subseteq Nat
  /\ signalChannel \in 0..1
  /\ signals \in 0..MaxSignals
  /\ abortChannel \in BOOLEAN /\ shouldAbort \in BOOLEAN
  /\ requestAbortCheck \in BOOLEAN /\ stop \in BOOLEAN
  /\ listening \in BOOLEAN /\ panicked \in BOOLEAN
  /\ poller \in {"select", "gone"}
  /\ listener \in {"select", "update", "gone"}
  /\ interruptCause \in Abstract!Causes
  /\ caller \in {"idle", "check", "wait", "again"}
  /\ status \in [level: Abstract!Levels, cause: Abstract!Causes, ch: Nat]

\* InterruptStatus.Interrupted
Interrupted(s) == s.level # Abstract!Uninterrupted

Snapshot == [level |-> level, cause |-> cause, ch |-> c]

\* NewInterruptHandler; the caller starts with the status of a first call.
Init ==
  /\ level = Abstract!Uninterrupted /\ cause = "invalid"
  /\ c = 0 /\ closed = {}
  /\ signalChannel = 0 /\ signals = 0
  /\ abortChannel = FALSE /\ shouldAbort = FALSE
  /\ requestAbortCheck = FALSE /\ stop = FALSE
  /\ poller = IF Parallel THEN "select" ELSE "gone"
  /\ listener = "select" /\ listening = Parallel
  /\ interruptCause = "invalid"
  /\ caller = "idle"
  /\ status = [level |-> Abstract!Uninterrupted, cause |-> "invalid", ch |-> 0]
  /\ panicked = FALSE

-----------------------------------------------------------------------------
(* The environment: the operating system and the parallel server.          *)

\* os/signal delivers without blocking: a signal that finds the one-slot
\* channel full is dropped.
DeliverSignal ==
  /\ signals < MaxSignals
  /\ signals' = signals + 1
  /\ signalChannel' = 1
  /\ UNCHANGED <<shared, abortChannel, shouldAbort, requestAbortCheck, stop,
                 poller, listenerV, callerV, panicked>>

\* Another process posts an abort to the server.
PostAbort ==
  /\ Parallel /\ ~shouldAbort
  /\ shouldAbort' = TRUE
  /\ UNCHANGED <<shared, signalChannel, signals, abortChannel, stop,
                 requestAbortCheck, poller, listenerV, callerV, panicked>>

\* client.ShouldAbort(): a call that fails reads as "no".
Answers == {shouldAbort, FALSE}

-----------------------------------------------------------------------------
(* The poller.  The ticker may fire at any time, so the closed             *)
(* requestAbortCheck only spares it the wait: both cases do the same.      *)

\* Variant: the poller gives up after its first look.
PollOnce(answer) ==
  /\ poller = "select"
  /\ abortChannel' = (abortChannel \/ answer)
  /\ poller' = "gone"
  /\ UNCHANGED <<shared, signalChannel, requestAbortCheck, env, listenerV,
                 callerV, panicked>>

Poll(answer) ==
  /\ poller = "select"
  /\ IF answer
       THEN /\ abortChannel' = TRUE
            /\ panicked' = (panicked \/ abortChannel)
            /\ poller' = "gone"
       ELSE UNCHANGED <<abortChannel, panicked, poller>>
  /\ UNCHANGED <<shared, signalChannel, requestAbortCheck, env, listenerV,
                 callerV>>

PollerStop ==
  /\ poller = "select" /\ stop
  /\ poller' = "gone"
  /\ UNCHANGED <<shared, signalChannel, abortChannel, requestAbortCheck, env,
                 listenerV, callerV, panicked>>

-----------------------------------------------------------------------------
(* The listener.  Whatever woke it, it stops listening for an abort.       *)

ListenSignal ==
  /\ listener = "select" /\ signalChannel > 0
  /\ signalChannel' = signalChannel - 1
  /\ interruptCause' = "signal"
  /\ listening' = FALSE
  /\ listener' = "update"
  /\ UNCHANGED <<shared, abortChannel, requestAbortCheck, env, poller,
                 callerV, panicked>>

ListenAbort ==
  /\ listener = "select" /\ listening /\ abortChannel
  /\ interruptCause' = "abort"
  /\ listening' = FALSE
  /\ listener' = "update"
  /\ UNCHANGED <<shared, signalChannel, abortChannel, requestAbortCheck, env,
                 poller, callerV, panicked>>

ListenStop ==
  /\ listener = "select" /\ stop
  /\ listener' = "gone"
  /\ UNCHANGED <<shared, signalChannel, abortChannel, requestAbortCheck, env,
                 poller, listening, interruptCause, callerV, panicked>>

\* Variants of the critical section: the level climbs without closing the
\* channel; the channel is replaced every time.
EscalateSilently ==
  /\ listener = "update"
  /\ listener' = "select"
  /\ cause' = interruptCause
  /\ level' = IF level < Abstract!BailOut THEN level + 1 ELSE level
  /\ UNCHANGED <<signalChannel, abortChannel, requestAbortCheck, env, poller,
                 listening, interruptCause, callerV, panicked, closed, c>>
EscalateAlwaysCloses ==
  /\ listener = "update"
  /\ listener' = "select"
  /\ cause' = interruptCause
  /\ level' = IF level < Abstract!BailOut THEN level + 1 ELSE level
  /\ closed' = closed \union {c} /\ c' = c + 1
  /\ UNCHANGED <<signalChannel, abortChannel, requestAbortCheck, env, poller,
                 listening, interruptCause, callerV, panicked>>

\* The critical section: climb one level, and only on a climb close the
\* broadcast channel and make the next one.
Escalate ==
  /\ listener = "update"
  /\ listener' = "select"
  /\ cause' = interruptCause
  /\ level' = IF level < Abstract!BailOut THEN level + 1 ELSE level
  /\ IF level' # level
       THEN /\ panicked' = (panicked \/ c \in closed)
            /\ closed' = closed \union {c}
            /\ c' = c + 1
       ELSE UNCHANGED <<panicked, closed, c>>
  /\ UNCHANGED <<signalChannel, abortChannel, requestAbortCheck, env, poller,
                 listening, interruptCause, callerV>>

-----------------------------------------------------------------------------
(* Status(), called by the suite's goroutine only.                         *)

\* The snapshot under the lock; "again" is the recursive call.
StatusRead ==
  /\ caller = "again" \/ (caller = "idle" /\ ~stop)
  /\ status' = Snapshot
  /\ caller' = IF Parallel THEN "check" ELSE "idle"
  /\ UNCHANGED <<shared, signalChannel, abortChannel, requestAbortCheck, env,
                 poller, listenerV, panicked>>

\* Variant: Status asks for an abort check whatever level it read.
StatusCheckAlways(answer) ==
  /\ caller = "check"
  /\ IF answer
       THEN /\ panicked' = (panicked \/ requestAbortCheck)
            /\ requestAbortCheck' = TRUE
            /\ caller' = "wait"
       ELSE /\ caller' = "idle"
            /\ UNCHANGED <<requestAbortCheck, panicked>>
  /\ UNCHANGED <<shared, signalChannel, abortChannel, env, poller, listenerV,
                 status>>

\* An abort the listener has not seen yet: ask the poller to look, and wait.
StatusCheck(answer) ==
  /\ caller = "check"
  /\ IF answer /\ ~Interrupted(status)
       THEN /\ panicked' = (panicked \/ requestAbortCheck)
            /\ requestAbortCheck' = TRUE
            /\ caller' = "wait"
       ELSE /\ caller' = "idle"
            /\ UNCHANGED <<requestAbortCheck, panicked>>
  /\ UNCHANGED <<shared, signalChannel, abortChannel, env, poller, listenerV,
                 status>>

StatusWait ==
  /\ caller = "wait" /\ status.ch \in closed
  /\ caller' = "again"
  /\ UNCHANGED <<shared, signalChannel, abortChannel, requestAbortCheck, env,
                 poller, listenerV, status, panicked>>

\* Stop: the owner is done with the handler and calls Status() no more.
Stop ==
  /\ caller = "idle" /\ ~stop
  /\ stop' = TRUE
  /\ UNCHANGED <<shared, signalChannel, signals, abortChannel, shouldAbort,
                 requestAbortCheck, poller, listenerV, callerV, panicked>>

-----------------------------------------------------------------------------
StatusStep == StatusRead \/ (\E a \in Answers: StatusCheck(a)) \/ StatusWait
Listen     == ListenSignal \/ ListenAbort \/ ListenStop

Next ==
  \/ DeliverSignal
  \/ PostAbort
  \/ \E a \in Answers: Poll(a)
  \/ PollerStop
  \/ ListenSignal
  \/ ListenAbort
  \/ ListenStop
  \/ Escalate
  \/ StatusRead
  \/ \E a \in Answers: StatusCheck(a)
  \/ StatusWait
  \/ Stop

Spec == Init /\ [][Next]_vars

\* The goroutines are scheduled; a poller that keeps asking is answered now
\* and then; a Status() call that has begun is carried on.
Fairness ==
  /\ WF_vars(Listen)
  /\ WF_vars(Escalate)
  /\ SF_vars(Poll(shouldAbort) /\ shouldAbort)
  /\ WF_vars(PollerStop)
  /\ WF_vars(caller # "idle" /\ StatusStep)

FairSpec == Spec /\ Fairness

-----------------------------------------------------------------------------
(* Properties                                                              *)

\* No wakeup is lost and none is spurious: the channel of the status the
\* suite holds is closed exactly when the level has climbed since, whatever
\* the listener did between the snapshot and the select (runNode selects on
\* interruptStatus.Channel long after it called Status).
WakeupExact == status.ch \in closed <=> level > status.level

\* An abort by another process never cuts a cleanup short: it is counted as
\* the first interrupt or not at all, also when it races a signal
\* (`abortChannel = nil` after either of them).
AbortOnlyFirst == cause = "abort" => level = Abstract!CleanupAndReport

\* None of the three channels is closed twice, so no goroutine panics:
\* repeated and recursive calls of Status close requestAbortCheck once.
NoDoubleClose == ~panicked

\* The handler implements the interrupt levels the suite relies on.
ImplementsInterrupts == Abstract!InterruptsSpec

\* Status() returns, even when it decides to wait for the poller to notice
\* an abort and the calls of the poller fail now and then.
StatusReturns == (caller # "idle") ~> (caller = "idle")

\* An abort requested anywhere interrupts this process, or it stopped first.
AbortReachesSuite == shouldAbort ~> (level > Abstract!Uninterrupted \/ stop)
=============================================================================
