----------------------- MODULE InterruptHandlerProofs -----------------------
(***************************************************************************)
(* The interrupt handler for any number of signals, in a serial or a       *)
(* parallel run.  Its channels are numbered by the level they were made    *)
(* on, which is what makes WakeupExact inductive; NoDoubleClose needs to   *)
(* know where the caller can be once requestAbortCheck is closed.          *)
(***************************************************************************)
EXTENDS InterruptHandler, TLAPS

\* Channel n is the channel of level n, and the lower ones are closed.
ChannelIsLevel ==
  /\ c = level
  /\ \A ch \in Nat: ch \in closed <=> ch < c
  /\ status.ch = status.level
  /\ status.level <= level

\* While an abort can still be counted, no interrupt has been.
AbortIsFirst ==
  /\ listening => level = 0 /\ listener # "update"
  /\ listener = "update" => \/ interruptCause = "signal"
                            \/ interruptCause = "abort" /\ level = 0
  /\ level > 1 => cause = "signal"
  /\ AbortOnlyFirst

\* The poller leaves once it has closed abortChannel; after requestAbortCheck
\* is closed the caller waits, or every status it has is an interrupted one.
ClosedOnce ==
  /\ NoDoubleClose
  /\ poller = "select" => ~abortChannel
  /\ requestAbortCheck => \/ caller = "wait"
                          \/ caller = "again" /\ level > 0
                          \/ status.level > 0

IndInv == TypeOK /\ ChannelIsLevel /\ AbortIsFirst /\ ClosedOnce

USE DEF Abstract!Levels, Abstract!Causes, Abstract!Uninterrupted,
        Abstract!CleanupAndReport, Abstract!ReportOnly, Abstract!BailOut

\* The invariant holds when NewInterruptHandler returns.
LEMMA InitIndInv == Init => IndInv
<1> SUFFICES ASSUME Init PROVE IndInv
  OBVIOUS
<1> USE ConstantsAssumption DEF Init
<1>1. TypeOK
  <2>1. listening \in BOOLEAN  OBVIOUS
  <2>2. poller \in {"select", "gone"}  OBVIOUS
  <2>3. signals \in 0..MaxSignals  OBVIOUS
  <2>4. status \in [level: Abstract!Levels, cause: Abstract!Causes, ch: Nat]
    OBVIOUS
  <2>5. abortChannel \in BOOLEAN /\ shouldAbort \in BOOLEAN
        /\ requestAbortCheck \in BOOLEAN /\ stop \in BOOLEAN
        /\ panicked \in BOOLEAN
    OBVIOUS
  <2>6. QED BY <2>1, <2>2, <2>3, <2>4, <2>5 DEF TypeOK
<1>2. ChannelIsLevel  BY DEF ChannelIsLevel
<1>3. AbortIsFirst    BY DEF AbortIsFirst, AbortOnlyFirst
<1>4. ClosedOnce      BY DEF ClosedOnce, NoDoubleClose
<1>5. QED BY <1>1, <1>2, <1>3, <1>4 DEF IndInv

\* Every step of the handler, of its environment and of its caller preserves
\* the inductive invariant.
LEMMA NextIndInv == IndInv /\ [Next]_vars => IndInv'
<1> SUFFICES ASSUME IndInv, [Next]_vars PROVE IndInv'
  OBVIOUS
<1> USE ConstantsAssumption
    DEF IndInv, TypeOK, ChannelIsLevel, AbortIsFirst, AbortOnlyFirst,
        ClosedOnce, NoDoubleClose, shared, listenerV, callerV, env
<1>1. CASE DeliverSignal  BY <1>1 DEF DeliverSignal
<1>2. CASE PostAbort      BY <1>2 DEF PostAbort
<1>3. ASSUME NEW a \in Answers, Poll(a) PROVE IndInv'
  <2> USE <1>3 DEF Poll, Answers
  <2>1. TypeOK'
    <3>1. panicked' \in BOOLEAN /\ abortChannel' \in BOOLEAN  OBVIOUS
    <3>2. poller' \in {"select", "gone"}  OBVIOUS
    <3>3. QED BY <3>1, <3>2
  <2>2. ChannelIsLevel'  OBVIOUS
  <2>3. AbortIsFirst'    OBVIOUS
  <2>4. ClosedOnce'      OBVIOUS
  <2>5. QED BY <2>1, <2>2, <2>3, <2>4
<1>4. CASE PollerStop     BY <1>4 DEF PollerStop
<1>5. CASE ListenSignal
  <2> USE <1>5 DEF ListenSignal
  <2>1. TypeOK'
    <3>1. signalChannel' \in 0..1  OBVIOUS
    <3>2. QED BY <3>1
  <2>2. ChannelIsLevel'  OBVIOUS
  <2>3. AbortIsFirst'    OBVIOUS
  <2>4. ClosedOnce'      OBVIOUS
  <2>5. QED BY <2>1, <2>2, <2>3, <2>4
<1>6. CASE ListenAbort    BY <1>6 DEF ListenAbort
<1>7. CASE ListenStop     BY <1>7 DEF ListenStop
<1>8. CASE Escalate
  <2> USE <1>8 DEF Escalate
  <2>1. TypeOK'
    <3>1. panicked' \in BOOLEAN  OBVIOUS
    <3>2. level' \in Abstract!Levels  OBVIOUS
    <3>3. c' \in Nat  OBVIOUS
    <3>4. closed' \subseteq Nat  OBVIOUS
    <3>5. QED BY <3>1, <3>2, <3>3, <3>4
  <2>2. ChannelIsLevel'  OBVIOUS
  <2>3. AbortIsFirst'    OBVIOUS
  <2>4. ClosedOnce'      OBVIOUS
  <2>5. QED BY <2>1, <2>2, <2>3, <2>4
<1>9. CASE StatusRead     BY <1>9 DEF StatusRead, Snapshot
<1>10. ASSUME NEW a \in Answers, StatusCheck(a) PROVE IndInv'
  <2> USE <1>10 DEF StatusCheck, Answers, Interrupted
  <2>1. TypeOK'
    <3>1. panicked' \in BOOLEAN /\ requestAbortCheck' \in BOOLEAN
      OBVIOUS
    <3>2. caller' \in {"idle", "check", "wait", "again"}  OBVIOUS
    <3>3. QED BY <3>1, <3>2
  <2>2. ChannelIsLevel'  OBVIOUS
  <2>3. AbortIsFirst'    OBVIOUS
  <2>4. ClosedOnce'      OBVIOUS
  <2>5. QED BY <2>1, <2>2, <2>3, <2>4
<1>11. CASE StatusWait    BY <1>11 DEF StatusWait
<1>12. CASE Stop          BY <1>12 DEF Stop
<1>13. CASE UNCHANGED vars BY <1>13 DEF vars
<1>14. QED
  BY <1>1, <1>2, <1>3, <1>4, <1>5, <1>6, <1>7, <1>8, <1>9, <1>10, <1>11,
     <1>12, <1>13 DEF Next

\* So the invariant always holds.
LEMMA Inductive == Spec => []IndInv
  BY InitIndInv, NextIndInv, PTL DEF Spec

\* The state of the handler's goroutines and channels is well formed.
THEOREM TypeCorrect == Spec => []TypeOK
<1>1. IndInv => TypeOK  BY DEF IndInv
<1>2. QED BY <1>1, Inductive, PTL

\* No lost and no spurious wakeup, for any number of signals: the channel that
\* Status hands out is closed exactly when the level has risen since.
THEOREM NoLostWakeup == Spec => []WakeupExact
<1>1. IndInv => WakeupExact
  BY DEF IndInv, TypeOK, ChannelIsLevel, WakeupExact
<1>2. QED BY <1>1, Inductive, PTL

\* An abort by another process only ever is the first interrupt: the listener
\* drops the abort channel after any interrupt.
THEOREM AbortCountsOnce == Spec => []AbortOnlyFirst
<1>1. IndInv => AbortOnlyFirst  BY DEF IndInv, AbortIsFirst
<1>2. QED BY <1>1, Inductive, PTL

\* Neither Status nor the poller closes its channel a second time, which would
\* panic.
THEOREM NoPanic == Spec => []NoDoubleClose
<1>1. IndInv => NoDoubleClose  BY DEF IndInv, ClosedOnce
<1>2. QED BY <1>1, Inductive, PTL

\* Every step of the handler is a climb of the abstract levels or leaves
\* them alone.
THEOREM Refinement == Spec => ImplementsInterrupts
<1>1. Init => Abstract!InterruptsInit
  BY DEF Init, Abstract!InterruptsInit
<1>2. IndInv /\ [Next]_vars => [Abstract!InterruptsNext]_(Abstract!ivars)
  <2> SUFFICES ASSUME IndInv, [Next]_vars
               PROVE [Abstract!InterruptsNext]_(Abstract!ivars)
    OBVIOUS
  <2> USE DEF Abstract!ivars, shared
  <2>1. CASE Escalate
    <3> USE <2>1 DEF Escalate, IndInv, TypeOK, AbortIsFirst
    <3>1. CASE level = 3
      <4>1. cause = "signal" /\ interruptCause = "signal"
        BY <3>1
      <4>2. QED BY <3>1, <4>1
    <3>2. CASE level < 3 /\ interruptCause = "abort"
      BY <3>2 DEF Abstract!InterruptsNext, Abstract!Abort
    <3>3. CASE level < 3 /\ interruptCause = "signal"
      BY <3>3 DEF Abstract!InterruptsNext, Abstract!Signal
    <3>4. QED BY <3>1, <3>2, <3>3
  <2>2. CASE ~Escalate
    BY <2>2 DEF Next, DeliverSignal, PostAbort, Poll, PollerStop, ListenSignal,
       ListenAbort, ListenStop, StatusRead, StatusCheck, StatusWait, Stop, vars
  <2>3. QED BY <2>1, <2>2
<1>3. QED
  BY <1>1, <1>2, Inductive, PTL DEF Spec, ImplementsInterrupts,
     Abstract!InterruptsSpec
=============================================================================
