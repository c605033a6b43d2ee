----------------------------- MODULE Interrupts -----------------------------
(***************************************************************************)
(* What the interrupt handler promises the suite: an interrupt level that  *)
(* climbs one rung at a time, the cause of the last climb, and a channel   *)
(* per rung.  Channel n is closed exactly when the level has climbed past  *)
(* the rung it was handed out on, so a reader that holds a channel is      *)
(* woken once per climb.  An abort that another parallel process asked for *)
(* counts only as the first interrupt.                                     *)
(***************************************************************************)
EXTENDS Naturals

VARIABLES
  level,   \* InterruptStatus.Level
  cause,   \* InterruptStatus.Cause
  c        \* InterruptStatus.Channel: its number; lower ones are closed

ivars == <<level, cause, c>>

Uninterrupted    == 0
CleanupAndReport == 1
ReportOnly       == 2
BailOut          == 3
Levels           == Uninterrupted .. BailOut
Causes           == {"invalid", "signal", "abort"}

InterruptsInit ==
  /\ level = Uninterrupted
  /\ cause = "invalid"
  /\ c = 0

\* The user (or the CLI, on the user's behalf) sends a signal.
Signal ==
  /\ level < BailOut
  /\ level' = level + 1
  /\ cause' = "signal"
  /\ c' = c + 1

\* Another process of the parallel run told the server to abort.
Abort ==
  /\ level = Uninterrupted
  /\ level' = CleanupAndReport
  /\ cause' = "abort"
  /\ c' = c + 1

InterruptsNext == Signal \/ Abort

InterruptsSpec == InterruptsInit /\ [][InterruptsNext]_ivars

\* A channel handed out earlier is closed.
IsClosed(ch) == ch < c
=============================================================================
