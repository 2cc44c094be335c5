--------------------------- MODULE ServerLifecycle ---------------------------
(***************************************************************************)
(* What a PumpkinServer object (src/src/server.c) promises to the rest of  *)
(* the program about the one process it manages, with no timer, stream or  *)
(* callback in sight.  A server is                                         *)
(*                                                                         *)
(*   "stopped"    no process, nothing pending                              *)
(*   "running"    a process, nobody asked it to stop                       *)
(*   "stopping"   a process that was asked to stop                         *)
(*   "backoff"    no process; the crash-restart timer will start one       *)
(*                                                                         *)
(* and it may be under maintenance (its files are being replaced).  The    *)
(* promises are in the shape of the actions: a process that was asked to   *)
(* stop is only ever followed by "stopped", never by a recovery; nothing   *)
(* starts a process while maintenance is on; maintenance never begins      *)
(* under a pending restart.  PumpkinServer implements this module.         *)
(***************************************************************************)
VARIABLES
  phase,        \* one of Phases
  maintenance   \* BOOLEAN: exclusive access to the server's files is granted

lifecycleVars == <<phase, maintenance>>

Phases == {"stopped", "running", "stopping", "backoff"}

Init ==
  /\ phase = "stopped"
  /\ maintenance = FALSE

\* A user, the automatic start at launch or the crash-restart timer.
Launch ==
  /\ phase \in {"stopped", "backoff"}
  /\ ~maintenance
  /\ phase' = "running"
  /\ UNCHANGED maintenance

RequestStop ==
  /\ phase = "running"
  /\ phase' = "stopping"
  /\ UNCHANGED maintenance

\* The process ended and nobody had asked for it: recovery is scheduled.
CrashIntoBackoff ==
  /\ phase = "running"
  /\ phase' = "backoff"
  /\ UNCHANGED maintenance

\* The process ended and stays down.
ProcessEnds ==
  /\ phase \in {"running", "stopping"}
  /\ phase' = "stopped"
  /\ UNCHANGED maintenance

\* The pending recovery is cancelled, or its start fails.
GiveUpRecovery ==
  /\ phase = "backoff"
  /\ phase' = "stopped"
  /\ UNCHANGED maintenance

TakeMaintenance ==
  /\ phase # "backoff"
  /\ ~maintenance
  /\ maintenance' = TRUE
  /\ UNCHANGED phase

ReleaseMaintenance ==
  /\ maintenance
  /\ maintenance' = FALSE
  /\ UNCHANGED phase

Next ==
  \/ Launch
  \/ RequestStop
  \/ CrashIntoBackoff
  \/ ProcessEnds
  \/ GiveUpRecovery
  \/ TakeMaintenance
  \/ ReleaseMaintenance

Spec == Init /\ [][Next]_lifecycleVars
=============================================================================
