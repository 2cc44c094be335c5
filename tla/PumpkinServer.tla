---------------------------- MODULE PumpkinServer ----------------------------
(***************************************************************************)
(* One PumpkinServer object of src/src/server.c: the child process it      *)
(* manages, the graceful-stop deadline, the asynchronous "stop" write, the *)
(* crash-restart timer, the maintenance flag and the session logs.         *)
(*                                                                         *)
(* Every action is one callback of the GLib main loop (they never overlap) *)
(* or one step of the operating-system process, which does.  A session is  *)
(* the number of a spawned process; None stands for a NULL pointer.  The   *)
(* stdin pipe exists exactly as long as `process` does (both are set by    *)
(* the spawn and cleared by the exit callback), so self->stdin_stream is   *)
(* not a variable of its own.  stdout and stderr are read by the same code *)
(* in the same way and are one stream here.                                *)
(***************************************************************************)
EXTENDS Naturals

CONSTANTS
  MaxSessions,          \* bound: processes spawned over the object's life
  MaxLines,             \* bound: output lines buffered in one process's pipe
  ClearsOutputOnExit    \* TRUE on Windows: the exit handler drops stdout_dis

ASSUME SessionsAssumption == MaxSessions \in Nat \ {0} /\ MaxLines \in Nat
ASSUME PlatformAssumption == ClearsOutputOnExit \in BOOLEAN

None == 0
Sessions == 1 .. MaxSessions
MaybeSession == Sessions \union {None}

VARIABLES
  spawned,          \* number of processes spawned so far
  process,          \* self->process: the session it holds, or None
  alive,            \* sessions whose operating-system process executes
  killed,           \* sessions that were sent an unconditional kill
  stopRequested,    \* self->stop_requested
  stopTimedOut,     \* self->stop_timed_out
  stopSource,       \* self->stop_source_id: the session the armed deadline is for
  stopCancellable,  \* self->stop_cancellable: session of its write, or None
  writes,           \* sessions whose asynchronous "stop\n" is in flight
  cancelled,        \* sessions whose stop write was cancelled
  autoRestart,      \* self->auto_restart
  restartSource,    \* self->restart_source_id # 0: the crash-restart timer
  startFailed,      \* the last launch attempt since the last exit failed
  maintenance,      \* self->maintenance_active
  logStream,        \* self->log_stream: the session whose log file, or None
  dis,              \* self->stdout_dis: the session it reads, or None
  readers,          \* sessions with a read_line_async pending
  readerLog,        \* OutputReader.log_stream of each session's reader
  output,           \* lines a process wrote that its reader has not taken
  logs,             \* <<log, writer>>: a record about writer is in log's file
  console           \* writers of the log-line signals since session-started

procVars == <<spawned, process, alive, killed>>
stopVars == <<stopRequested, stopTimedOut, stopSource, stopCancellable, writes, cancelled>>
restartVars == <<autoRestart, restartSource, startFailed>>
outputVars == <<logStream, dis, readers, readerLog, output, logs, console>>
vars == <<procVars, stopVars, restartVars, maintenance, outputVars>>

-----------------------------------------------------------------------------
(* Accessors.                                                              *)

Running == process # None

Stopping == stopRequested /\ Running

-----------------------------------------------------------------------------
(* Helpers shared by several handlers.                                     *)

\* Seeded fault: the deadline of an old stop stays armed.
ClearStopRequestKeepsTimer ==
  /\ UNCHANGED stopSource
  /\ cancelled' = cancelled \union ({stopCancellable} \ {None})
  /\ stopCancellable' = None
  /\ stopTimedOut' = FALSE

\* clear_stop_request: drop the deadline, cancel the pending write, forget
\* that the deadline passed.
ClearStopRequest ==
  /\ stopSource' = None
  /\ cancelled' = cancelled \union ({stopCancellable} \ {None})
  /\ stopCancellable' = None
  /\ stopTimedOut' = FALSE

\* append_log_line / log_session_event: a record about session s goes to
\* whatever file self->log_stream points at; without one it is dropped.
Archived(s) == IF logStream = None THEN logs ELSE logs \union {<<logStream, s>>}

\* emit_server_notice: the record is archived and shown.
Notice(s) ==
  /\ logs' = Archived(s)
  /\ console' = console \union {s}

-----------------------------------------------------------------------------
(* Starting.                                                               *)

\* The binary is missing, the configuration cannot be written or the spawn
\* fails: the earlier stop request and restart timer are already gone.
LaunchFails ==
  /\ ClearStopRequest
  /\ stopRequested' = FALSE
  /\ restartSource' = FALSE
  /\ startFailed' = TRUE
  /\ UNCHANGED <<procVars, writes, autoRestart, maintenance, outputVars>>

\* begin_log_session: forget the old log file, try to open a new one, record
\* the start and tell attached consoles to reset before any output arrives.
BeginLogSession(s) ==
  \E opened \in BOOLEAN :
    LET log == IF opened THEN s ELSE None IN
      /\ logStream' = log
      /\ logs' = IF opened THEN logs \union {<<s, s>>} ELSE logs
      /\ readerLog' = [readerLog EXCEPT ![s] = log]
      /\ console' = IF opened THEN {} ELSE {s}

LaunchSpawns ==
  LET s == spawned + 1 IN
  /\ s \in Sessions
  /\ ClearStopRequest
  /\ stopRequested' = FALSE
  /\ restartSource' = FALSE
  /\ startFailed' = FALSE
  /\ spawned' = s
  /\ process' = s
  /\ alive' = alive \union {s}
  /\ BeginLogSession(s)
  /\ dis' = s
  /\ readers' = readers \union {s}
  /\ UNCHANGED <<killed, writes, autoRestart, maintenance, output>>

\* pumpkin_server_start past its early returns.
Launch == LaunchFails \/ LaunchSpawns

\* Seeded faults: the two early returns of pumpkin_server_start, dropped.
StartWhileRunning ==
  /\ ~maintenance
  /\ ~Stopping
  /\ Launch

StartDuringMaintenance ==
  /\ ~Stopping
  /\ ~Running
  /\ Launch

\* pumpkin_server_start called by a user, a network or the automatic start.
\* Refused under maintenance or while stopping; a no-op while running.
Start ==
  /\ ~maintenance
  /\ ~Stopping
  /\ ~Running
  /\ Launch

\* auto_restart_cb: the crash-restart timer fires.  A start refused because
\* of maintenance only logs: the recovery is lost.
AutoRestartCb ==
  /\ restartSource
  /\ \/ /\ autoRestart /\ ~stopRequested
        /\ ~maintenance /\ ~Running
        /\ Launch
     \/ /\ ~(autoRestart /\ ~stopRequested /\ ~maintenance /\ ~Running)
        /\ restartSource' = FALSE
        /\ UNCHANGED <<procVars, stopVars, autoRestart, startFailed, maintenance, outputVars>>

-----------------------------------------------------------------------------
(* Stopping.                                                               *)

\* pumpkin_server_stop: cancels a pending restart in any case; arms the
\* deadline and starts the asynchronous write only for the first request
\* made of a running process.
StopAgain ==
  /\ ~Running \/ stopRequested
  /\ stopRequested' = TRUE
  /\ restartSource' = FALSE
  /\ UNCHANGED <<procVars, stopTimedOut, stopSource, stopCancellable, writes, cancelled,
                 autoRestart, startFailed, maintenance, outputVars>>

StopFirst ==
  /\ Running
  /\ ~stopRequested
  /\ stopRequested' = TRUE
  /\ restartSource' = FALSE
  /\ stopCancellable' = process
  /\ stopSource' = process
  /\ writes' = writes \union {process}
  /\ Notice(process)
  /\ UNCHANGED <<procVars, stopTimedOut, cancelled, autoRestart, startFailed, maintenance,
                 logStream, dis, readers, readerLog, output>>

Stop == StopAgain \/ StopFirst

\* Seeded fault: the process is not killed after all.
KillForgotten == UNCHANGED killed

\* g_subprocess_force_exit / TerminateProcess
Kill == killed' = killed \union {process}

\* pumpkin_server_force_stop: a stop, after which a running process loses its
\* deadline and is killed.
ForceStop ==
  /\ Running
  /\ stopRequested' = TRUE
  /\ restartSource' = FALSE
  /\ writes' = IF stopRequested THEN writes ELSE writes \union {process}
  /\ stopSource' = None
  /\ stopTimedOut' = FALSE
  /\ stopCancellable' = None
  /\ cancelled' = cancelled \union ({IF stopRequested THEN stopCancellable ELSE process} \ {None})
  /\ Notice(process)
  /\ Kill
  /\ UNCHANGED <<spawned, process, alive, autoRestart, startFailed, maintenance,
                 logStream, dis, readers, readerLog, output>>

\* stop_deadline_cb: 30 seconds passed.  The write is cancelled but stays
\* the current one; nothing is killed without the user's confirmation.
StopDeadline ==
  /\ stopSource # None
  /\ stopSource' = None
  /\ IF Running
       THEN /\ stopTimedOut' = TRUE
            /\ cancelled' = cancelled \union ({stopCancellable} \ {None})
            /\ Notice(process)
       ELSE UNCHANGED <<stopTimedOut, cancelled, logs, console>>
  /\ UNCHANGED <<procVars, stopRequested, stopCancellable, writes, restartVars, maintenance,
                 logStream, dis, readers, readerLog, output>>

\* Seeded fault: the failed write of an earlier session counts too.
StopWriteFailedOnAnyPipe(s, result) == result = "error" /\ Stopping

\* An error that is not the cancellation, on the pipe of the process that is
\* being stopped.
StopWriteFailed(s, result) == result = "error" /\ process = s /\ Stopping

\* stop_written_cb for the write of session s.
StopWritten(s) ==
  /\ s \in writes
  /\ writes' = writes \ {s}
  /\ \E result \in {"ok", "error"} \union (IF s \in cancelled THEN {"cancelled"} ELSE {}) :
       IF StopWriteFailed(s, result)
         THEN stopTimedOut' = TRUE /\ Notice(s)
         ELSE UNCHANGED <<stopTimedOut, logs, console>>
  /\ UNCHANGED <<procVars, stopRequested, stopSource, stopCancellable, cancelled, restartVars,
                 maintenance, logStream, dis, readers, readerLog, output>>

\* pumpkin_server_set_auto_restart: turning it off cancels a pending restart.
SetAutoRestart(enabled) ==
  /\ autoRestart' = enabled
  /\ restartSource' = (restartSource /\ enabled)
  /\ UNCHANGED <<procVars, stopVars, startFailed, maintenance, outputVars>>

-----------------------------------------------------------------------------
(* Maintenance: exclusive access to the server's files.                    *)

\* Seeded fault: maintenance may begin under a pending restart.
BeginMaintenanceAnytime ==
  /\ ~maintenance
  /\ maintenance' = TRUE
  /\ UNCHANGED <<procVars, stopVars, restartVars, outputVars>>

\* pumpkin_server_begin_maintenance
BeginMaintenance ==
  /\ ~restartSource
  /\ ~maintenance
  /\ maintenance' = TRUE
  /\ UNCHANGED <<procVars, stopVars, restartVars, outputVars>>

\* pumpkin_server_end_maintenance
EndMaintenance ==
  /\ maintenance
  /\ maintenance' = FALSE
  /\ UNCHANGED <<procVars, stopVars, restartVars, outputVars>>

-----------------------------------------------------------------------------
(* The operating-system process and its output.                            *)

\* The process of session s writes a line to its pipe.
ProcessWritesLine(s) ==
  /\ s \in alive
  /\ output[s] < MaxLines
  /\ output' = [output EXCEPT ![s] = @ + 1]
  /\ UNCHANGED <<procVars, stopVars, restartVars, maintenance, logStream, dis, readers,
                 readerLog, logs, console>>

\* The process ends: it crashes, obeys the stop command or was killed.
ProcessDies(s) ==
  /\ s \in alive
  /\ alive' = alive \ {s}
  /\ UNCHANGED <<spawned, process, killed, stopVars, restartVars, maintenance, outputVars>>

\* Seeded fault: a requested stop is recovered from like a crash.
RecoveryIgnoresStop == autoRestart

\* Whether the exit that was just noticed schedules the crash restart.
RecoveryWanted == autoRestart /\ ~stopRequested

\* process_wait_cb (POSIX) and pumpkin_server_handle_exit (Windows): the end
\* of the process is noticed.  Only an exit nobody asked for schedules the
\* restart.  On POSIX the output stream stays the current one.
ProcessExitCb ==
  /\ Running
  /\ process \notin alive
  /\ ClearStopRequest
  /\ process' = None
  /\ restartSource' = RecoveryWanted
  /\ startFailed' = FALSE
  /\ Notice(process)
  /\ logStream' = None
  /\ dis' = IF ClearsOutputOnExit THEN None ELSE dis
  /\ UNCHANGED <<spawned, alive, killed, stopRequested, writes, autoRestart, maintenance,
                 readers, readerLog, output>>

\* Seeded fault: late output goes to the server's current log file.
CurrentFile(s) == logStream

\* The file that the reader of session s was given when it was created.
ReaderFile(s) == readerLog[s]

\* The stream of session s is still the server's current one.
Shown(s) == dis = s

\* read_line_cb with a line: it is archived through the reader's own log and
\* shown only if the stream is still the server's current one.
ReadLine(s) ==
  /\ s \in readers
  /\ output[s] > 0
  /\ output' = [output EXCEPT ![s] = @ - 1]
  /\ logs' = IF ReaderFile(s) = None THEN logs ELSE logs \union {<<ReaderFile(s), s>>}
  /\ console' = IF Shown(s) THEN console \union {s} ELSE console
  /\ UNCHANGED <<procVars, stopVars, restartVars, maintenance, logStream, dis, readers, readerLog>>

\* read_line_cb at end of file.
ReadEof(s) ==
  /\ s \in readers
  /\ s \notin alive
  /\ output[s] = 0
  /\ readers' = readers \ {s}
  /\ readerLog' = [readerLog EXCEPT ![s] = None]
  /\ UNCHANGED <<procVars, stopVars, restartVars, maintenance, logStream, dis, output, logs, console>>

-----------------------------------------------------------------------------
Init ==
  /\ spawned = 0 /\ process = None /\ alive = {} /\ killed = {}
  /\ stopRequested = FALSE /\ stopTimedOut = FALSE /\ stopSource = None
  /\ stopCancellable = None /\ writes = {} /\ cancelled = {}
  /\ autoRestart \in BOOLEAN /\ restartSource = FALSE /\ startFailed = FALSE
  /\ maintenance = FALSE
  /\ logStream = None /\ dis = None /\ readers = {}
  /\ readerLog = [s \in Sessions |-> None]
  /\ output = [s \in Sessions |-> 0]
  /\ logs = {} /\ console = {}

Next ==
  \/ Start
  \/ AutoRestartCb
  \/ Stop
  \/ ForceStop
  \/ StopDeadline
  \/ BeginMaintenance
  \/ EndMaintenance
  \/ ProcessExitCb
  \/ \E enabled \in BOOLEAN : SetAutoRestart(enabled)
  \/ \E s \in Sessions :
       \/ StopWritten(s)
       \/ ProcessWritesLine(s)
       \/ ProcessDies(s)
       \/ ReadLine(s)
       \/ ReadEof(s)

\* The main loop dispatches what is ready (a due timer, a reaped child, data
\* in a pipe) and the kernel carries out a kill.  Users, crashes and the
\* process's own decision to stop are not fair.
Fairness ==
  /\ WF_vars(AutoRestartCb)
  /\ WF_vars(StopDeadline)
  /\ WF_vars(ProcessExitCb)
  /\ \A s \in Sessions :
       /\ WF_vars(ReadLine(s))
       /\ WF_vars(ReadEof(s))
       /\ WF_vars(s \in killed /\ ProcessDies(s))

Spec == Init /\ [][Next]_vars

FairSpec == Spec /\ Fairness

-----------------------------------------------------------------------------
(* Properties.                                                             *)

TypeOK ==
  /\ spawned \in 0 .. MaxSessions
  /\ process \in MaybeSession
  /\ alive \subseteq Sessions /\ killed \subseteq Sessions
  /\ stopRequested \in BOOLEAN /\ stopTimedOut \in BOOLEAN
  /\ stopSource \in MaybeSession /\ stopCancellable \in MaybeSession
  /\ writes \subseteq Sessions /\ cancelled \subseteq Sessions
  /\ autoRestart \in BOOLEAN /\ restartSource \in BOOLEAN /\ startFailed \in BOOLEAN
  /\ maintenance \in BOOLEAN
  /\ logStream \in MaybeSession /\ dis \in MaybeSession
  /\ readers \subseteq Sessions
  /\ readerLog \in [Sessions -> MaybeSession]
  /\ output \in [Sessions -> Nat]
  /\ logs \subseteq Sessions \X Sessions
  /\ console \subseteq Sessions

\* Whatever order exits, timers, stops and starts come in, the only process
\* that may be executing is the one the object holds: two servers never run
\* in one data directory.
AtMostOneProcess == alive \subseteq {process}

\* The deadline, the cancellable and the timed-out mark of a stop belong to
\* the process that is being stopped: none of them outlives it to act on the
\* next session.
StopBookkeeping ==
  /\ stopSource # None => stopSource = process /\ stopRequested
  /\ stopCancellable # None => stopCancellable = process /\ stopRequested
  /\ stopTimedOut => Stopping

\* README: "Normal stops do not trigger recovery."  A pending restart means
\* the last exit was not asked for, nobody has asked for a stop since, and
\* recovery is still switched on.
NormalStopsDoNotRecover ==
  restartSource => ~Running /\ ~stopRequested /\ autoRestart

\* "Late output must stay in its original session, even across a rapid
\* restart" (read_line_cb), and so must the program's own records: a log
\* file only holds records of the process it was opened for.
LogKeepsItsSession == \A record \in logs : record[1] = record[2]

\* "Reset attached consoles before any output from the new process is
\* delivered" (begin_log_session): between two resets a console is shown
\* the output of one process only.
ConsoleShowsOneSession == console \subseteq {spawned}

\* Both: no output and no record of a session ends up in another one.
SessionsKeptApart == LogKeepsItsSession /\ ConsoleShowsOneSession

\* A stop is only ever marked timed out by the deadline or by the failed
\* write of the very process being stopped.
TimeoutIsOfThisStop ==
  [][stopTimedOut' /\ ~stopTimedOut =>
       \/ stopSource = process /\ stopSource' = None
       \/ process \in writes \ writes']_vars

\* The mapping to the abstract life cycle.
Phase ==
  CASE Stopping -> "stopping"
    [] Running /\ ~stopRequested -> "running"
    [] ~Running /\ restartSource -> "backoff"
    [] OTHER -> "stopped"

Lifecycle == INSTANCE ServerLifecycle WITH phase <- Phase

\* The object keeps every promise of ServerLifecycle.
ImplementsLifecycle == Lifecycle!Spec

\* A requested stop never hangs silently: the process exits, or the user is
\* told that it has not and is offered to force it.
StopResolves == Stopping ~> (~Running \/ stopTimedOut)

\* README: "New servers restart four seconds after an unexpected exit."
\* begin_maintenance refuses a pending restart so that the recovery cannot
\* be swallowed; it ends with a process, or with a reason not to have one.
CrashRecovers ==
  (restartSource /\ ~maintenance)
    ~> (Running \/ stopRequested \/ ~autoRestart \/ startFailed)
=============================================================================
