--------------------------- MODULE WindowLifecycle ---------------------------
(***************************************************************************)
(* The window's side of starting, stopping and restarting servers:         *)
(* src/src/window-lifecycle.c, the part of on_log_line and update_details  *)
(* (window.c) that keeps the user interface in step with the servers, the  *)
(* automatic start at launch and the sensitivity of the buttons            *)
(* (window-server-actions.c).                                              *)
(*                                                                         *)
(* A server is seen through the phases of ServerLifecycle.  The window has *)
(* one set of bookkeeping variables (ui_state, user_stop_requested,        *)
(* restart_requested, ...) for all servers, whichever is selected, and a   *)
(* "running hint" per server that it maintains from log lines.             *)
(*                                                                         *)
(* Stops that an update makes and server maintenance are left to the       *)
(* modules of the update: here a start can fail for any reason.            *)
(***************************************************************************)
EXTENDS Naturals, FiniteSets

CONSTANTS
  Servers,        \* the servers of the store
  NoServer,       \* a timer that is not armed
  MaxLaunches     \* bound: processes launched in all

ASSUME ServersAssumption == Servers # {} /\ NoServer \notin Servers
ASSUME LaunchesAssumption == MaxLaunches \in Nat

VARIABLES
  phase,             \* per server, the phase of ServerLifecycle
  timedOut,          \* servers whose stop timed out
  killed,            \* servers whose process was killed by a forced stop
  late,              \* servers whose last process left unread output behind
  launches,          \* processes launched so far
  hint,              \* server_running_hints
  current,           \* self->current
  ui,                \* self->ui_state
  userStop,          \* self->user_stop_requested
  restartRequested,  \* self->restart_requested
  restartPending,    \* self->restart_pending
  restartTimer,      \* restart_delay_id: the server its context names, or NoServer
  startDelay,        \* self->start_delay_id # 0
  dialogs,           \* servers with an open "Force stop server?" dialog
  autoStarts,        \* servers whose automatic start is still to come
  asked              \* history: what was last asked of each server

serverVars == <<phase, timedOut, killed, late, launches>>
restartVars == <<restartRequested, restartPending, restartTimer>>
vars == <<serverVars, hint, current, ui, userStop, restartVars, startDelay,
          dialogs, autoStarts, asked>>

Phases == {"stopped", "running", "stopping", "backoff"}
UiStates == {"idle", "starting", "running", "stopping", "restarting", "error"}

-----------------------------------------------------------------------------
(* What the window can see.                                                *)

HasProcess(s) == phase[s] \in {"running", "stopping"}

\* server_is_running_ui
RunningUi(s) == HasProcess(s) \/ s \in hint

Busy == ui \in {"starting", "stopping", "restarting"}

\* The correction of ui_state at the top of update_details.
Reconciled(state, running, restarting) ==
  CASE running /\ state \in {"idle", "error"} -> "running"
    [] ~running /\ state \in {"running", "stopping"} /\ ~restarting -> "idle"
    [] OTHER -> state

\* A handler leaves ui_state at `state`.  A change of phase emits
\* state-changed, and for the selected server update_details corrects it.
UiBecomes(state, s) ==
  ui' = IF s = current /\ phase'[s] # phase[s]
          THEN Reconciled(state, phase'[s] \in {"running", "stopping"} \/ s \in hint',
                          restartRequested')
          ELSE state

-----------------------------------------------------------------------------
(* pumpkin_server_start and pumpkin_server_stop, as the window meets them. *)

\* TRUE without effect while running, refused while stopping, otherwise a
\* launch or a failed one, which has disarmed the crash restart already.
StartResults(s) ==
  IF HasProcess(s)
    THEN {[ok |-> phase[s] = "running", phase |-> phase[s]]}
    ELSE {[ok |-> FALSE, phase |-> "stopped"]} \union
         (IF launches < MaxLaunches THEN {[ok |-> TRUE, phase |-> "running"]} ELSE {})

\* The server's part of a start with that result.  A new process has new
\* streams: what the earlier one left behind is no longer shown.
Starts(s, result) ==
  LET launched == phase[s] # "running" /\ result.phase = "running" IN
  /\ phase' = [phase EXCEPT ![s] = result.phase]
  /\ launches' = launches + IF launched THEN 1 ELSE 0
  /\ late' = IF launched THEN late \ {s} ELSE late
  /\ UNCHANGED <<timedOut, killed>>

\* The server's part of a stop of the servers in set.
Stops(set) ==
  /\ phase' = [s \in Servers |->
                 IF s \in set /\ phase[s] = "running" THEN "stopping" ELSE phase[s]]
  /\ UNCHANGED <<timedOut, killed, late, launches>>

\* History: a start, or a stop of a process that was up.
AskedUp(s) == asked' = [asked EXCEPT ![s] = "up"]
AskedDown(set) ==
  asked' = [s \in Servers |-> IF s \in set /\ phase[s] = "running" THEN "down" ELSE asked[s]]

-----------------------------------------------------------------------------
(* Starting.                                                               *)

\* on_details_start, start_server_internal
ClickStart ==
  /\ ~RunningUi(current)
  /\ ui \notin {"starting", "stopping", "restarting", "running"}
  /\ \E result \in StartResults(current) :
       /\ Starts(current, result)
       /\ hint' = IF result.ok THEN hint \union {current} ELSE hint
       /\ userStop' = (userStop /\ ~result.ok)
       /\ startDelay' = (startDelay \/ result.ok)
       /\ ui' = IF result.ok THEN "starting" ELSE "error"
  /\ AskedUp(current)
  /\ UNCHANGED <<current, restartVars, dialogs, autoStarts>>

\* on_overview_network_start_all_clicked: start_server_internal for each member
\* that does not seem to run.  The start of any of them may fail.
NetworkStart(members) ==
  LET down == {s \in members : ~RunningUi(s)} IN
  /\ down # {}
  /\ \E started \in SUBSET down :
       /\ launches + Cardinality(started) <= MaxLaunches
       /\ phase' = [s \in Servers |-> IF s \in started THEN "running"
                                      ELSE IF s \in down THEN "stopped" ELSE phase[s]]
       /\ launches' = launches + Cardinality(started)
       /\ late' = late \ started
       /\ hint' = hint \union started
       /\ userStop' = (userStop /\ current \notin started)
       /\ ui' = IF current \in started THEN "running" ELSE ui
  /\ asked' = [s \in Servers |-> IF s \in down THEN "up" ELSE asked[s]]
  /\ UNCHANGED <<timedOut, killed, current, restartVars, startDelay, dialogs, autoStarts>>

\* pumpkin_window_schedule_auto_start_servers, when the program starts: a timer
\* for each server that is set to start with it.
ScheduleAutoStartServers == autoStarts \in SUBSET Servers

\* auto_start_server_timeout_cb
AutoStart(s) ==
  /\ s \in autoStarts
  /\ autoStarts' = autoStarts \ {s}
  /\ IF RunningUi(s)
       THEN UNCHANGED <<serverVars, hint, userStop, ui, asked>>
       ELSE /\ \E result \in StartResults(s) :
                 /\ Starts(s, result)
                 /\ hint' = IF result.ok THEN hint \union {s} ELSE hint
                 /\ userStop' = (userStop /\ ~(result.ok /\ s = current))
                 /\ ui' = IF s # current THEN ui ELSE IF result.ok THEN "running" ELSE "error"
            /\ AskedUp(s)
  /\ UNCHANGED <<current, restartVars, startDelay, dialogs>>

\* start_after_delay: two seconds after a start.
StartAfterDelay ==
  /\ startDelay
  /\ startDelay' = FALSE
  /\ ui' = IF RunningUi(current) /\ ui = "starting" THEN "running" ELSE ui
  /\ UNCHANGED <<serverVars, hint, current, userStop, restartVars, dialogs, autoStarts, asked>>

-----------------------------------------------------------------------------
(* Stopping.                                                               *)

\* on_details_stop.  After a timed-out stop it asks before it forces.
ClickStop ==
  /\ RunningUi(current)
  /\ IF current \in timedOut
       THEN /\ dialogs' = dialogs \union {current}
            /\ UNCHANGED <<serverVars, userStop, ui, asked>>
       ELSE /\ phase[current] # "stopping" /\ ui = "running"
            /\ Stops({current})
            /\ userStop' = TRUE
            /\ ui' = "stopping"
            /\ AskedDown({current})
            /\ UNCHANGED dialogs
  /\ hint' = hint \union {current}
  /\ UNCHANGED <<current, restartVars, startDelay, autoStarts>>

\* Seeded fault: the answer is not checked against the server's state.
ForceStopUnchecked(s) ==
  /\ s \in dialogs
  /\ dialogs' = dialogs \ {s}
  /\ timedOut' = timedOut \ {s}
  /\ killed' = killed \union {s}
  /\ hint' = hint \union {s}
  /\ UNCHANGED <<phase, late, launches, current, ui, userStop, restartVars, startDelay,
                 autoStarts, asked>>

\* on_force_stop_chosen: the answer to a dialog that may be out of date.
ForceStopChosen(s) ==
  /\ s \in dialogs
  /\ dialogs' = dialogs \ {s}
  /\ \E confirmed \in BOOLEAN :
       IF confirmed /\ phase[s] = "stopping"
         THEN /\ timedOut' = timedOut \ {s}
              /\ killed' = killed \union {s}
              /\ hint' = hint \union {s}
         ELSE UNCHANGED <<timedOut, killed, hint>>
  /\ UNCHANGED <<phase, late, launches, current, ui, userStop, restartVars, startDelay,
                 autoStarts, asked>>

\* on_overview_network_stop_all_clicked: stop_server_internal for each member
\* that seems to run.
NetworkStop(members) ==
  LET up == {s \in members : RunningUi(s)} IN
  /\ up # {}
  /\ Stops(up)
  /\ hint' = hint \union up
  /\ userStop' = (userStop \/ current \in up)
  /\ UNCHANGED <<restartVars, current, startDelay, dialogs, autoStarts>>
  /\ UiBecomes(ui, current)
  /\ AskedDown(up)

\* pumpkin_window_stop_all_servers
StopAll ==
  LET up == {s \in Servers : HasProcess(s)} IN
  /\ up # {}
  /\ Stops(up)
  /\ hint' = hint \union up
  /\ userStop' = (userStop \/ current \in up)
  /\ UNCHANGED <<restartVars, current, startDelay, dialogs, autoStarts>>
  /\ UiBecomes(ui, current)
  /\ AskedDown(up)

-----------------------------------------------------------------------------
(* Restarting.                                                             *)

\* on_details_restart.  Its button needs a server that runs, is not stopping
\* and is not busy.
ClickRestart ==
  /\ RunningUi(current)
  /\ phase[current] # "stopping"
  /\ ~Busy
  /\ restartRequested' = TRUE
  /\ restartPending' = (phase[current] = "running")
  /\ restartTimer' = IF phase[current] = "running" THEN NoServer ELSE current
  /\ Stops({current})
  /\ hint' = hint \union {current}
  /\ ui' = "restarting"
  /\ userStop' = TRUE
  /\ AskedUp(current)
  /\ UNCHANGED <<current, startDelay, dialogs, autoStarts>>

\* restart_after_delay
RestartAfterDelay ==
  LET s == restartTimer IN
  /\ s # NoServer
  /\ restartTimer' = NoServer
  /\ restartRequested' = FALSE
  /\ \E result \in StartResults(s) :
       /\ Starts(s, result)
       /\ hint' = IF result.ok THEN hint \union {s} ELSE hint
       /\ userStop' = (userStop /\ ~(result.ok /\ s = current))
       /\ ui' = IF s # current THEN ui ELSE IF result.ok THEN "running" ELSE "error"
  /\ UNCHANGED <<current, restartPending, startDelay, dialogs, autoStarts, asked>>

-----------------------------------------------------------------------------
(* What the servers do, and how on_log_line and on_server_state_changed    *)
(* follow it.                                                              *)

\* Seeded faults: an exit does not carry out the pending restart, or carries
\* it out and leaves it pending.
ExitForgetsRestart(s) == UNCHANGED restartVars

ExitKeepsPending(s) ==
  /\ restartTimer' = IF s = current /\ restartPending THEN s ELSE restartTimer
  /\ UNCHANGED <<restartRequested, restartPending>>

\* on_log_line, "Server process exited": a pending restart is carried out
\* when the selected server has exited.
ExitCarriesOutRestart(s) ==
  /\ restartTimer' = IF s = current /\ restartPending THEN s ELSE restartTimer
  /\ restartPending' = (restartPending /\ s # current)
  /\ UNCHANGED restartRequested

\* Seeded fault: the server schedules its recovery after a requested stop too.
RecoversAnyExit(s) == {"stopped", "backoff"}

\* process_wait_cb: an exit nobody asked for may schedule the crash restart.
PhaseAfterExit(s) == {"stopped"} \union IF phase[s] = "running" THEN {"backoff"} ELSE {}

\* The process ends by itself, in obedience to a stop, or killed.  Output
\* may still be in the pipe.
Exit(s) ==
  /\ HasProcess(s)
  /\ \E next \in PhaseAfterExit(s) : phase' = [phase EXCEPT ![s] = next]
  /\ timedOut' = timedOut \ {s}
  /\ killed' = killed \ {s}
  /\ late' \in {late, late \union {s}}
  /\ hint' = hint \ {s}
  /\ userStop' = (userStop /\ ~(s = current /\ ~restartRequested))
  /\ ExitCarriesOutRestart(s)
  /\ UiBecomes(IF s = current /\ ~restartRequested THEN "idle" ELSE ui, s)
  /\ UNCHANGED <<launches, current, startDelay, dialogs, autoStarts, asked>>

\* A line of the running process, perhaps one that says it has started.
Line(s) ==
  /\ HasProcess(s)
  /\ hint' = hint \union {s}
  /\ ui' \in {ui} \union IF s = current /\ ui = "starting" THEN {"running"} ELSE {}
  /\ UNCHANGED <<serverVars, current, userStop, restartVars, startDelay, dialogs, autoStarts, asked>>

\* A line of the process that ended (POSIX: the stream is still current).
LateLine(s) ==
  /\ s \in late
  /\ ~HasProcess(s)
  /\ late' = late \ {s}
  /\ hint' = hint \union {s}
  /\ UNCHANGED <<phase, timedOut, killed, launches, current, ui, userStop, restartVars,
                 startDelay, dialogs, autoStarts, asked>>

\* Seeded fault: the deadline of a stop does not fire.
DeadlineForgotten(s) == FALSE /\ UNCHANGED vars

\* stop_deadline_cb: the stop is marked timed out; its notice is a log line.
Deadline(s) ==
  /\ phase[s] = "stopping"
  /\ s \notin timedOut \union killed
  /\ timedOut' = timedOut \union {s}
  /\ hint' = hint \union {s}
  /\ UNCHANGED <<phase, killed, late, launches, current, ui, userStop, restartVars,
                 startDelay, dialogs, autoStarts, asked>>

\* auto_restart_cb.  The window is not told of a success except through the
\* server's signals; the error of a failure is emitted as a log line.
CrashRestart(s) ==
  /\ phase[s] = "backoff"
  /\ \E result \in StartResults(s) :
       /\ Starts(s, result)
       /\ hint' = IF result.ok THEN hint ELSE hint \union {s}
  /\ UNCHANGED <<current, userStop, restartVars, startDelay, dialogs, autoStarts, asked>>
  /\ IF phase'[s] = "running" THEN UiBecomes(ui, s) ELSE UNCHANGED ui

\* The crash restart is switched off in the settings while it is pending.
CancelRecovery(s) ==
  /\ phase[s] = "backoff"
  /\ phase' = [phase EXCEPT ![s] = "stopped"]
  /\ UNCHANGED <<timedOut, killed, late, launches, hint, current, ui, userStop, restartVars,
                 startDelay, dialogs, autoStarts, asked>>

-----------------------------------------------------------------------------
(* The selection and the refresh.                                          *)

\* select_server.  The restart, stop and start bookkeeping is kept.
Select(s) ==
  /\ s # current
  /\ current' = s
  /\ ui' = IF RunningUi(s) THEN "running" ELSE "idle"
  /\ UNCHANGED <<serverVars, hint, userStop, restartVars, startDelay, dialogs, autoStarts, asked>>

\* update_details, from a queued refresh.
UpdateDetails ==
  /\ ui' = Reconciled(ui, RunningUi(current), restartRequested)
  /\ UNCHANGED <<serverVars, hint, current, userStop, restartVars, startDelay, dialogs,
                 autoStarts, asked>>

-----------------------------------------------------------------------------
Init ==
  /\ phase = [s \in Servers |-> "stopped"]
  /\ timedOut = {} /\ killed = {} /\ late = {} /\ launches = 0
  /\ hint = {}
  /\ current \in Servers
  /\ ui = "idle"
  /\ userStop = FALSE /\ restartRequested = FALSE /\ restartPending = FALSE
  /\ restartTimer = NoServer /\ startDelay = FALSE
  /\ dialogs = {}
  /\ ScheduleAutoStartServers
  /\ asked = [s \in Servers |-> "down"]

UserStep ==
  \/ ClickStart
  \/ ClickStop
  \/ ClickRestart
  \/ StopAll
  \/ \E s \in Servers : ForceStopChosen(s) \/ Select(s)
  \/ \E members \in SUBSET Servers : NetworkStart(members) \/ NetworkStop(members)

ServerStep ==
  \E s \in Servers : Exit(s) \/ Line(s) \/ Deadline(s) \/ CrashRestart(s) \/ CancelRecovery(s)

\* The restart timer has no delay: only what is ready in the same turn of the
\* main loop comes before it.
Next ==
  \/ RestartAfterDelay
  \/ UpdateDetails
  \/ \E s \in Servers : LateLine(s)
  \/ restartTimer = NoServer /\ UserStep
  \/ restartTimer = NoServer /\ ServerStep
  \/ restartTimer = NoServer /\ StartAfterDelay
  \/ restartTimer = NoServer /\ \E s \in Servers : AutoStart(s)

\* Timers fire, queued refreshes run, the kernel carries out a kill.  Users
\* and processes are free.
Fairness ==
  /\ WF_vars(StartAfterDelay)
  /\ WF_vars(RestartAfterDelay)
  /\ WF_vars(UpdateDetails)
  /\ \A s \in Servers :
       /\ WF_vars(Deadline(s))
       /\ WF_vars(CrashRestart(s))
       /\ WF_vars(s \in killed /\ Exit(s))

Spec == Init /\ [][Next]_vars /\ Fairness

-----------------------------------------------------------------------------
(* Properties.                                                             *)

TypeOK ==
  /\ phase \in [Servers -> Phases]
  /\ timedOut \subseteq Servers /\ killed \subseteq Servers /\ late \subseteq Servers
  /\ launches \in 0 .. MaxLaunches
  /\ hint \subseteq Servers
  /\ current \in Servers
  /\ ui \in UiStates
  /\ userStop \in BOOLEAN /\ restartRequested \in BOOLEAN /\ restartPending \in BOOLEAN
  /\ restartTimer \in Servers \union {NoServer}
  /\ startDelay \in BOOLEAN
  /\ dialogs \subseteq Servers /\ autoStarts \subseteq Servers
  /\ asked \in [Servers -> {"up", "down"}]

\* A requested restart is in exactly one pair of hands: it waits for the
\* exit, or the timer is armed; and nothing of it is left once it is done.
\* Worlds and the map bridge cannot be changed while the flag stands
\* (can_modify, can_install_bridge), so a flag nobody owns locks them.
RestartHasOneOwner ==
  /\ restartRequested <=> (restartPending \/ restartTimer # NoServer)
  /\ ~(restartPending /\ restartTimer # NoServer)

\* "Force stop server?" is asked of a process that did not stop in time, but
\* may be answered when that process has gone and another one runs: only a
\* process that was asked to stop is ever killed or marked timed out.
ForceHitsAStop == \A s \in killed \union timedOut : phase[s] = "stopping"

\* Each server, seen alone, goes through the phases its object promises.
PhaseOf(s) == INSTANCE ServerLifecycle WITH phase <- phase[s], maintenance <- FALSE

ServersKeepLifecycle ==
  /\ \A s \in Servers : PhaseOf(s)!Init
  /\ [][\A s \in Servers : PhaseOf(s)!Next \/ UNCHANGED phase[s]]_vars

\* A restart that waits for the selected server to stop comes to an end the
\* user can see: a new process, an error, the offer to force the stop, or
\* the user has turned to another server.
RestartResolves ==
  \A s \in Servers :
    (restartPending /\ current = s /\ phase[s] = "stopping")
      ~> (current # s \/ phase[s] = "running" \/ ui = "error" \/ s \in timedOut)

\* "Starting" disables the buttons and does not stay for ever.
StartingEnds == ui = "starting" ~> ui # "starting"

\* Nor does "stopping", unless the process does not stop and force is offered.
StoppingEnds ==
  \A s \in Servers :
    (current = s /\ ui = "stopping" /\ phase[s] = "stopping")
      ~> (ui # "stopping" \/ current # s \/ s \in timedOut)

\* Both: the user gets the buttons back.
ButtonsComeBack == StartingEnds /\ StoppingEnds

\* "Keep the process visible as running until the exit callback confirms it"
\* (stop_server_internal): the hint bridges the time to the exit callback,
\* so it never stands for a server without a process.
HintMeansProcess == \A s \in hint : HasProcess(s)

\* README: "Normal stops do not trigger recovery."  A server the user has
\* stopped stays down until it is started, or restarted, by name.
StoppedStaysStopped ==
  [][\A s \in Servers :
       ~HasProcess(s) /\ phase'[s] = "running" => asked'[s] = "up"]_vars
=============================================================================
