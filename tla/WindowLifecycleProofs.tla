------------------------ MODULE WindowLifecycleProofs ------------------------
(***************************************************************************)
(* Proofs about WindowLifecycle, for any set of servers and any number of  *)
(* launches.                                                               *)
(***************************************************************************)
EXTENDS WindowLifecycle, TLAPS

USE ServersAssumption

\* The servers behind the two invariants: the timer names a server or none, and
\* EXCEPT needs to know what phase is.
Shape ==
  /\ current \in Servers /\ restartTimer \in Servers \union {NoServer}
  /\ phase \in [Servers -> Phases]
  /\ timedOut \subseteq Servers /\ killed \subseteq Servers

IInv == Shape /\ RestartHasOneOwner /\ ForceHitsAStop

LEMMA InitIInv == Init => IInv
  BY DEF Init, IInv, Shape, Phases, RestartHasOneOwner, ForceHitsAStop

-----------------------------------------------------------------------------
(* What a step does to the servers ...                                     *)

\* How the phase of one server may change in a step.
Follows(s) ==
  \/ phase'[s] = phase[s]
  \/ phase[s] \in {"stopped", "backoff"} /\ phase'[s] \in {"stopped", "running"}
  \/ phase[s] = "running" /\ phase'[s] \in {"stopping", "stopped", "backoff"}
  \/ phase[s] = "stopping" /\ phase'[s] = "stopped" /\ s \notin timedOut' \union killed'

\* A step that does not concern the phases ends no stop.
ServersFollow ==
  /\ phase' \in [Servers -> Phases]
  /\ timedOut' \subseteq Servers /\ killed' \subseteq Servers
  /\ \A s \in Servers : Follows(s)
  /\ \A s \in timedOut' \union killed' : s \in timedOut \union killed \/ phase'[s] = "stopping"

LEMMA NoServerMoves == ASSUME IInv, UNCHANGED <<phase, timedOut, killed>> PROVE ServersFollow
  BY DEF IInv, Shape, ServersFollow, Follows

LEMMA Started ==
  ASSUME IInv, NEW s \in Servers, NEW result \in StartResults(s), Starts(s, result)
  PROVE  ServersFollow
  BY DEF IInv, Shape, StartResults, Starts, HasProcess, Phases, ServersFollow, Follows

LEMMA Stopping == ASSUME IInv, NEW set, Stops(set) PROVE ServersFollow
  BY DEF IInv, Shape, Stops, Phases, ServersFollow, Follows

LEMMA UserFollows == ASSUME IInv, UserStep PROVE ServersFollow
  <1>1. CASE ClickStart
    BY <1>1, Started DEF ClickStart, IInv, Shape
  <1>2. CASE ClickStop
    BY <1>2, Stopping, NoServerMoves DEF ClickStop, serverVars
  <1>3. CASE ClickRestart
    BY <1>3, Stopping DEF ClickRestart
  <1>4. CASE StopAll
    BY <1>4, Stopping DEF StopAll
  <1>5. ASSUME NEW s \in Servers, ForceStopChosen(s) PROVE ServersFollow
    BY <1>5 DEF ForceStopChosen, IInv, Shape, ServersFollow, Follows
  <1>6. ASSUME NEW s \in Servers, Select(s) PROVE ServersFollow
    BY <1>6, NoServerMoves DEF Select, serverVars
  <1>7. ASSUME NEW members \in SUBSET Servers, NetworkStart(members) PROVE ServersFollow
    BY <1>7 DEF NetworkStart, RunningUi, HasProcess, IInv, Shape, Phases, ServersFollow, Follows
  <1>8. ASSUME NEW members \in SUBSET Servers, NetworkStop(members) PROVE ServersFollow
    BY <1>8, Stopping DEF NetworkStop
  <1> QED
    BY <1>1, <1>2, <1>3, <1>4, <1>5, <1>6, <1>7, <1>8 DEF UserStep

LEMMA ServerFollows == ASSUME IInv, ServerStep PROVE ServersFollow
  <1>1. ASSUME NEW s \in Servers, Exit(s) PROVE ServersFollow
    BY <1>1 DEF Exit, PhaseAfterExit, HasProcess, IInv, Shape, Phases, ServersFollow, Follows
  <1>2. ASSUME NEW s \in Servers, Line(s) PROVE ServersFollow
    BY <1>2, NoServerMoves DEF Line, serverVars
  <1>3. ASSUME NEW s \in Servers, Deadline(s) PROVE ServersFollow
    BY <1>3 DEF Deadline, IInv, Shape, ServersFollow, Follows
  <1>4. ASSUME NEW s \in Servers, CrashRestart(s) PROVE ServersFollow
    BY <1>4, Started DEF CrashRestart
  <1>5. ASSUME NEW s \in Servers, CancelRecovery(s) PROVE ServersFollow
    BY <1>5 DEF CancelRecovery, IInv, Shape, Phases, ServersFollow, Follows
  <1> QED
    BY <1>1, <1>2, <1>3, <1>4, <1>5 DEF ServerStep

LEMMA NextFollows == ASSUME IInv, [Next]_vars PROVE ServersFollow
  <1>1. CASE UNCHANGED vars
    BY <1>1, NoServerMoves DEF vars, serverVars
  <1>2. CASE RestartAfterDelay
    <2>1. restartTimer \in Servers
      BY <1>2 DEF RestartAfterDelay, IInv, Shape
    <2> QED
      BY <1>2, <2>1, Started DEF RestartAfterDelay
  <1>3. CASE UpdateDetails \/ StartAfterDelay \/ \E s \in Servers : LateLine(s)
    BY <1>3, NoServerMoves DEF UpdateDetails, StartAfterDelay, LateLine, serverVars
  <1>4. CASE \E s \in Servers : AutoStart(s)
    BY <1>4, Started, NoServerMoves DEF AutoStart, serverVars
  <1> QED
    BY <1>1, <1>2, <1>3, <1>4, UserFollows, ServerFollows DEF Next

-----------------------------------------------------------------------------
(* ... and to the restart.                                                 *)

LEMMA RestartKept ==
  ASSUME RestartHasOneOwner, UNCHANGED restartVars PROVE RestartHasOneOwner'
  BY DEF RestartHasOneOwner, restartVars

\* Only three steps touch the restart, and of these the button and the exit
\* are not dispatched while the timer is armed.
LEMMA NextOwner == ASSUME IInv, [Next]_vars PROVE RestartHasOneOwner'
  <1>0. RestartHasOneOwner /\ current \in Servers
    BY DEF IInv, Shape
  <1>1. CASE RestartAfterDelay
    BY <1>0, <1>1 DEF RestartAfterDelay, RestartHasOneOwner
  <1>2. CASE restartTimer = NoServer /\ ClickRestart
    BY <1>0, <1>2 DEF ClickRestart, RestartHasOneOwner
  <1>3. ASSUME restartTimer = NoServer, NEW s \in Servers, Exit(s) PROVE RestartHasOneOwner'
    BY <1>0, <1>3 DEF Exit, ExitCarriesOutRestart, RestartHasOneOwner
  <1>4. CASE UNCHANGED restartVars
    BY <1>0, <1>4, RestartKept
  <1>5. CASE UNCHANGED vars
    BY <1>0, <1>5, RestartKept DEF vars
  <1>6. CASE UserStep /\ ~ClickRestart
    BY <1>4, <1>6 DEF UserStep, ClickStart, ClickStop, StopAll, ForceStopChosen, Select,
       NetworkStart, NetworkStop
  <1>7. ASSUME NEW s \in Servers,
               Line(s) \/ Deadline(s) \/ CrashRestart(s) \/ CancelRecovery(s) \/ LateLine(s)
                 \/ AutoStart(s)
        PROVE  RestartHasOneOwner'
    BY <1>4, <1>7 DEF Line, Deadline, CrashRestart, CancelRecovery, LateLine, AutoStart
  <1>8. CASE UpdateDetails \/ StartAfterDelay
    BY <1>4, <1>8 DEF UpdateDetails, StartAfterDelay
  <1> QED
    BY <1>1, <1>2, <1>3, <1>5, <1>6, <1>7, <1>8 DEF Next, ServerStep

LEMMA NextShape == ASSUME IInv, [Next]_vars PROVE Shape'
  <1>0. current \in Servers /\ restartTimer \in Servers \union {NoServer}
    BY DEF IInv, Shape
  <1>1. /\ phase' \in [Servers -> Phases]
        /\ timedOut' \subseteq Servers /\ killed' \subseteq Servers
    BY NextFollows DEF ServersFollow
  <1>2. current' \in Servers
    <2>1. ASSUME NEW s \in Servers, Select(s) PROVE current' \in Servers
      BY <2>1 DEF Select
    <2> QED
      BY <1>0, <2>1 DEF Next, vars, RestartAfterDelay, UpdateDetails, LateLine, UserStep, ServerStep,
         StartAfterDelay, AutoStart, ClickStart, ClickStop, ClickRestart, StopAll,
         ForceStopChosen, NetworkStart, NetworkStop, Exit, Line, Deadline, CrashRestart,
         CancelRecovery
  <1>3. restartTimer' \in Servers \union {NoServer}
    BY <1>0 DEF Next, vars, restartVars, RestartAfterDelay, UpdateDetails, LateLine, UserStep,
       ServerStep, StartAfterDelay, AutoStart, ClickStart, ClickStop, ClickRestart, StopAll,
       ForceStopChosen, Select, NetworkStart, NetworkStop, Exit, ExitCarriesOutRestart, Line,
       Deadline, CrashRestart, CancelRecovery
  <1> QED
    BY <1>1, <1>2, <1>3 DEF Shape

LEMMA NextForce == ASSUME IInv, [Next]_vars PROVE ForceHitsAStop'
  BY NextFollows DEF ServersFollow, Follows, IInv, Shape, ForceHitsAStop

LEMMA SpecIInv == Spec => []IInv
  <1>1. IInv /\ [Next]_vars => IInv'
    BY NextShape, NextOwner, NextForce DEF IInv
  <1> QED
    BY <1>1, InitIInv, PTL DEF Spec

-----------------------------------------------------------------------------
(* Theorems.                                                               *)

\* The flags of on_details_restart, the exit handler and restart_after_delay
\* agree in every state, whatever is selected, started or stopped meanwhile: a
\* restart is asked for exactly while the exit or the timer has it.
THEOREM RestartIsOwned == Spec => []RestartHasOneOwner
  <1>1. IInv => RestartHasOneOwner
    BY DEF IInv
  <1> QED
    BY <1>1, SpecIInv, PTL

\* However late "Force stop server?" is answered, only a process that was asked
\* to stop is killed or marked timed out.
THEOREM ForceIsForStops == Spec => []ForceHitsAStop
  <1>1. IInv => ForceHitsAStop
    BY DEF IInv
  <1> QED
    BY <1>1, SpecIInv, PTL

\* Each server goes through the phases that PumpkinServer is proved to keep to:
\* the window, with its shared flags and its network actions, adds none.
THEOREM WindowKeepsLifecycle == Spec => ServersKeepLifecycle
  <1>1. Init => \A s \in Servers : PhaseOf(s)!Init
    BY DEF Init, PhaseOf!Init
  <1>2. IInv /\ [Next]_vars => [\A s \in Servers : PhaseOf(s)!Next \/ UNCHANGED phase[s]]_vars
    <2> SUFFICES ASSUME IInv, [Next]_vars, NEW s \in Servers
                 PROVE  PhaseOf(s)!Next \/ UNCHANGED phase[s]
      OBVIOUS
    <2>1. Follows(s)
      BY NextFollows DEF ServersFollow
    <2> QED
      BY <2>1 DEF Follows, PhaseOf!Next, PhaseOf!Launch, PhaseOf!RequestStop,
         PhaseOf!CrashIntoBackoff, PhaseOf!ProcessEnds, PhaseOf!GiveUpRecovery
  <1> QED
    BY <1>1, <1>2, SpecIInv, PTL DEF Spec, ServersKeepLifecycle
=============================================================================
