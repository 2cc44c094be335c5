------------------------- MODULE PumpkinServerProofs -------------------------
(***************************************************************************)
(* Proofs about PumpkinServer, for every number of sessions, every pipe    *)
(* capacity and both platforms.  The inductive invariant IInv adds to the  *)
(* checked invariants what makes them inductive: the held process is the   *)
(* last one spawned, the current log file and the current output stream    *)
(* are that process's, and each reader holds its own session's file.       *)
(***************************************************************************)
EXTENDS PumpkinServer, TLAPS

\* What the object's pointers have to do with the last spawned process.
Pointers ==
  /\ process \in {None, spawned}
  /\ logStream \in {None, process}
  /\ dis \in {None, spawned}
  /\ \A s \in Sessions : readerLog[s] \in {None, s}

IInv ==
  /\ TypeOK
  /\ Pointers
  /\ AtMostOneProcess
  /\ StopBookkeeping
  /\ NormalStopsDoNotRecover
  /\ LogKeepsItsSession
  /\ ConsoleShowsOneSession

-----------------------------------------------------------------------------
(* The invariant, action by action.                                        *)

LEMMA InitIInv == Init => IInv
<1> SUFFICES ASSUME Init PROVE IInv
  OBVIOUS
<1> USE SessionsAssumption DEF Init, MaybeSession, Sessions, None
<1>1. TypeOK
  <2>1. /\ spawned \in 0 .. MaxSessions /\ process \in MaybeSession
        /\ stopSource \in MaybeSession /\ stopCancellable \in MaybeSession
        /\ logStream \in MaybeSession /\ dis \in MaybeSession
        /\ readerLog \in [Sessions -> MaybeSession]
        /\ output \in [Sessions -> Nat]
    OBVIOUS
  <2>2. /\ alive \subseteq Sessions /\ killed \subseteq Sessions
        /\ writes \subseteq Sessions /\ cancelled \subseteq Sessions
        /\ readers \subseteq Sessions
        /\ logs \subseteq Sessions \X Sessions
        /\ console \subseteq Sessions
    OBVIOUS
  <2>3. QED
    BY <2>1, <2>2 DEF TypeOK
<1>2. Pointers /\ AtMostOneProcess
  BY DEF Pointers, AtMostOneProcess
<1>3. StopBookkeeping /\ NormalStopsDoNotRecover
  BY DEF StopBookkeeping, NormalStopsDoNotRecover, Stopping, Running
<1>4. LogKeepsItsSession /\ ConsoleShowsOneSession
  BY DEF LogKeepsItsSession, ConsoleShowsOneSession
<1>5. QED
  BY <1>1, <1>2, <1>3, <1>4 DEF IInv

\* A launch, successful or not, from a state with no process.
LEMMA LaunchKeepsIInv ==
  ASSUME IInv, ~Running, Launch
  PROVE  IInv'
<1> USE SessionsAssumption DEF IInv, Running, MaybeSession, Sessions, None
<1>1. CASE LaunchFails
  <2>1. TypeOK'
    BY <1>1 DEF LaunchFails, ClearStopRequest, TypeOK, procVars, outputVars
  <2>2. Pointers' /\ AtMostOneProcess'
    BY <1>1 DEF LaunchFails, Pointers, AtMostOneProcess, procVars, outputVars
  <2>3. StopBookkeeping' /\ NormalStopsDoNotRecover'
    BY <1>1 DEF LaunchFails, ClearStopRequest, StopBookkeeping, NormalStopsDoNotRecover, Stopping
  <2>4. LogKeepsItsSession' /\ ConsoleShowsOneSession'
    BY <1>1 DEF LaunchFails, LogKeepsItsSession, ConsoleShowsOneSession, procVars, outputVars
  <2>5. QED
    BY <2>1, <2>2, <2>3, <2>4
<1>2. CASE LaunchSpawns
  <2>1. /\ spawned + 1 \in Sessions /\ spawned + 1 # 0
        /\ spawned' = spawned + 1 /\ process' = spawned + 1
        /\ alive' = alive \union {spawned + 1}
        /\ dis' = spawned + 1 /\ readers' = readers \union {spawned + 1}
    BY <1>2 DEF LaunchSpawns, TypeOK
  <2>2. PICK opened \in BOOLEAN :
          LET s == spawned + 1 IN
          /\ logStream' = (IF opened THEN s ELSE None)
          /\ logs' = (IF opened THEN logs \union {<<s, s>>} ELSE logs)
          /\ readerLog' = [readerLog EXCEPT ![s] = IF opened THEN s ELSE None]
          /\ console' = (IF opened THEN {} ELSE {s})
    BY <1>2 DEF LaunchSpawns, BeginLogSession
  <2>3. TypeOK'
    <3>1. /\ logStream' \in MaybeSession
          /\ readerLog' \in [Sessions -> MaybeSession]
          /\ console' \subseteq Sessions
          /\ dis' \in MaybeSession
      BY <2>1, <2>2 DEF TypeOK
    <3>2. logs' \subseteq Sessions \X Sessions
      BY <2>1, <2>2 DEF TypeOK
    <3>3. /\ spawned' \in 0 .. MaxSessions /\ process' \in MaybeSession
          /\ alive' \subseteq Sessions /\ readers' \subseteq Sessions
      BY <2>1 DEF TypeOK
    <3>4. /\ stopRequested' \in BOOLEAN /\ stopTimedOut' \in BOOLEAN
          /\ stopSource' \in MaybeSession /\ stopCancellable' \in MaybeSession
          /\ killed' \subseteq Sessions
          /\ writes' \subseteq Sessions /\ cancelled' \subseteq Sessions
          /\ autoRestart' \in BOOLEAN /\ restartSource' \in BOOLEAN /\ startFailed' \in BOOLEAN
          /\ maintenance' \in BOOLEAN
          /\ output' \in [Sessions -> Nat]
      BY <1>2 DEF LaunchSpawns, ClearStopRequest, TypeOK
    <3>5. QED
      BY <3>1, <3>2, <3>3, <3>4 DEF TypeOK
  <2>4. Pointers'
    <3>1. \A s \in Sessions : readerLog'[s] \in {None, s}
      BY <2>1, <2>2 DEF TypeOK, Pointers
    <3>2. QED
      BY <2>1, <2>2, <3>1 DEF Pointers
  <2>5. AtMostOneProcess'
    BY <2>1 DEF AtMostOneProcess, TypeOK
  <2>6. StopBookkeeping' /\ NormalStopsDoNotRecover'
    BY <1>2 DEF LaunchSpawns, ClearStopRequest, StopBookkeeping, NormalStopsDoNotRecover, Stopping
  <2>7. LogKeepsItsSession' /\ ConsoleShowsOneSession'
    BY <2>1, <2>2 DEF LogKeepsItsSession, ConsoleShowsOneSession, TypeOK
  <2>8. QED
    BY <2>3, <2>4, <2>5, <2>6, <2>7
<1>3. QED
  BY <1>1, <1>2 DEF Launch

\* A record about the held process goes to that process's file and console.
LEMMA NoticeKeepsLogs ==
  ASSUME IInv, Running, Notice(process)
  PROVE  /\ logs' \subseteq Sessions \X Sessions
         /\ console' \subseteq Sessions
         /\ \A record \in logs' : record[1] = record[2]
         /\ console' \subseteq {spawned}
  BY DEF IInv, TypeOK, Pointers, LogKeepsItsSession, ConsoleShowsOneSession, Running, Notice,
     Archived, MaybeSession, Sessions, None

LEMMA StopKeepsIInv ==
  ASSUME IInv, Stop \/ ForceStop \/ StopDeadline
  PROVE  IInv'
<1> USE SessionsAssumption DEF IInv, MaybeSession, Sessions, None
<1>1. CASE StopAgain
  <2>1. TypeOK' /\ Pointers' /\ AtMostOneProcess'
    BY <1>1 DEF StopAgain, TypeOK, Pointers, AtMostOneProcess, procVars, outputVars
  <2>2. StopBookkeeping' /\ NormalStopsDoNotRecover'
    BY <1>1 DEF StopAgain, StopBookkeeping, NormalStopsDoNotRecover, Stopping, Running, procVars
  <2>3. LogKeepsItsSession' /\ ConsoleShowsOneSession'
    BY <1>1 DEF StopAgain, LogKeepsItsSession, ConsoleShowsOneSession, procVars, outputVars
  <2>4. QED
    BY <2>1, <2>2, <2>3
<1>2. CASE StopFirst
  <2>1. /\ logs' \subseteq Sessions \X Sessions /\ console' \subseteq Sessions
        /\ LogKeepsItsSession'
        /\ console' \subseteq {spawned}
    BY <1>2, NoticeKeepsLogs DEF StopFirst, LogKeepsItsSession
  <2>2. TypeOK' /\ Pointers' /\ AtMostOneProcess'
    BY <1>2, <2>1 DEF StopFirst, TypeOK, Pointers, AtMostOneProcess, procVars, Running
  <2>3. StopBookkeeping' /\ NormalStopsDoNotRecover' /\ ConsoleShowsOneSession'
    BY <1>2, <2>1 DEF StopFirst, StopBookkeeping, NormalStopsDoNotRecover, ConsoleShowsOneSession,
       Stopping, Running, procVars
  <2>4. QED
    BY <2>1, <2>2, <2>3
<1>3. CASE ForceStop
  <2>1. /\ logs' \subseteq Sessions \X Sessions /\ console' \subseteq Sessions
        /\ LogKeepsItsSession'
        /\ console' \subseteq {spawned}
    BY <1>3, NoticeKeepsLogs DEF ForceStop, LogKeepsItsSession
  <2>2. TypeOK'
    BY <1>3, <2>1 DEF ForceStop, Kill, TypeOK, Running
  <2>3. Pointers' /\ AtMostOneProcess' /\ ConsoleShowsOneSession'
    BY <1>3, <2>1 DEF ForceStop, Pointers, AtMostOneProcess, ConsoleShowsOneSession
  <2>4. StopBookkeeping' /\ NormalStopsDoNotRecover'
    BY <1>3 DEF ForceStop, StopBookkeeping, NormalStopsDoNotRecover, Stopping, Running
  <2>5. QED
    BY <2>1, <2>2, <2>3, <2>4
<1>4. CASE StopDeadline
  <2>1. Running
    BY <1>4 DEF StopDeadline, StopBookkeeping, Running
  <2>2. /\ logs' \subseteq Sessions \X Sessions /\ console' \subseteq Sessions
        /\ LogKeepsItsSession'
        /\ console' \subseteq {spawned}
    BY <1>4, <2>1, NoticeKeepsLogs DEF StopDeadline, LogKeepsItsSession
  <2>3. TypeOK'
    BY <1>4, <2>1, <2>2 DEF StopDeadline, TypeOK, procVars, restartVars
  <2>4. Pointers' /\ AtMostOneProcess' /\ ConsoleShowsOneSession'
    BY <1>4, <2>2 DEF StopDeadline, Pointers, AtMostOneProcess, ConsoleShowsOneSession, procVars
  <2>5. StopBookkeeping' /\ NormalStopsDoNotRecover'
    BY <1>4, <2>1 DEF StopDeadline, StopBookkeeping, NormalStopsDoNotRecover, Stopping, Running,
       procVars, restartVars
  <2>6. QED
    BY <2>2, <2>3, <2>4, <2>5
<1>5. QED
  BY <1>1, <1>2, <1>3, <1>4 DEF Stop

LEMMA StopWrittenKeepsIInv ==
  ASSUME IInv, NEW s \in Sessions, StopWritten(s)
  PROVE  IInv'
<1> USE SessionsAssumption DEF IInv, MaybeSession, Sessions, None
<1>1. PICK result \in {"ok", "error", "cancelled"} :
        IF StopWriteFailed(s, result)
          THEN stopTimedOut' = TRUE /\ Notice(s)
          ELSE UNCHANGED <<stopTimedOut, logs, console>>
  BY DEF StopWritten
<1>2. CASE StopWriteFailed(s, result)
  <2>1. process = s /\ Running /\ stopRequested
    BY <1>2 DEF StopWriteFailed, Stopping
  <2>2. /\ logs' \subseteq Sessions \X Sessions /\ console' \subseteq Sessions
        /\ LogKeepsItsSession'
        /\ console' \subseteq {spawned}
    BY <1>1, <1>2, <2>1, NoticeKeepsLogs DEF LogKeepsItsSession
  <2>3. stopTimedOut' = TRUE
    BY <1>1, <1>2
  <2>4. TypeOK'
    BY <2>2, <2>3 DEF StopWritten, TypeOK, procVars, restartVars
  <2>5. Pointers' /\ AtMostOneProcess' /\ ConsoleShowsOneSession'
    BY <2>2 DEF StopWritten, Pointers, AtMostOneProcess, ConsoleShowsOneSession, procVars
  <2>6. StopBookkeeping' /\ NormalStopsDoNotRecover'
    BY <2>1 DEF StopWritten, StopBookkeeping, NormalStopsDoNotRecover, Stopping, Running,
       procVars, restartVars
  <2>7. QED
    BY <2>2, <2>4, <2>5, <2>6
<1>3. CASE ~StopWriteFailed(s, result)
  <2>1. UNCHANGED <<stopTimedOut, logs, console>>
    BY <1>1, <1>3
  <2>2. TypeOK' /\ Pointers' /\ AtMostOneProcess'
    BY <2>1 DEF StopWritten, TypeOK, Pointers, AtMostOneProcess, procVars, restartVars
  <2>3. /\ StopBookkeeping' /\ NormalStopsDoNotRecover'
        /\ LogKeepsItsSession' /\ ConsoleShowsOneSession'
    BY <2>1 DEF StopWritten, StopBookkeeping, NormalStopsDoNotRecover, LogKeepsItsSession,
       ConsoleShowsOneSession, Stopping, Running, procVars, restartVars
  <2>4. QED
    BY <2>2, <2>3
<1>4. QED
  BY <1>2, <1>3

LEMMA ProcessStepKeepsIInv ==
  ASSUME IInv, NEW s \in Sessions, ProcessWritesLine(s) \/ ProcessDies(s)
  PROVE  IInv'
<1> USE SessionsAssumption DEF IInv, MaybeSession, Sessions, None
<1>1. CASE ProcessWritesLine(s)
  <2>1. TypeOK' /\ Pointers' /\ AtMostOneProcess'
    BY <1>1 DEF ProcessWritesLine, TypeOK, Pointers, AtMostOneProcess, procVars, stopVars,
       restartVars
  <2>2. /\ StopBookkeeping' /\ NormalStopsDoNotRecover'
        /\ LogKeepsItsSession' /\ ConsoleShowsOneSession'
    BY <1>1 DEF ProcessWritesLine, StopBookkeeping, NormalStopsDoNotRecover, LogKeepsItsSession,
       ConsoleShowsOneSession, Stopping, Running, procVars, stopVars, restartVars
  <2>3. QED
    BY <2>1, <2>2
<1>2. CASE ProcessDies(s)
  <2>1. TypeOK' /\ Pointers' /\ AtMostOneProcess'
    BY <1>2 DEF ProcessDies, TypeOK, Pointers, AtMostOneProcess, stopVars, restartVars, outputVars
  <2>2. /\ StopBookkeeping' /\ NormalStopsDoNotRecover'
        /\ LogKeepsItsSession' /\ ConsoleShowsOneSession'
    BY <1>2 DEF ProcessDies, StopBookkeeping, NormalStopsDoNotRecover, LogKeepsItsSession,
       ConsoleShowsOneSession, Stopping, Running, stopVars, restartVars, outputVars
  <2>3. QED
    BY <2>1, <2>2
<1>3. QED
  BY <1>1, <1>2

LEMMA ExitKeepsIInv ==
  ASSUME IInv, ProcessExitCb
  PROVE  IInv'
<1> USE SessionsAssumption DEF IInv, MaybeSession, Sessions, None
<1>1. Running /\ Notice(process)
  BY DEF ProcessExitCb
<1>2. /\ logs' \subseteq Sessions \X Sessions /\ console' \subseteq Sessions
      /\ LogKeepsItsSession'
      /\ console' \subseteq {spawned}
  BY <1>1, NoticeKeepsLogs DEF LogKeepsItsSession
<1>3. TypeOK'
  BY <1>2, PlatformAssumption DEF ProcessExitCb, ClearStopRequest, RecoveryWanted, TypeOK
<1>4. Pointers' /\ AtMostOneProcess' /\ ConsoleShowsOneSession'
  BY <1>2 DEF ProcessExitCb, Pointers, AtMostOneProcess, ConsoleShowsOneSession
<1>5. StopBookkeeping' /\ NormalStopsDoNotRecover'
  BY DEF ProcessExitCb, ClearStopRequest, RecoveryWanted, StopBookkeeping,
     NormalStopsDoNotRecover, Stopping, Running
<1>6. QED
  BY <1>2, <1>3, <1>4, <1>5

LEMMA ReaderKeepsIInv ==
  ASSUME IInv, NEW s \in Sessions, ReadLine(s) \/ ReadEof(s)
  PROVE  IInv'
<1> USE SessionsAssumption DEF IInv, MaybeSession, Sessions, None
<1>1. CASE ReadLine(s)
  <2>1. /\ logs' \subseteq Sessions \X Sessions /\ LogKeepsItsSession'
    BY <1>1 DEF ReadLine, ReaderFile, TypeOK, Pointers, LogKeepsItsSession
  <2>2. console' \subseteq Sessions /\ ConsoleShowsOneSession'
    BY <1>1 DEF ReadLine, Shown, TypeOK, Pointers, ConsoleShowsOneSession, procVars
  <2>3. TypeOK' /\ Pointers' /\ AtMostOneProcess'
    BY <1>1, <2>1, <2>2 DEF ReadLine, TypeOK, Pointers, AtMostOneProcess, procVars, stopVars,
       restartVars
  <2>4. StopBookkeeping' /\ NormalStopsDoNotRecover'
    BY <1>1 DEF ReadLine, StopBookkeeping, NormalStopsDoNotRecover, Stopping, Running, procVars,
       stopVars, restartVars
  <2>5. QED
    BY <2>1, <2>2, <2>3, <2>4
<1>2. CASE ReadEof(s)
  <2>1. TypeOK' /\ Pointers' /\ AtMostOneProcess'
    BY <1>2 DEF ReadEof, TypeOK, Pointers, AtMostOneProcess, procVars, stopVars, restartVars
  <2>2. /\ StopBookkeeping' /\ NormalStopsDoNotRecover'
        /\ LogKeepsItsSession' /\ ConsoleShowsOneSession'
    BY <1>2 DEF ReadEof, StopBookkeeping, NormalStopsDoNotRecover, LogKeepsItsSession,
       ConsoleShowsOneSession, Stopping, Running, procVars, stopVars, restartVars
  <2>3. QED
    BY <2>1, <2>2
<1>3. QED
  BY <1>1, <1>2

\* The steps that only touch a flag.
LEMMA FlagStepKeepsIInv ==
  ASSUME IInv,
         \/ BeginMaintenance \/ EndMaintenance
         \/ \E enabled \in BOOLEAN : SetAutoRestart(enabled)
         \/ UNCHANGED vars
  PROVE  IInv'
<1> USE SessionsAssumption DEF IInv, MaybeSession, Sessions, None
<1>1. UNCHANGED <<procVars, stopVars, outputVars>>
  BY DEF BeginMaintenance, EndMaintenance, SetAutoRestart, vars
<1>2. /\ autoRestart' \in BOOLEAN /\ restartSource' \in BOOLEAN /\ startFailed' \in BOOLEAN
      /\ maintenance' \in BOOLEAN
      /\ restartSource' => restartSource /\ autoRestart'
  <2>1. CASE BeginMaintenance \/ EndMaintenance \/ UNCHANGED vars
    <3>1. UNCHANGED restartVars
      BY <2>1 DEF BeginMaintenance, EndMaintenance, vars
    <3>2. maintenance' \in BOOLEAN
      BY <2>1 DEF BeginMaintenance, EndMaintenance, vars, TypeOK
    <3>3. QED
      BY <3>1, <3>2 DEF restartVars, TypeOK, NormalStopsDoNotRecover
  <2>2. ASSUME NEW enabled \in BOOLEAN, SetAutoRestart(enabled)
        PROVE  /\ autoRestart' \in BOOLEAN /\ restartSource' \in BOOLEAN
               /\ startFailed' \in BOOLEAN /\ maintenance' \in BOOLEAN
               /\ restartSource' => restartSource /\ autoRestart'
    BY <2>2 DEF SetAutoRestart, TypeOK
  <2>3. QED
    BY <2>1, <2>2
<1>3. TypeOK' /\ Pointers' /\ AtMostOneProcess'
  BY <1>1, <1>2 DEF TypeOK, Pointers, AtMostOneProcess, procVars, stopVars, outputVars
<1>4. /\ StopBookkeeping' /\ NormalStopsDoNotRecover'
      /\ LogKeepsItsSession' /\ ConsoleShowsOneSession'
  BY <1>1, <1>2 DEF StopBookkeeping, NormalStopsDoNotRecover, LogKeepsItsSession,
     ConsoleShowsOneSession, Stopping, Running, procVars, stopVars, outputVars
<1>5. QED
  BY <1>3, <1>4

\* The crash-restart timer launches, or gives up.
LEMMA AutoRestartKeepsIInv ==
  ASSUME IInv, AutoRestartCb
  PROVE  IInv'
<1> USE SessionsAssumption DEF IInv, MaybeSession, Sessions, None
<1>1. CASE ~Running /\ Launch
  BY <1>1, LaunchKeepsIInv
<1>2. CASE /\ restartSource' = FALSE
           /\ UNCHANGED <<procVars, stopVars, autoRestart, startFailed, maintenance, outputVars>>
  <2>1. TypeOK' /\ Pointers' /\ AtMostOneProcess'
    BY <1>2 DEF TypeOK, Pointers, AtMostOneProcess, procVars, stopVars, outputVars
  <2>2. /\ StopBookkeeping' /\ NormalStopsDoNotRecover'
        /\ LogKeepsItsSession' /\ ConsoleShowsOneSession'
    BY <1>2 DEF StopBookkeeping, NormalStopsDoNotRecover, LogKeepsItsSession,
       ConsoleShowsOneSession, Stopping, Running, procVars, stopVars, outputVars
  <2>3. QED
    BY <2>1, <2>2
<1>3. QED
  BY <1>1, <1>2 DEF AutoRestartCb

LEMMA NextKeepsIInv == IInv /\ [Next]_vars => IInv'
<1> SUFFICES ASSUME IInv, [Next]_vars PROVE IInv'
  OBVIOUS
<1>1. CASE Start
  BY <1>1, LaunchKeepsIInv DEF Start
<1>2. CASE AutoRestartCb
  BY <1>2, AutoRestartKeepsIInv
<1>3. CASE Stop \/ ForceStop \/ StopDeadline
  BY <1>3, StopKeepsIInv
<1>4. CASE \/ BeginMaintenance \/ EndMaintenance
           \/ \E enabled \in BOOLEAN : SetAutoRestart(enabled)
           \/ UNCHANGED vars
  BY <1>4, FlagStepKeepsIInv
<1>5. CASE ProcessExitCb
  BY <1>5, ExitKeepsIInv
<1>6. ASSUME NEW s \in Sessions, StopWritten(s)
      PROVE  IInv'
  BY <1>6, StopWrittenKeepsIInv
<1>7. ASSUME NEW s \in Sessions, ProcessWritesLine(s) \/ ProcessDies(s)
      PROVE  IInv'
  BY <1>7, ProcessStepKeepsIInv
<1>8. ASSUME NEW s \in Sessions, ReadLine(s) \/ ReadEof(s)
      PROVE  IInv'
  BY <1>8, ReaderKeepsIInv
<1>9. QED
  BY <1>1, <1>2, <1>3, <1>4, <1>5, <1>6, <1>7, <1>8 DEF Next

LEMMA Invariance == Spec => []IInv
  BY InitIInv, NextKeepsIInv, PTL DEF Spec

-----------------------------------------------------------------------------
(* The theorems.                                                           *)

\* Every variable of the object keeps its type.
THEOREM TypeCorrect == Spec => []TypeOK
  BY Invariance, PTL DEF IInv

\* At any time at most one operating-system process runs on the object's
\* data directory: the one it holds.
THEOREM OneProcess == Spec => []AtMostOneProcess
  BY Invariance, PTL DEF IInv

\* No deadline, cancellable or timed-out mark outlives the stop it is of.
THEOREM StopsAreKeptApart == Spec => []StopBookkeeping
  BY Invariance, PTL DEF IInv

\* A restart is only ever pending after an exit nobody asked for.
THEOREM RecoveryIsForCrashes == Spec => []NormalStopsDoNotRecover
  BY Invariance, PTL DEF IInv

\* Records and output lines stay in the log and on the console of their own
\* session, across any number of rapid restarts.
THEOREM SessionsAreKeptApart == Spec => []SessionsKeptApart
  BY Invariance, PTL DEF IInv, SessionsKeptApart

\* Only the deadline or the failed write of the process being stopped marks
\* a stop as timed out.
THEOREM TimeoutIsForThisStop == Spec => TimeoutIsOfThisStop
<1>1. IInv /\ [Next]_vars =>
        [stopTimedOut' /\ ~stopTimedOut =>
           \/ stopSource = process /\ stopSource' = None
           \/ process \in writes \ writes']_vars
  <2> SUFFICES ASSUME IInv, Next, stopTimedOut', ~stopTimedOut
               PROVE  \/ stopSource = process /\ stopSource' = None
                      \/ process \in writes \ writes'
    OBVIOUS
  <2>1. CASE StopDeadline
    BY <2>1 DEF StopDeadline, IInv, StopBookkeeping
  <2>2. ASSUME NEW s \in Sessions, StopWritten(s)
        PROVE  process \in writes \ writes'
    BY <2>2 DEF StopWritten, StopWriteFailed
  <2>3. CASE Start \/ AutoRestartCb
    BY <2>3 DEF Start, AutoRestartCb, Launch, LaunchFails, LaunchSpawns, ClearStopRequest,
       stopVars
  <2>4. CASE Stop \/ ForceStop
    BY <2>4 DEF Stop, StopAgain, StopFirst, ForceStop
  <2>5. CASE BeginMaintenance \/ EndMaintenance \/ ProcessExitCb
    BY <2>5 DEF BeginMaintenance, EndMaintenance, ProcessExitCb, ClearStopRequest, stopVars
  <2>6. ASSUME NEW enabled \in BOOLEAN, SetAutoRestart(enabled)
        PROVE  FALSE
    BY <2>6 DEF SetAutoRestart, stopVars
  <2>7. ASSUME NEW s \in Sessions,
               ProcessWritesLine(s) \/ ProcessDies(s) \/ ReadLine(s) \/ ReadEof(s)
        PROVE  FALSE
    BY <2>7 DEF ProcessWritesLine, ProcessDies, ReadLine, ReadEof, stopVars
  <2>8. QED
    BY <2>1, <2>2, <2>3, <2>4, <2>5, <2>6, <2>7 DEF Next
<1>2. QED
  BY <1>1, Invariance, PTL DEF Spec, TimeoutIsOfThisStop

-----------------------------------------------------------------------------
(* The object implements the abstract life cycle.                          *)

LEMMA PhaseOf ==
  /\ Stopping => Phase = "stopping"
  /\ Running /\ ~stopRequested => Phase = "running"
  /\ ~Running /\ restartSource => Phase = "backoff"
  /\ ~Running /\ ~restartSource => Phase = "stopped"
  BY DEF Phase, Stopping

LEMMA PhaseOfNext ==
  /\ Stopping' => Phase' = "stopping"
  /\ Running' /\ ~stopRequested' => Phase' = "running"
  /\ ~Running' /\ restartSource' => Phase' = "backoff"
  /\ ~Running' /\ ~restartSource' => Phase' = "stopped"
  BY DEF Phase, Stopping

LEMMA InitImplements == Init => Lifecycle!Init
  BY PhaseOf DEF Init, Running, None, Lifecycle!Init

\* A step that leaves these four alone is a stutter of the abstract machine.
LEMMA SamePhase ==
  ASSUME UNCHANGED <<process, stopRequested, restartSource, maintenance>>
  PROVE  UNCHANGED Lifecycle!lifecycleVars
  BY DEF Phase, Stopping, Running, Lifecycle!lifecycleVars

\* From no process and no maintenance, a launch is Launch, a stutter, or the
\* end of the pending recovery.
LEMMA LaunchImplements ==
  ASSUME IInv, ~Running, ~maintenance, Launch
  PROVE  [Lifecycle!Next]_(Lifecycle!lifecycleVars)
<1>1. Phase = "backoff" \/ Phase = "stopped"
  BY PhaseOf
<1>2. CASE LaunchSpawns
  <2>1. Running' /\ ~stopRequested' /\ UNCHANGED maintenance
    BY <1>2, SessionsAssumption DEF LaunchSpawns, Running, Sessions, None, IInv, TypeOK
  <2>2. Lifecycle!Launch
    BY <1>1, <2>1, PhaseOfNext DEF Lifecycle!Launch
  <2>3. QED
    BY <2>2 DEF Lifecycle!Next
<1>3. CASE LaunchFails
  <2>1. ~Running' /\ ~restartSource' /\ UNCHANGED maintenance
    BY <1>3 DEF LaunchFails, procVars, Running
  <2>2. Phase' = "stopped"
    BY <2>1, PhaseOfNext
  <2>3. QED
    BY <1>1, <2>1, <2>2 DEF Lifecycle!Next, Lifecycle!GiveUpRecovery, Lifecycle!lifecycleVars
<1>4. QED
  BY <1>2, <1>3 DEF Launch

LEMMA StopImplements ==
  ASSUME IInv, Stop \/ ForceStop
  PROVE  [Lifecycle!Next]_(Lifecycle!lifecycleVars)
<1>1. /\ UNCHANGED <<process, maintenance>>
      /\ stopRequested' /\ ~restartSource'
  BY DEF Stop, StopAgain, StopFirst, ForceStop, procVars
<1>2. CASE Running /\ stopRequested
  <2>1. ~restartSource
    BY <1>2 DEF IInv, NormalStopsDoNotRecover
  <2>2. Stopping /\ Stopping'
    BY <1>1, <1>2 DEF Stopping, Running
  <2>3. QED
    BY <1>1, <2>2, PhaseOf, PhaseOfNext DEF Lifecycle!lifecycleVars
<1>3. CASE Running /\ ~stopRequested
  <2>1. Stopping'
    BY <1>1, <1>3 DEF Stopping, Running
  <2>2. Phase = "running" /\ Phase' = "stopping"
    BY <1>3, <2>1, PhaseOf, PhaseOfNext
  <2>3. QED
    BY <1>1, <2>2 DEF Lifecycle!Next, Lifecycle!RequestStop
<1>4. CASE ~Running
  <2>1. ~Running'
    BY <1>1, <1>4 DEF Running
  <2>2. Phase' = "stopped" /\ (Phase = "backoff" \/ Phase = "stopped")
    BY <1>1, <1>4, <2>1, PhaseOf, PhaseOfNext
  <2>3. QED
    BY <1>1, <2>2 DEF Lifecycle!Next, Lifecycle!GiveUpRecovery, Lifecycle!lifecycleVars
<1>5. QED
  BY <1>2, <1>3, <1>4

LEMMA ExitImplements ==
  ASSUME IInv, ProcessExitCb
  PROVE  [Lifecycle!Next]_(Lifecycle!lifecycleVars)
<1>1. /\ Running /\ ~Running' /\ UNCHANGED maintenance
      /\ restartSource' => ~stopRequested
  BY DEF ProcessExitCb, RecoveryWanted, Running
<1>2. CASE restartSource'
  <2>1. Phase = "running" /\ Phase' = "backoff"
    BY <1>1, <1>2, PhaseOf, PhaseOfNext
  <2>2. QED
    BY <1>1, <2>1 DEF Lifecycle!Next, Lifecycle!CrashIntoBackoff
<1>3. CASE ~restartSource'
  <2>1. Phase' = "stopped" /\ (Phase = "running" \/ Phase = "stopping")
    BY <1>1, <1>3, PhaseOf, PhaseOfNext DEF Stopping
  <2>2. QED
    BY <1>1, <2>1 DEF Lifecycle!Next, Lifecycle!ProcessEnds
<1>4. QED
  BY <1>2, <1>3

LEMMA SetAutoRestartImplements ==
  ASSUME IInv, NEW enabled \in BOOLEAN, SetAutoRestart(enabled)
  PROVE  [Lifecycle!Next]_(Lifecycle!lifecycleVars)
<1>1. UNCHANGED <<process, stopRequested, maintenance>> /\ restartSource' = (restartSource /\ enabled)
  BY DEF SetAutoRestart, procVars, stopVars
<1>2. CASE restartSource /\ ~enabled
  <2>1. ~Running /\ ~Running' /\ ~restartSource'
    BY <1>1, <1>2 DEF IInv, NormalStopsDoNotRecover, Running
  <2>2. Phase = "backoff" /\ Phase' = "stopped"
    BY <1>2, <2>1, PhaseOf, PhaseOfNext
  <2>3. QED
    BY <1>1, <2>2 DEF Lifecycle!Next, Lifecycle!GiveUpRecovery
<1>3. CASE ~(restartSource /\ ~enabled)
  <2>1. restartSource' = restartSource
    BY <1>1, <1>3 DEF IInv, TypeOK
  <2>2. QED
    BY <1>1, <2>1, SamePhase
<1>4. QED
  BY <1>2, <1>3

LEMMA MaintenanceImplements ==
  ASSUME IInv, BeginMaintenance \/ EndMaintenance
  PROVE  [Lifecycle!Next]_(Lifecycle!lifecycleVars)
<1>1. UNCHANGED <<process, stopRequested, restartSource>>
  BY DEF BeginMaintenance, EndMaintenance, procVars, stopVars, restartVars
<1>2. Phase' = Phase
  BY <1>1 DEF Phase, Stopping, Running
<1>3. CASE BeginMaintenance
  <2>1. Phase # "backoff"
    BY <1>3 DEF BeginMaintenance, Phase
  <2>2. QED
    BY <1>2, <1>3, <2>1 DEF BeginMaintenance, Lifecycle!Next, Lifecycle!TakeMaintenance
<1>4. CASE EndMaintenance
  BY <1>2, <1>4 DEF EndMaintenance, Lifecycle!Next, Lifecycle!ReleaseMaintenance
<1>5. QED
  BY <1>3, <1>4

LEMMA NextImplements ==
  IInv /\ [Next]_vars => [Lifecycle!Next]_(Lifecycle!lifecycleVars)
<1> SUFFICES ASSUME IInv, [Next]_vars
             PROVE  [Lifecycle!Next]_(Lifecycle!lifecycleVars)
  OBVIOUS
<1>1. CASE Start
  BY <1>1, LaunchImplements DEF Start
<1>2. CASE AutoRestartCb
  <2>1. CASE ~maintenance /\ ~Running /\ Launch
    BY <2>1, LaunchImplements
  <2>2. CASE /\ restartSource' = FALSE
             /\ UNCHANGED <<procVars, stopVars, autoRestart, startFailed, maintenance, outputVars>>
    <3>1. ~Running /\ ~Running' /\ UNCHANGED maintenance
      BY <1>2, <2>2 DEF AutoRestartCb, IInv, NormalStopsDoNotRecover, Running, procVars
    <3>2. Phase = "backoff" /\ Phase' = "stopped"
      BY <1>2, <2>2, <3>1, PhaseOf, PhaseOfNext DEF AutoRestartCb
    <3>3. QED
      BY <3>1, <3>2 DEF Lifecycle!Next, Lifecycle!GiveUpRecovery
  <2>3. QED
    BY <1>2, <2>1, <2>2 DEF AutoRestartCb
<1>3. CASE Stop \/ ForceStop
  BY <1>3, StopImplements
<1>4. CASE StopDeadline
  BY <1>4, SamePhase DEF StopDeadline, procVars, restartVars
<1>5. CASE BeginMaintenance \/ EndMaintenance
  BY <1>5, MaintenanceImplements
<1>6. CASE ProcessExitCb
  BY <1>6, ExitImplements
<1>7. ASSUME NEW enabled \in BOOLEAN, SetAutoRestart(enabled)
      PROVE  [Lifecycle!Next]_(Lifecycle!lifecycleVars)
  BY <1>7, SetAutoRestartImplements
<1>8. ASSUME NEW s \in Sessions,
             StopWritten(s) \/ ProcessWritesLine(s) \/ ProcessDies(s) \/ ReadLine(s) \/ ReadEof(s)
      PROVE  [Lifecycle!Next]_(Lifecycle!lifecycleVars)
  <2>1. UNCHANGED <<process, stopRequested, restartSource, maintenance>>
    BY <1>8 DEF StopWritten, ProcessWritesLine, ProcessDies, ReadLine, ReadEof, procVars, stopVars,
       restartVars
  <2>2. QED
    BY <2>1, SamePhase
<1>9. CASE UNCHANGED vars
  BY <1>9, SamePhase DEF vars, procVars, stopVars, restartVars
<1>10. QED
  BY <1>1, <1>2, <1>3, <1>4, <1>5, <1>6, <1>7, <1>8, <1>9 DEF Next

\* Through the mapping Phase, every behaviour of the object is a behaviour of
\* ServerLifecycle: no step of it starts a process under maintenance, turns a
\* requested stop into a recovery, or begins maintenance under a pending one.
THEOREM ServerImplementsLifecycle == Spec => ImplementsLifecycle
  BY InitImplements, NextImplements, Invariance, PTL
     DEF Spec, ImplementsLifecycle, Lifecycle!Spec
=============================================================================
