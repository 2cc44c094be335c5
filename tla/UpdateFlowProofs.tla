--------------------------- MODULE UpdateFlowProofs ---------------------------
(***************************************************************************)
(* Proofs about UpdateFlow, for any set of servers and any bound on waits, *)
(* jobs, launches and crashes.                                             *)
(***************************************************************************)
EXTENDS UpdateFlow, TLAPS

Held == {"stopping", "copying", "backup", "commit", "done", "failed"}
Worker == {"copying", "backup", "commit"}

\* The two properties lean on each other: maintenance keeps every start away
\* while the worker is at work, so they are inductive together.  Domains are
\* needed for EXCEPT.
JobInv ==
  /\ DOMAIN proc = Servers /\ proc = [s \in Servers |-> proc[s]]
  /\ DOMAIN holder = Servers /\ holder = [s \in Servers |-> holder[s]]
  /\ DOMAIN stage = Servers /\ stage = [s \in Servers |-> stage[s]]
  /\ \A s \in Servers : /\ holder[s] = "update" <=> stage[s] \in Held
                        /\ stage[s] \in Worker => ~HasProcess(s)

jobLock == <<proc, holder, stage>>

LEMMA JobInvImplies == JobInv => NoProcessUnderWorker /\ MaintenanceFollowsJob
  BY DEF JobInv, NoProcessUnderWorker, MaintenanceFollowsJob, Held, Worker

LEMMA InitJobInv == Init => JobInv
  BY DEF Init, JobInv, Held, Worker

\* A step that touches neither processes, maintenance nor where jobs stand.
LEMMA Untouched == ASSUME JobInv, UNCHANGED jobLock PROVE JobInv'
  BY DEF JobInv, jobLock, HasProcess

-----------------------------------------------------------------------------
(* The ways a job goes on, wherever they are called from.                  *)

\* A job that ends gives back what it was granted, and nothing else.
LEMMA Ended == ASSUME JobInv, NEW s \in Servers, JobEnds(s), UNCHANGED proc PROVE JobInv'
  BY DEF JobEnds, JobInv, Held, Worker, HasProcess

\* apply_downloaded_binary: maintenance first, or the job ends.
LEMMA Applied == ASSUME JobInv, NEW s \in Servers, NEW wanted, Apply(s, wanted) PROVE JobInv'
  <1>1. CASE Granted(s)
    BY <1>1 DEF Apply, JobInv, Held, Worker, HasProcess
  <1>2. CASE ~Granted(s)
    BY <1>2, Ended DEF Apply
  <1> QED
    BY <1>1, <1>2

\* A job that does not hold maintenance yet may move among the stages that
\* need none.
LEMMA Moved ==
  ASSUME JobInv, NEW s \in Servers, holder[s] # "update", UNCHANGED <<proc, holder>>,
         NEW to \in {"requested", "receiving", "waiting"}, stage' = [stage EXCEPT ![s] = to]
  PROVE  JobInv'
  BY DEF JobInv, Held, Worker, HasProcess

LEMMA Requested ==
  ASSUME JobInv, NEW s \in Servers, NEW wanted, holder[s] # "update", Request(s, wanted)
  PROVE  JobInv'
  BY Moved DEF Request

-----------------------------------------------------------------------------
(* Steps of a job.                                                         *)

LEMMA BeginStep == ASSUME JobInv, NEW s \in Servers, Begin(s) PROVE JobInv'
  <1>1. holder[s] # "update"
    BY DEF Begin
  <1>2. PICK wanted \in {FALSE, HasProcess(s)}, useCache \in BOOLEAN :
          \/ UseCache(s, wanted)
          \/ Request(s, wanted)
    BY DEF Begin
  <1>3. CASE Request(s, wanted)
    BY <1>1, <1>3, Requested
  <1>4. CASE UseCache(s, wanted)
    <2>1. CASE Apply(s, wanted)
      BY <2>1, Applied
    <2>2. CASE UNCHANGED <<proc, holder>> /\ stage' = [stage EXCEPT ![s] = "waiting"]
      BY <1>1, <2>2, Moved
    <2> QED
      BY <1>1, <1>4, <2>1, <2>2, Requested DEF UseCache
  <1> QED
    BY <1>2, <1>3, <1>4

LEMMA WaitStep == ASSUME JobInv, NEW s \in Servers, WaitTick(s) PROVE JobInv'
  <1>1. holder[s] # "update"
    BY DEF WaitTick, JobInv, Held
  <1>2. \/ Apply(s, restart[s])
        \/ Request(s, restart[s])
        \/ JobEnds(s) /\ UNCHANGED proc
        \/ UNCHANGED jobLock
    BY DEF WaitTick, jobLock
  <1> QED
    BY <1>1, <1>2, Applied, Requested, Ended, Untouched

LEMMA DownloadStep ==
  ASSUME JobInv, NEW s \in Servers,
         DownloadReady(s) \/ Receive(s) \/ DownloadFails(s) \/ DownloadDone(s)
  PROVE  JobInv'
  <1>1. CASE DownloadReady(s)
    <2>1. holder[s] # "update"
      BY <1>1 DEF DownloadReady, JobInv, Held
    <2> QED
      BY <1>1, <2>1, Moved DEF DownloadReady
  <1>2. CASE Receive(s)
    BY <1>2, Untouched DEF Receive, jobLock
  <1>3. CASE DownloadFails(s)
    BY <1>3, Ended DEF DownloadFails
  <1>4. CASE DownloadDone(s)
    <2>1. Apply(s, restart[s]) \/ (JobEnds(s) /\ UNCHANGED proc)
      BY <1>4 DEF DownloadDone
    <2> QED
      BY <2>1, Applied, Ended
  <1> QED
    BY <1>1, <1>2, <1>3, <1>4

\* The worker starts on a server whose process is gone, ...
LEMMA StopDoneStep == ASSUME JobInv, NEW s \in Servers, StopDone(s) PROVE JobInv'
  <1>1. CASE JobEnds(s)
    BY <1>1, Ended DEF StopDone
  <1>2. CASE Stopped(s) /\ stage' = [stage EXCEPT ![s] = "copying"] /\ UNCHANGED holder
    BY <1>2 DEF StopDone, Stopped, JobInv, Held, Worker, HasProcess
  <1> QED
    BY <1>1, <1>2 DEF StopDone

\* ... and keeps to the stages under maintenance.
LEMMA WorkerStep ==
  ASSUME JobInv, NEW s \in Servers, WorkerFails(s) \/ Copy(s) \/ Backup(s) \/ Commit(s)
  PROVE  JobInv'
  <1>1. /\ stage[s] \in Worker
        /\ \E to \in Worker \union {"done", "failed"} : stage' = [stage EXCEPT ![s] = to]
        /\ UNCHANGED <<proc, holder>>
    BY DEF WorkerFails, Copy, Backup, Commit, Worker
  <1> QED
    BY <1>1 DEF JobInv, Held, Worker, HasProcess

\* The restart comes with the end of the job.
LEMMA InstallDoneStep == ASSUME JobInv, NEW s \in Servers, InstallDone(s) PROVE JobInv'
  <1>1. CASE UNCHANGED proc
    BY <1>1, Ended DEF InstallDone
  <1>2. CASE proc' = [proc EXCEPT ![s] = "running"]
    BY <1>2 DEF InstallDone, JobEnds, JobInv, Held, Worker, HasProcess
  <1> QED
    BY <1>1, <1>2 DEF InstallDone

LEMMA JobSteps == ASSUME JobInv, NEW s \in Servers, JobStep(s) PROVE JobInv'
  BY BeginStep, WaitStep, DownloadStep, StopDoneStep, WorkerStep, InstallDoneStep DEF JobStep

-----------------------------------------------------------------------------
(* Steps of the server, of others, and of the machine.                     *)

\* A process comes into being only without maintenance; every other step of
\* one needs a process, or ends without it.
LEMMA OtherSteps == ASSUME JobInv, NEW s \in Servers, OtherStep(s) PROVE JobInv'
  <1>1. CASE Refresh(s)
    BY <1>1, Untouched DEF Refresh, jobLock
  <1>2. CASE Start(s)
    BY <1>2 DEF Start, JobInv, Held, Worker, HasProcess
  <1>3. CASE Stop(s) \/ StopDeadline(s) \/ ForceStop(s)
    BY <1>3 DEF Stop, StopDeadline, ForceStop, ServerStep, jobVars, JobInv, Held, Worker,
                HasProcess
  <1>4. CASE Exit(s) \/ Crash(s) \/ GiveUpRecovery(s)
    BY <1>4 DEF Exit, Crash, GiveUpRecovery, ServerStep, jobVars, JobInv, Held, Worker,
                HasProcess
  <1>5. CASE TakeMaintenance(s) \/ ReleaseMaintenance(s)
    BY <1>5 DEF TakeMaintenance, ReleaseMaintenance, Granted, jobVars, JobInv, Held, Worker,
                HasProcess
  <1> QED
    BY <1>1, <1>2, <1>3, <1>4, <1>5 DEF OtherStep

LEMMA PowerLossStep == ASSUME JobInv, PowerLoss PROVE JobInv'
  BY DEF PowerLoss, JobInv, Held, Worker, HasProcess

LEMMA NextJobInv == JobInv /\ [Next]_vars => JobInv'
  <1> SUFFICES ASSUME JobInv, [Next]_vars PROVE JobInv'
    OBVIOUS
  <1>1. CASE UNCHANGED vars
    BY <1>1, Untouched DEF vars, jobVars, jobLock
  <1>2. CASE Next
    BY <1>2, PowerLossStep, JobSteps, OtherSteps DEF Next
  <1> QED
    BY <1>1, <1>2

LEMMA SpecJobInv == Spec => []JobInv
  BY InitJobInv, NextJobInv, PTL DEF Spec

-----------------------------------------------------------------------------
(* The files.  The worker is not the only one who writes to an executable: *)
(* a refresh promotes a .tmp to it, even one that a download still writes  *)
(* to.  What they overwrite is never an executable from before.            *)

Shapes ==
  /\ proc \in [Servers -> Procs] /\ holder \in [Servers -> {"none", "update", "other"}]
  /\ stage \in [Servers -> Stages] /\ cached \in [Servers -> BOOLEAN]
  /\ sink \in [Servers -> Sinks]
  /\ got \in [Servers -> Contents] /\ staged \in [Servers -> Contents]
  /\ bin \in [Servers -> Contents] /\ tmp \in [Servers -> Contents]
  /\ previous \in [Servers -> Contents]
  /\ cache \in Contents /\ lock \in Contents

\* No old executable comes out of a download.
NoneIsOld(s) ==
  /\ tmp[s] # "old" /\ got[s] # "old" /\ staged[s] # "old" /\ cache # "old" /\ lock # "old"

\* What a job installs is valid from the moment it stops the server: the cache
\* or, unless a refresh has removed it, the .tmp; then the copy of either.
SourceIsValid(s) ==
  /\ stage[s] = "waiting" => cached[s]
  /\ stage[s] \in {"stopping", "copying"} =>
       IF cached[s] THEN Valid(cache) ELSE tmp[s] = "none" \/ Valid(tmp[s])
  /\ stage[s] \in {"backup", "commit"} => Valid(staged[s])

\* A download that writes to the executable writes to one it brought itself.
WriterIsNew(s) ==
  /\ sink[s] \in {"path", "bin"} => stage[s] = "receiving"
  /\ sink[s] = "bin" => bin[s] # "old"

\* The backup comes before the commit.
BackupIsThere(s) == stage[s] = "commit" /\ bin[s] = "old" => previous[s] = "old"

FileInv ==
  /\ Shapes
  /\ \A s \in Servers : NoneIsOld(s) /\ SourceIsValid(s) /\ WriterIsNew(s) /\ BackupIsThere(s)

fileLock == <<jobVars, fileVars>>

LEMMA InitFileInv == Init => FileInv
  BY DEF Init, FileInv, Shapes, Procs, Stages, Sinks, Contents, NoneIsOld,
     SourceIsValid, WriterIsNew, BackupIsThere

\* A new job uses the shared cache or does not.
LEMMA BeginChoice ==
  ASSUME NEW s \in Servers, Begin(s)
  PROVE  \E wanted \in {FALSE, HasProcess(s)} :
           \/ /\ cached' = [cached EXCEPT ![s] = FALSE]
              /\ Request(s, wanted) /\ UNCHANGED <<sink, cache, lock>>
           \/ /\ cached' = [cached EXCEPT ![s] = TRUE]
              /\ UseCache(s, wanted)
  BY DEF Begin

USE DEF Valid, FileInv, Shapes, Procs, Stages, Sinks, Contents, NoneIsOld, SourceIsValid,
        WriterIsNew, BackupIsThere

LEMMA FilesUntouched == ASSUME FileInv, UNCHANGED <<proc, holder, fileLock>> PROVE FileInv'
  BY DEF fileLock, jobVars, fileVars

\* A step of processes and maintenance only.
LEMMA FilesElsewhere ==
  ASSUME FileInv, UNCHANGED fileLock, NEW s \in Servers,
         NEW p \in Procs, NEW h \in {"none", "update", "other"},
         proc' = [proc EXCEPT ![s] = p] \/ UNCHANGED proc,
         holder' = [holder EXCEPT ![s] = h] \/ UNCHANGED holder
  PROVE  FileInv'
  BY DEF fileLock, jobVars, fileVars

\* server_has_installation, whoever calls it, only repairs what is not valid.
LEMMA Repaired ==
  ASSUME FileInv, NEW s \in Servers, HasInstallation(s),
         UNCHANGED <<holder, stage, cached, got, staged, previous, lock>>,
         proc' = [proc EXCEPT ![s] = "running"] \/ UNCHANGED proc
  PROVE  FileInv' /\ (bin[s] = "old" => bin'[s] = "old")
  BY DEF HasInstallation, TmpRemoved, TmpPromoted, RecoveredFromCache, TmpWriter

LEMMA BeginFiles == ASSUME FileInv, NEW s \in Servers, Begin(s) PROVE FileInv'
  <1>1. /\ stage[s] = "idle"
        /\ UNCHANGED <<got, staged, bin, tmp, previous>>
    BY DEF Begin
  <1>2. PICK wanted \in {FALSE, HasProcess(s)} :
          \/ /\ cached' = [cached EXCEPT ![s] = FALSE]
             /\ Request(s, wanted) /\ UNCHANGED <<sink, cache, lock>>
          \/ /\ cached' = [cached EXCEPT ![s] = TRUE]
             /\ UseCache(s, wanted)
    BY BeginChoice
  <1>3. CASE /\ cached' = [cached EXCEPT ![s] = FALSE]
             /\ Request(s, wanted) /\ UNCHANGED <<sink, cache, lock>>
    BY <1>1, <1>3 DEF Request
  <1>4. CASE /\ cached' = [cached EXCEPT ![s] = TRUE]
             /\ Apply(s, wanted) /\ Valid(cache) /\ UNCHANGED <<sink, cache, lock>>
    BY <1>1, <1>4 DEF Apply, JobEnds
  <1>5. CASE /\ cached' = [cached EXCEPT ![s] = TRUE] /\ cache' = "none" /\ ~Valid(cache)
             /\ stage' = [stage EXCEPT ![s] = "waiting"]
             /\ UNCHANGED <<proc, holder, sink, lock>>
    BY <1>1, <1>5
  <1>6. CASE /\ cached' = [cached EXCEPT ![s] = TRUE] /\ cache' = "none" /\ ~Valid(cache)
             /\ Request(s, wanted) /\ lock' = "junk" /\ sink' = Detached
    BY <1>1, <1>6 DEF Request, Detached
  <1> QED
    BY <1>2, <1>3, <1>4, <1>5, <1>6 DEF UseCache

LEMMA WaitFiles == ASSUME FileInv, NEW s \in Servers, WaitTick(s) PROVE FileInv'
  <1>1. CASE Valid(cache)
    BY <1>1 DEF WaitTick, Apply, JobEnds
  <1>2. CASE ~Valid(cache) /\ cache = "none" /\ GiveUpWaiting(s)
    <2>1. /\ stage[s] = "waiting" /\ cached' = [cached EXCEPT ![s] = FALSE]
          /\ UNCHANGED <<proc, sink, got, staged, bin, tmp, previous, cache, lock>>
      BY <1>2 DEF WaitTick, Request, fileVars
    <2>2. Request(s, restart[s]) \/ JobEnds(s)
      BY <1>2 DEF WaitTick
    <2>3. CASE Request(s, restart[s])
      BY <2>1, <2>3 DEF Request
    <2>4. CASE JobEnds(s)
      BY <2>1, <2>4 DEF JobEnds
    <2> QED
      BY <2>2, <2>3, <2>4
  <1>3. CASE ~Valid(cache) /\ ~(cache = "none" /\ GiveUpWaiting(s))
    BY <1>3 DEF WaitTick
  <1> QED
    BY <1>1, <1>2, <1>3

LEMMA ReadyFiles == ASSUME FileInv, NEW s \in Servers, DownloadReady(s) PROVE FileInv'
  <1>1. CASE Target(s) = "none"
    BY <1>1 DEF DownloadReady, TargetBecomes
  <1>2. CASE Target(s) # "none"
    BY <1>2 DEF DownloadReady
  <1> QED
    BY <1>1, <1>2

LEMMA ReceiveFiles == ASSUME FileInv, NEW s \in Servers, Receive(s) PROVE FileInv'
  <1>1. CASE sink[s] = "path"
    BY <1>1 DEF Receive, TargetBecomes
  <1>2. CASE sink[s] = "bin"
    BY <1>2 DEF Receive
  <1>3. CASE sink[s] \notin {"path", "bin"}
    BY <1>3 DEF Receive
  <1> QED
    BY <1>1, <1>2, <1>3

\* The end of a download detaches at most the writers to the same lock.
LEMMA SinkClosed ==
  ASSUME FileInv, NEW s \in Servers,
         sink' = [(IF cached[s] THEN Detached ELSE sink) EXCEPT ![s] = "none"]
  PROVE  /\ sink' \in [Servers -> Sinks] /\ sink'[s] = "none"
         /\ \A r \in Servers : sink'[r] \in {"none", "gone", sink[r]}
  <1>1. Detached \in [Servers -> Sinks]
    BY DEF Detached, FileInv, Shapes, Sinks
  <1>2. \A r \in Servers : Detached[r] \in {"gone", sink[r]}
    BY DEF Detached
  <1>3. sink \in [Servers -> Sinks] /\ "none" \in Sinks
    BY DEF FileInv, Shapes, Sinks
  <1>4. CASE cached[s]
    BY <1>1, <1>2, <1>3, <1>4
  <1>5. CASE ~cached[s]
    BY <1>3, <1>5
  <1> QED
    BY <1>4, <1>5

LEMMA FailsFiles == ASSUME FileInv, NEW s \in Servers, DownloadFails(s) PROVE FileInv'
  BY SinkClosed DEF DownloadFails, JobEnds, TargetBecomes

LEMMA DoneFiles == ASSUME FileInv, NEW s \in Servers, DownloadDone(s) PROVE FileInv'
  <1>p. PICK final \in {"new"} \union ({got[s]} \ {"part"}) :
        LET found == IF sink[s] \in {"hidden", "path"} THEN final ELSE Target(s) IN
        /\ bin' = IF sink[s] = "bin" THEN [bin EXCEPT ![s] = final] ELSE bin
        /\ IF Accepted(found)
             THEN /\ cache' = IF cached[s] THEN found ELSE cache
                  /\ Apply(s, restart[s])
                  /\ TargetBecomes(s, IF cached[s] \/ ~Granted(s) THEN "none" ELSE found)
             ELSE JobEnds(s) /\ TargetBecomes(s, "none") /\ UNCHANGED <<proc, cache>>
    BY DEF DownloadDone
  <1> DEFINE found == IF sink[s] \in {"hidden", "path"} THEN final ELSE Target(s)
  <1>0. /\ sink' \in [Servers -> Sinks] /\ sink'[s] = "none"
        /\ \A r \in Servers : sink'[r] \in {"none", "gone", sink[r]}
    BY SinkClosed DEF DownloadDone
  <1>1. /\ stage[s] = "receiving" /\ UNCHANGED <<cached, staged, previous>>
        /\ got' = [got EXCEPT ![s] = "none"]
    BY DEF DownloadDone
  <1>2. /\ final \in Contents \ {"old"}
        /\ found \in Contents \ {"old"}
    BY <1>p DEF Target, FileInv, NoneIsOld, Shapes, Contents
  <1>3. bin' = bin \/ bin' = [bin EXCEPT ![s] = final]
    BY <1>p
  <1>4. CASE ~Accepted(found)
    <2>1. JobEnds(s) /\ TargetBecomes(s, "none") /\ UNCHANGED <<proc, cache>>
      BY <1>p, <1>4
    <2> HIDE DEF found
    <2> QED
      BY <1>0, <1>1, <1>2, <1>3, <2>1 DEF JobEnds, TargetBecomes
  <1>5. CASE Accepted(found)
    <2>1. /\ cache' = IF cached[s] THEN found ELSE cache
          /\ Apply(s, restart[s])
          /\ TargetBecomes(s, IF cached[s] \/ ~Granted(s) THEN "none" ELSE found)
      BY <1>p, <1>5
    <2> HIDE DEF found
    <2>2. CASE ~Granted(s)
      BY <1>0, <1>1, <1>2, <1>3, <1>5, <2>1, <2>2 DEF Accepted, Apply, JobEnds, TargetBecomes
    <2>3. CASE Granted(s)
      BY <1>0, <1>1, <1>2, <1>3, <1>5, <2>1, <2>3 DEF Accepted, Apply, TargetBecomes
    <2> QED
      BY <2>2, <2>3
  <1> QED
    BY <1>4, <1>5

LEMMA StopFiles == ASSUME FileInv, NEW s \in Servers, StopDone(s) PROVE FileInv'
  BY DEF StopDone, JobEnds, TmpDropped

LEMMA WorkerFiles ==
  ASSUME FileInv, NEW s \in Servers, WorkerFails(s) \/ Copy(s) \/ Backup(s) \/ Commit(s)
  PROVE  FileInv'
  <1>1. CASE WorkerFails(s)
    BY <1>1 DEF WorkerFails, fileVars
  <1>2. CASE Copy(s)
    BY <1>2 DEF Copy, Source, fileVars
  <1>3. CASE Backup(s)
    BY <1>3 DEF Backup, BackedUp
  <1>4. CASE Commit(s)
    BY <1>4 DEF Commit
  <1> QED
    BY <1>1, <1>2, <1>3, <1>4

LEMMA InstallFiles == ASSUME FileInv, NEW s \in Servers, InstallDone(s) PROVE FileInv'
  BY DEF InstallDone, JobEnds, TmpDropped

LEMMA OtherFiles == ASSUME FileInv, NEW s \in Servers, OtherStep(s) PROVE FileInv'
  <1>1. CASE Refresh(s)
    BY <1>1, Repaired DEF Refresh
  <1>2. CASE Start(s)
    <2>1. CASE HasInstallation(s)
      BY <1>2, <2>1, Repaired DEF Start
    <2>2. CASE UNCHANGED <<bin, tmp, sink, cache>>
      BY <1>2, <2>2 DEF Start
    <2> QED
      BY <1>2, <2>1, <2>2 DEF Start
  <1>3. CASE \/ Stop(s) \/ Exit(s) \/ Crash(s) \/ GiveUpRecovery(s) \/ StopDeadline(s)
             \/ ForceStop(s) \/ TakeMaintenance(s) \/ ReleaseMaintenance(s)
    BY <1>3, FilesElsewhere DEF Stop, Exit, Crash, GiveUpRecovery, StopDeadline, ForceStop,
       TakeMaintenance, ReleaseMaintenance, ServerStep, fileLock, Procs
  <1> QED
    BY <1>1, <1>2, <1>3 DEF OtherStep

LEMMA PowerLossFiles == ASSUME FileInv, PowerLoss PROVE FileInv'
  BY DEF PowerLoss, fileVars

HIDE DEF Valid, FileInv, Shapes, Procs, Stages, Sinks, Contents, NoneIsOld, SourceIsValid,
         WriterIsNew, BackupIsThere

LEMMA NextFileInv == FileInv /\ [Next]_vars => FileInv'
  <1> SUFFICES ASSUME FileInv, [Next]_vars PROVE FileInv'
    OBVIOUS
  <1>1. CASE UNCHANGED vars
    BY <1>1, FilesUntouched DEF vars, fileLock
  <1>2. ASSUME NEW s \in Servers, JobStep(s) PROVE FileInv'
    BY <1>2, BeginFiles, WaitFiles, ReadyFiles, ReceiveFiles, FailsFiles, DoneFiles, StopFiles,
       WorkerFiles, InstallFiles DEF JobStep
  <1> QED
    BY <1>1, <1>2, PowerLossFiles, OtherFiles DEF Next

LEMMA SpecFileInv == Spec => []FileInv
  BY InitFileInv, NextFileInv, PTL DEF Spec

\* Who changes an executable: only the worker one of before.
LEMMA OldIsReplacedByCommit ==
  ASSUME FileInv, [Next]_vars, NEW r \in Servers, bin[r] = "old", bin'[r] # "old"
  PROVE  Commit(r)
  <1>1. ~UNCHANGED bin
    OBVIOUS
  <1>2. ~UNCHANGED vars /\ ~PowerLoss
    BY <1>1 DEF vars, fileVars, PowerLoss
  <1>3. PICK s \in Servers : JobStep(s) \/ OtherStep(s)
    BY <1>2 DEF Next
  <1>4. CASE Receive(s) \/ DownloadDone(s)
    <2>1. s = r => sink[s] # "bin"
      BY DEF FileInv, WriterIsNew
    <2> QED
      BY <1>4, <2>1 DEF Receive, DownloadDone, FileInv, Shapes, Procs, Stages, Sinks, Contents
  <1>5. CASE Refresh(s) \/ Start(s)
    <2>1. CASE HasInstallation(s)
      BY <2>1 DEF HasInstallation, TmpRemoved, TmpPromoted, RecoveredFromCache, Valid, FileInv,
         Shapes, Procs, Stages, Sinks, Contents
    <2> QED
      BY <1>1, <1>5, <2>1 DEF Refresh, Start
  <1>6. CASE Commit(s)
    BY <1>6 DEF Commit, FileInv, Shapes, Procs, Stages, Sinks, Contents
  <1>7. CASE UNCHANGED bin
    BY <1>1, <1>7
  <1> QED
    BY <1>3, <1>4, <1>5, <1>6, <1>7
       DEF JobStep, OtherStep, Begin, WaitTick, DownloadReady, DownloadFails, StopDone,
           WorkerFails, Copy, Backup, InstallDone, Stop, Exit, Crash, GiveUpRecovery,
           StopDeadline, ForceStop, TakeMaintenance, ReleaseMaintenance, ServerStep, fileVars

-----------------------------------------------------------------------------
(* The user's stop.  A job stops its server as it takes maintenance, which *)
(* keeps every start away: what it found then stays true until it is done. *)

UserInv ==
  /\ DOMAIN restart = Servers /\ restart = [s \in Servers |-> restart[s]]
  /\ \A s \in Servers :
       /\ proc[s] = "running" => s \notin userStopped
       /\ stage[s] \in Held => proc[s] # "running" /\ (restart[s] => s \notin userStopped)

LEMMA InitUserInv == Init => UserInv
  BY DEF Init, UserInv, Held

LEMMA UserElsewhere ==
  ASSUME UserInv, UNCHANGED <<proc, stage, restart, userStopped>> PROVE UserInv'
  BY DEF UserInv

\* The stage of one job changes, and it wants no restart that it did not want.
LEMMA UserMoved ==
  ASSUME JobInv, UserInv, NEW s \in Servers, NEW to, stage' = [stage EXCEPT ![s] = to],
         stage[s] \in Held \/ to \notin Held,
         \/ UNCHANGED restart
         \/ \E wanted : restart' = [restart EXCEPT ![s] = wanted] /\ (wanted => to \notin Held),
         UNCHANGED <<proc, userStopped>>
  PROVE  UserInv'
  BY DEF UserInv, JobInv

LEMMA UserEnded ==
  ASSUME JobInv, UserInv, NEW s \in Servers, JobEnds(s), UNCHANGED <<proc, userStopped>>
  PROVE  UserInv'
  BY UserMoved DEF JobEnds, Held

LEMMA UserApplied ==
  ASSUME JobInv, UserInv, NEW s \in Servers, NEW wanted, Apply(s, wanted), UNCHANGED userStopped
  PROVE  UserInv'
  <1>1. CASE Granted(s)
    BY <1>1 DEF Apply, RestartWanted, UserInv, JobInv
  <1>2. CASE ~Granted(s)
    BY <1>2, UserEnded DEF Apply
  <1> QED
    BY <1>1, <1>2

LEMMA UserRequested ==
  ASSUME JobInv, UserInv, NEW s \in Servers, NEW wanted, Request(s, wanted),
         UNCHANGED userStopped
  PROVE  UserInv'
  BY UserMoved DEF Request, Held

LEMMA UserJobStep == ASSUME JobInv, UserInv, NEW s \in Servers, JobStep(s) PROVE UserInv'
  <1>1. CASE Begin(s)
    <2>1. UNCHANGED userStopped
      BY <1>1 DEF Begin
    <2>2. PICK wanted \in {FALSE, HasProcess(s)} : Request(s, wanted) \/ UseCache(s, wanted)
      BY <1>1, BeginChoice
    <2>3. CASE UNCHANGED proc /\ stage' = [stage EXCEPT ![s] = "waiting"]
               /\ restart' = [restart EXCEPT ![s] = wanted]
      BY <2>1, <2>3, UserMoved DEF Held
    <2> QED
      BY <2>1, <2>2, <2>3, UserRequested, UserApplied DEF UseCache
  <1>2. CASE WaitTick(s)
    <2>1. /\ UNCHANGED userStopped
          /\ \/ Apply(s, restart[s])
             \/ Request(s, restart[s])
             \/ JobEnds(s) /\ UNCHANGED proc
             \/ UNCHANGED <<proc, stage, restart>>
      BY <1>2 DEF WaitTick
    <2> QED
      BY <2>1, UserApplied, UserRequested, UserEnded, UserElsewhere
  <1>3. CASE DownloadReady(s)
    BY <1>3, UserMoved DEF DownloadReady, Held
  <1>4. CASE DownloadFails(s)
    BY <1>4, UserEnded DEF DownloadFails
  <1>5. CASE DownloadDone(s)
    <2>1. /\ UNCHANGED userStopped
          /\ Apply(s, restart[s]) \/ (JobEnds(s) /\ UNCHANGED proc)
      BY <1>5 DEF DownloadDone
    <2> QED
      BY <2>1, UserApplied, UserEnded
  <1>6. CASE StopDone(s)
    <2>1. CASE stage' = [stage EXCEPT ![s] = "copying"] /\ UNCHANGED restart
      BY <1>6, <2>1, UserMoved DEF StopDone, Held
    <2> QED
      BY <1>6, <2>1, UserEnded DEF StopDone
  <1>7. CASE WorkerFails(s) \/ Copy(s) \/ Backup(s) \/ Commit(s)
    <2>1. /\ stage[s] \in Held
          /\ \E to \in Stages : stage' = [stage EXCEPT ![s] = to]
          /\ UNCHANGED <<proc, restart, userStopped>>
      BY <1>7 DEF WorkerFails, Copy, Backup, Commit, Held, Stages
    <2> QED
      BY <2>1, UserMoved
  <1>8. CASE InstallDone(s)
    <2>1. CASE UNCHANGED <<proc, userStopped>>
      BY <1>8, <2>1, UserEnded DEF InstallDone
    <2>2. CASE proc' = [proc EXCEPT ![s] = "running"] /\ userStopped' = userStopped \ {s}
      BY <1>8, <2>2 DEF InstallDone, JobEnds, UserInv, JobInv, Held
    <2> QED
      BY <1>8, <2>1, <2>2 DEF InstallDone
  <1>9. CASE Receive(s)
    BY <1>9, UserElsewhere DEF Receive
  <1> QED
    BY <1>1, <1>2, <1>3, <1>4, <1>5, <1>6, <1>7, <1>8, <1>9 DEF JobStep

LEMMA UserOtherStep == ASSUME JobInv, UserInv, NEW s \in Servers, OtherStep(s) PROVE UserInv'
  <1>1. CASE Refresh(s) \/ TakeMaintenance(s) \/ ReleaseMaintenance(s)
    BY <1>1, UserElsewhere DEF Refresh, TakeMaintenance, ReleaseMaintenance, jobVars
  <1>2. CASE Start(s)
    <2>1. stage[s] \notin Held
      BY <1>2 DEF Start, JobInv
    <2> QED
      BY <1>2, <2>1 DEF Start, UserInv, JobInv
  <1>3. CASE Stop(s)
    BY <1>3 DEF Stop, ServerStep, jobVars, UserInv, JobInv
  <1>4. CASE \/ Exit(s) \/ Crash(s) \/ GiveUpRecovery(s) \/ StopDeadline(s) \/ ForceStop(s)
    BY <1>4 DEF Exit, Crash, GiveUpRecovery, StopDeadline, ForceStop, ServerStep, jobVars,
       UserInv, JobInv
  <1> QED
    BY <1>1, <1>2, <1>3, <1>4 DEF OtherStep

LEMMA NextUserInv == JobInv /\ UserInv /\ [Next]_vars => UserInv'
  <1> SUFFICES ASSUME JobInv, UserInv, [Next]_vars PROVE UserInv'
    OBVIOUS
  <1>1. CASE UNCHANGED vars
    BY <1>1, UserElsewhere DEF vars, jobVars
  <1>2. CASE PowerLoss
    BY <1>2 DEF PowerLoss, UserInv, Held
  <1> QED
    BY <1>1, <1>2, UserJobStep, UserOtherStep DEF Next

-----------------------------------------------------------------------------
(* The shared cache.  A job that writes to its lock has it for itself: it  *)
(* is the only one, and its stream still leads to the lock's path.         *)

Downloading(s) == cached[s] /\ stage[s] \in {"requested", "receiving"}

CacheInv ==
  /\ \A s \in Servers : sink[s] # "none" => stage[s] = "receiving"
  /\ ~takenOver =>
       /\ cache # "part"
       /\ \A s \in Servers : cached[s] /\ stage[s] = "receiving" => sink[s] \in {"path", "hidden"}
       /\ \A s, r \in Servers : Downloading(s) /\ Downloading(r) => s = r

LEMMA InitCacheInv == Init => CacheInv
  BY DEF Init, CacheInv, Downloading

LEMMA CacheElsewhere ==
  ASSUME CacheInv, UNCHANGED <<stage, cached, sink, cache, takenOver>> PROVE CacheInv'
  BY DEF CacheInv, Downloading

\* A job that receives nothing moves to where it does not download.
LEMMA CacheMoved ==
  ASSUME FileInv, CacheInv, NEW s \in Servers, NEW to, stage' = [stage EXCEPT ![s] = to],
         stage[s] # "receiving", to \notin {"requested", "receiving"},
         UNCHANGED <<sink, takenOver>>, cached' = [cached EXCEPT ![s] = cached'[s]],
         cache' \in {cache, "none"}
  PROVE  CacheInv'
  BY DEF CacheInv, Downloading, FileInv, Shapes

LEMMA ApplyMoves ==
  ASSUME NEW s \in Servers, NEW wanted, Apply(s, wanted)
  PROVE  \E to \in {"idle", "stopping"} : stage' = [stage EXCEPT ![s] = to]
  BY DEF Apply, JobEnds

LEMMA CacheBegin == ASSUME FileInv, CacheInv, NEW s \in Servers, Begin(s) PROVE CacheInv'
  <1>1. stage[s] = "idle"
    BY DEF Begin
  <1>2. \E wanted \in {FALSE, HasProcess(s)} :
          \/ /\ cached' = [cached EXCEPT ![s] = FALSE]
             /\ Request(s, wanted) /\ UNCHANGED <<sink, cache, takenOver>>
          \/ /\ cached' = [cached EXCEPT ![s] = TRUE]
             /\ UseCache(s, wanted)
    BY DEF Begin
  <1>3. PICK wanted \in {FALSE, HasProcess(s)} :
          \/ /\ cached' = [cached EXCEPT ![s] = FALSE]
             /\ Request(s, wanted) /\ UNCHANGED <<sink, cache, takenOver>>
          \/ /\ cached' = [cached EXCEPT ![s] = TRUE]
             /\ UseCache(s, wanted)
    BY <1>2
  <1>4. CASE /\ cached' = [cached EXCEPT ![s] = FALSE]
             /\ Request(s, wanted) /\ UNCHANGED <<sink, cache, takenOver>>
    BY <1>1, <1>4 DEF Request, CacheInv, Downloading, FileInv, Shapes
  <1>5. CASE /\ cached' = [cached EXCEPT ![s] = TRUE]
             /\ Apply(s, wanted) /\ UNCHANGED <<sink, cache, takenOver>>
    BY <1>1, <1>5, ApplyMoves, CacheMoved DEF FileInv, Shapes
  <1>6. CASE /\ cached' = [cached EXCEPT ![s] = TRUE] /\ cache' = "none"
             /\ stage' = [stage EXCEPT ![s] = "waiting"] /\ UNCHANGED <<sink, takenOver>>
    <2>1. cached' = [cached EXCEPT ![s] = cached'[s]] /\ cache' \in {cache, "none"}
      BY <1>6 DEF FileInv, Shapes
    <2>2. stage[s] # "receiving" /\ "waiting" \notin {"requested", "receiving"}
      BY <1>1
    <2> QED
      BY <1>6, <2>1, <2>2, CacheMoved
  <1>7. CASE /\ cached' = [cached EXCEPT ![s] = TRUE] /\ cache' = "none"
             /\ Request(s, wanted) /\ sink' = Detached
             /\ takenOver' = (takenOver \/ \E r \in Servers :
                                cached[r] /\ stage[r] \in {"requested", "receiving"})
    <2>1. \A r \in Servers : sink'[r] # "none" => sink[r] # "none"
      BY <1>7 DEF Detached
    <2>2. ~takenOver' => ~takenOver /\ \A r \in Servers : ~Downloading(r)
      BY <1>7 DEF Downloading
    <2> QED
      BY <1>1, <1>7, <2>1, <2>2 DEF Request, CacheInv, Downloading, FileInv, Shapes
  <1> QED
    BY <1>3, <1>4, <1>5, <1>6, <1>7 DEF UseCache

LEMMA CacheWait == ASSUME FileInv, CacheInv, NEW s \in Servers, WaitTick(s) PROVE CacheInv'
  <1>1. stage[s] = "waiting" /\ UNCHANGED <<sink, takenOver>>
    BY DEF WaitTick, bounds
  <1>2. CASE Apply(s, restart[s]) /\ UNCHANGED <<cached, cache>>
    BY <1>1, <1>2, ApplyMoves, CacheMoved DEF FileInv, Shapes
  <1>3. CASE /\ cached' = [cached EXCEPT ![s] = FALSE] /\ UNCHANGED cache
             /\ Request(s, restart[s]) \/ JobEnds(s)
    BY <1>1, <1>3 DEF Request, JobEnds, CacheInv, Downloading, FileInv, Shapes
  <1>4. CASE cache' = "none" /\ UNCHANGED <<stage, cached>>
    BY <1>1, <1>4 DEF CacheInv, Downloading
  <1> QED
    BY <1>2, <1>3, <1>4 DEF WaitTick

LEMMA CacheReady == ASSUME FileInv, CacheInv, NEW s \in Servers, DownloadReady(s) PROVE CacheInv'
  <1>1. /\ stage[s] = "requested" /\ stage' = [stage EXCEPT ![s] = "receiving"]
        /\ UNCHANGED <<cached, cache, takenOver>>
        /\ \E to \in {"path", "hidden"} : sink' = [sink EXCEPT ![s] = to]
    BY DEF DownloadReady, bounds
  <1> QED
    BY <1>1 DEF CacheInv, Downloading, FileInv, Shapes

\* What the end of a download does to the streams of others.
LEMMA CacheClosed ==
  ASSUME FileInv, CacheInv, NEW s \in Servers, stage[s] \in {"requested", "receiving"},
         sink' = [(IF cached[s] THEN Detached ELSE sink) EXCEPT ![s] = "none"],
         NEW to, stage' = [stage EXCEPT ![s] = to], to \notin {"requested", "receiving"},
         UNCHANGED <<cached, takenOver>>, ~takenOver => cache' # "part"
  PROVE  CacheInv'
  <1>1. sink'[s] = "none" /\ \A r \in Servers : sink'[r] # "none" => sink[r] # "none" /\ r # s
    <2>1. sink'[s] = "none"
      BY SinkClosed
    <2>2. ASSUME NEW r \in Servers, r # s PROVE sink'[r] \in {sink[r], Detached[r]}
      BY <2>2 DEF Detached, FileInv, Shapes
    <2>3. \A r \in Servers : Detached[r] # "none" => sink[r] # "none"
      BY DEF Detached
    <2> QED
      BY <2>1, <2>2, <2>3
  <1>2. ASSUME ~takenOver, NEW r \in Servers, r # s, cached[r], stage[r] = "receiving"
        PROVE  sink'[r] = sink[r]
    <2>1. ~cached[s]
      BY <1>2 DEF CacheInv, Downloading
    <2> QED
      BY <1>2, <2>1 DEF FileInv, Shapes
  <1> QED
    BY <1>1, <1>2 DEF CacheInv, Downloading, FileInv, Shapes

LEMMA CacheFails == ASSUME FileInv, CacheInv, NEW s \in Servers, DownloadFails(s) PROVE CacheInv'
  <1>1. /\ stage[s] \in {"requested", "receiving"} /\ stage' = [stage EXCEPT ![s] = "idle"]
        /\ sink' = [(IF cached[s] THEN Detached ELSE sink) EXCEPT ![s] = "none"]
        /\ UNCHANGED <<cached, cache, takenOver>>
    BY DEF DownloadFails, JobEnds, bounds
  <1>2. "idle" \notin {"requested", "receiving"} /\ (~takenOver => cache' # "part")
    BY <1>1 DEF CacheInv
  <1> QED
    BY <1>1, <1>2, CacheClosed

LEMMA CacheDone == ASSUME FileInv, CacheInv, NEW s \in Servers, DownloadDone(s) PROVE CacheInv'
  <1>1. /\ stage[s] = "receiving" /\ UNCHANGED <<cached, takenOver>>
        /\ sink' = [(IF cached[s] THEN Detached ELSE sink) EXCEPT ![s] = "none"]
    BY DEF DownloadDone, bounds
  <1>2. PICK final \in {"new"} \union ({got[s]} \ {"part"}) :
          LET found == IF sink[s] \in {"hidden", "path"} THEN final ELSE Target(s) IN
          IF Accepted(found)
            THEN /\ cache' = IF cached[s] THEN found ELSE cache
                 /\ Apply(s, restart[s])
            ELSE JobEnds(s) /\ UNCHANGED cache
    BY DEF DownloadDone
  <1>3. \E to \in {"idle", "stopping"} : stage' = [stage EXCEPT ![s] = to]
    BY <1>2, ApplyMoves DEF JobEnds
  <1>4. ASSUME ~takenOver PROVE cache' # "part"
    <2>1. CASE cached[s]
      <3>1. sink[s] \in {"hidden", "path"} /\ cache # "part"
        BY <1>1, <1>4, <2>1 DEF CacheInv
      <3> QED
        BY <1>2, <3>1
    <2>2. CASE ~cached[s]
      BY <1>2, <1>4, <2>2 DEF CacheInv
    <2> QED
      BY <2>1, <2>2
  <1> QED
    BY <1>1, <1>3, <1>4, CacheClosed

LEMMA CacheWorker ==
  ASSUME FileInv, CacheInv, NEW s \in Servers,
         \/ StopDone(s) \/ WorkerFails(s) \/ Copy(s) \/ Backup(s) \/ Commit(s) \/ InstallDone(s)
  PROVE  CacheInv'
  <1>1. /\ stage[s] \notin {"requested", "receiving"}
        /\ \E to \in Stages \ {"requested", "receiving"} : stage' = [stage EXCEPT ![s] = to]
        /\ UNCHANGED <<sink, cached, cache, takenOver>>
    BY DEF StopDone, WorkerFails, Copy, Backup, Commit, InstallDone, JobEnds, Stages, bounds,
           fileVars
  <1> QED
    BY <1>1, CacheMoved DEF FileInv, Shapes

\* A repair finds the streams of direct downloads only.
LEMMA CacheRepaired ==
  ASSUME FileInv, CacheInv, NEW s \in Servers, HasInstallation(s),
         UNCHANGED <<stage, cached, takenOver>>
  PROVE  CacheInv'
  <1>1. cache' \in {cache, "none"}
    BY DEF HasInstallation, TmpRemoved, TmpPromoted, RecoveredFromCache
  <1>2. PICK to : /\ sink' = [sink EXCEPT ![s] = to]
                  /\ sink[s] = "none" => to = "none"
                  /\ cached[s] /\ sink[s] \in {"path", "hidden"} => to = sink[s]
    BY DEF HasInstallation, TmpRemoved, TmpPromoted, RecoveredFromCache, TmpWriter
  <1> QED
    BY <1>1, <1>2 DEF CacheInv, Downloading, FileInv, Shapes

LEMMA CacheOther == ASSUME FileInv, CacheInv, NEW s \in Servers, OtherStep(s) PROVE CacheInv'
  <1>1. CASE Refresh(s) \/ Start(s)
    <2>1. UNCHANGED <<stage, cached, takenOver>>
      BY <1>1 DEF Refresh, Start, bounds
    <2>2. HasInstallation(s) \/ UNCHANGED <<sink, cache>>
      BY <1>1 DEF Refresh, Start
    <2> QED
      BY <2>1, <2>2, CacheRepaired, CacheElsewhere
  <1>2. CASE \/ Stop(s) \/ Exit(s) \/ Crash(s) \/ GiveUpRecovery(s) \/ StopDeadline(s)
             \/ ForceStop(s) \/ TakeMaintenance(s) \/ ReleaseMaintenance(s)
    BY <1>2, CacheElsewhere DEF Stop, Exit, Crash, GiveUpRecovery, StopDeadline, ForceStop,
       TakeMaintenance, ReleaseMaintenance, ServerStep, jobVars, fileVars, bounds
  <1> QED
    BY <1>1, <1>2 DEF OtherStep

LEMMA NextCacheInv == FileInv /\ CacheInv /\ [Next]_vars => CacheInv'
  <1> SUFFICES ASSUME FileInv, CacheInv, [Next]_vars PROVE CacheInv'
    OBVIOUS
  <1>1. CASE UNCHANGED vars
    BY <1>1, CacheElsewhere DEF vars, jobVars, fileVars, bounds
  <1>2. CASE PowerLoss
    BY <1>2 DEF PowerLoss, CacheInv, Downloading, fileVars
  <1>3. ASSUME NEW s \in Servers, JobStep(s) PROVE CacheInv'
    <2>1. CASE Receive(s)
      BY <2>1, CacheElsewhere DEF Receive, bounds
    <2> QED
      BY <1>3, <2>1, CacheBegin, CacheWait, CacheReady, CacheFails, CacheDone, CacheWorker
         DEF JobStep
  <1> QED
    BY <1>1, <1>2, <1>3, CacheOther DEF Next

-----------------------------------------------------------------------------
(* Theorems.                                                               *)

\* "The caller must prevent server starts until this operation has finished"
\* (server-maintenance.h): no process of a server exists while the worker of
\* binary_install_worker replaces its executable, whatever other servers,
\* refreshes, timers and power losses do.
THEOREM WorkerIsAlone == Spec => []NoProcessUnderWorker
  BY SpecJobInv, JobInvImplies, PTL

\* Every path of the callback chain from apply_downloaded_binary to
\* on_binary_install_done holds maintenance from its first step to its last.
THEOREM JobsHoldMaintenance == Spec => []MaintenanceFollowsJob
  BY SpecJobInv, JobInvImplies, PTL

\* An installed executable of before is only ever replaced by the worker, under
\* maintenance, in one step, by something binary_file_is_valid accepts, and with
\* itself retained as .previous, whatever a refresh renames and removes beside
\* the job and wherever a power loss falls.
THEOREM OldExecutableIsRetained == Spec => OldIsRetained
  <1>1. JobInv /\ FileInv /\ [Next]_vars =>
          [\A s \in Servers :
             bin[s] = "old" /\ bin'[s] # "old" =>
               holder[s] = "update" /\ previous[s] = "old" /\ Valid(bin'[s])]_vars
    <2> SUFFICES ASSUME JobInv, FileInv, [Next]_vars, NEW s \in Servers,
                        bin[s] = "old", bin'[s] # "old"
                 PROVE  holder[s] = "update" /\ previous[s] = "old" /\ Valid(bin'[s])
      OBVIOUS
    <2>1. Commit(s)
      BY OldIsReplacedByCommit
    <2>2. stage[s] = "commit" /\ bin'[s] = staged[s]
      BY <2>1 DEF Commit, FileInv, Shapes, Procs, Stages, Sinks, Contents
    <2> QED
      BY <2>2 DEF JobInv, Held, FileInv, SourceIsValid, BackupIsThere
  <1> QED
    BY <1>1, SpecJobInv, SpecFileInv, PTL DEF Spec, OldIsRetained

\* "A manual stop during download takes precedence over automatic restarting"
\* (apply_downloaded_binary): however late the user stops the server, the job that
\* has waited, downloaded or installed meanwhile does not start it again.
THEOREM StopsByUserStand == Spec => ManualStopWins
  <1>1. JobInv /\ UserInv /\ [Next]_vars =>
          [\A s \in Servers :
             stage[s] = "done" /\ ~HasProcess(s) /\ proc'[s] = "running"
               => s \notin userStopped]_vars
    <2> SUFFICES ASSUME JobInv, UserInv, [Next]_vars, NEW r \in Servers,
                        stage[r] = "done", ~HasProcess(r), proc'[r] = "running"
                 PROVE  r \notin userStopped
      OBVIOUS
    <2>1. holder[r] = "update" /\ proc[r] # "running"
      BY DEF JobInv, Held, HasProcess
    <2>2. ~UNCHANGED vars /\ ~PowerLoss
      BY <2>1 DEF vars, PowerLoss
    <2>3. PICK s \in Servers : JobStep(s) \/ OtherStep(s)
      BY <2>2 DEF Next
    <2>4. InstallDone(r) /\ restart[r]
      <3>1. ASSUME NEW wanted, Apply(s, wanted) PROVE FALSE
        BY <2>1, <3>1 DEF Apply, JobInv
      <3>2. ~UNCHANGED proc
        BY <2>1
      <3>3. ~Start(s) /\ ~Stop(s) /\ ~Exit(s) /\ ~Crash(s) /\ ~GiveUpRecovery(s)
            /\ ~StopDeadline(s) /\ ~ForceStop(s)
        BY <2>1 DEF Start, Stop, Exit, Crash, GiveUpRecovery, StopDeadline, ForceStop, ServerStep,
           JobInv
      <3>4. ~Begin(s) /\ ~WaitTick(s) /\ ~DownloadDone(s)
        BY <3>1, <3>2, BeginChoice DEF UseCache, Request, WaitTick, DownloadDone
      <3>5. InstallDone(s)
        BY <2>3, <3>2, <3>3, <3>4
           DEF JobStep, OtherStep, DownloadReady, Receive, DownloadFails, StopDone, WorkerFails,
               Copy, Backup, Commit, Refresh, TakeMaintenance, ReleaseMaintenance
      <3> QED
        BY <2>1, <3>2, <3>5 DEF InstallDone, JobInv
    <2> QED
      BY <2>4 DEF UserInv, Held
  <1>2. Spec => []UserInv
    BY SpecJobInv, InitUserInv, NextUserInv, PTL DEF Spec
  <1> QED
    BY <1>1, <1>2, SpecJobInv, PTL DEF Spec, ManualStopWins

\* What is published in the shared cache is a whole download, whatever fails, is
\* refreshed or ends in a power failure, as long as no lock was taken over from a
\* job still at work: the cache is written by nobody but the owner of the lock.
THEOREM CacheIsWhole == Spec => []CacheIsComplete
  <1>1. CacheInv => CacheIsComplete
    BY DEF CacheInv, CacheIsComplete
  <1> QED
    BY <1>1, SpecFileInv, InitCacheInv, NextCacheInv, PTL DEF Spec
=============================================================================
