----------------------------- MODULE UpdateFlow -----------------------------
(***************************************************************************)
(* Installing and updating the Pumpkin executable: the download jobs of    *)
(* src/src/window.c (start_download_for_server to finish_download_         *)
(* application), the cache that several servers share, the worker thread   *)
(* of src/src/server-maintenance.c and the repair that looks at the same   *)
(* files from every refresh of the overview (server_has_installation).     *)
(*                                                                         *)
(* A file is known by what it holds.  "part" is a download that was cut    *)
(* off: binary_file_is_valid looks at size and magic number only and takes *)
(* it for an executable.  Everything that is not one is "junk".  The job   *)
(* of a server is where its callback chain stands; the last three stages   *)
(* before "done" run in a worker thread.                                   *)
(***************************************************************************)
EXTENDS Naturals

CONSTANTS
  Servers,        \* the servers of the store
  MaxAttempts,    \* ticks a job waits for the download of another job
  MaxJobs,        \* bound: jobs begun in all
  MaxLaunches,    \* bound: processes launched in all
  MaxCrashes      \* bound: times the whole program ends without cleaning up

ASSUME UpdateAssumption ==
  /\ MaxAttempts \in Nat \ {0}
  /\ MaxJobs \in Nat /\ MaxLaunches \in Nat /\ MaxCrashes \in Nat

VARIABLES
  proc,        \* per server, what its process does
  holder,      \* per server, who was granted maintenance
  stage,       \* per server, where its job stands
  cached,      \* per server, the job uses the shared cache (use_cache)
  restart,     \* per server, restart_after_download
  attempts,    \* per server, ticks its job has waited
  sink,        \* per server, where the bytes of its download go
  got,         \* per server, what they amount to
  staged,      \* per server, the worker's staging file
  bin,         \* per server, the executable
  tmp,         \* per server, the executable's .tmp, for direct downloads
  previous,    \* per server, the executable's .previous
  cache,       \* the cached executable of the latest build
  lock,        \* its .tmp: download target and lock of the shared cache
  userStopped, \* history: servers whose running process the user stopped last
  takenOver,   \* history: a lock was taken over from a job still at work
  jobs, launches, crashes

jobVars == <<stage, cached, restart, attempts, sink, got, staged>>
fileVars == <<bin, tmp, previous, cache, lock>>
bounds == <<takenOver, jobs, launches, crashes>>
vars == <<proc, holder, jobVars, fileVars, userStopped, bounds>>

Contents == {"none", "junk", "part", "old", "new"}
Procs == {"stopped", "running", "stopping", "timedOut", "killed", "backoff"}
Stages == {"idle", "waiting", "requested", "receiving", "stopping",
           "copying", "backup", "commit", "done", "failed"}

\* Files "hidden" are GLib's temporary ones, which a close renames to the path
\* that was asked for; "path" is that path itself.  "bin" and "gone" is where
\* an open file ends up when it is renamed or removed by someone else.
Sinks == {"none", "hidden", "path", "bin", "gone"}

\* binary_file_is_valid
Valid(content) == content \in {"part", "old", "new"}

HasProcess(s) == proc[s] \in {"running", "stopping", "timedOut", "killed"}

\* The file the download of a job is written to, and the one it installs.
Target(s) == IF cached[s] THEN lock ELSE tmp[s]
Source(s) == IF cached[s] THEN cache ELSE tmp[s]

\* The file at the lock's path is replaced or removed: whoever writes to it by
\* that name now writes to a file without one.
Detached ==
  [s \in Servers |-> IF cached[s] /\ sink[s] = "path" THEN "gone" ELSE sink[s]]

-----------------------------------------------------------------------------
(* finish_download_application and apply_downloaded_binary.                *)

\* Seeded fault: a server that is still stopping counts as running.
RestartWhileStopping(s, wanted) == wanted /\ HasProcess(s)

\* "A manual stop during download takes precedence over automatic
\* restarting."
RestartWanted(s, wanted) == wanted /\ proc[s] = "running"

\* pumpkin_server_begin_maintenance
Granted(s) == holder[s] = "none" /\ proc[s] # "backoff"

\* Seeded fault: the job ends without giving maintenance back.
JobEndsUnreleased(s) ==
  /\ stage' = [stage EXCEPT ![s] = "idle"]
  /\ restart' = [restart EXCEPT ![s] = FALSE]
  /\ UNCHANGED holder

JobEnds(s) ==
  /\ stage' = [stage EXCEPT ![s] = "idle"]
  /\ restart' = [restart EXCEPT ![s] = FALSE]
  /\ holder' = [holder EXCEPT ![s] = IF @ = "update" THEN "none" ELSE @]

Apply(s, wanted) ==
  IF Granted(s)
    THEN /\ stage' = [stage EXCEPT ![s] = "stopping"]
         /\ holder' = [holder EXCEPT ![s] = "update"]
         /\ restart' = [restart EXCEPT ![s] = RestartWanted(s, wanted)]
         /\ proc' = [proc EXCEPT ![s] = IF @ = "running" THEN "stopping" ELSE @]
    ELSE JobEnds(s) /\ UNCHANGED proc

\* A direct download leaves nothing behind.
TmpDropped(s) == IF cached[s] THEN tmp ELSE [tmp EXCEPT ![s] = "none"]

-----------------------------------------------------------------------------
(* server_has_installation, run for every server by each refresh of the    *)
(* overview and by most ways to start one: what it does to one server.     *)

\* Whoever downloads to the server's .tmp ...
TmpWriter(s, to) == [sink EXCEPT ![s] = IF @ = "path" /\ ~cached[s] THEN to
                                        ELSE IF @ = "bin" THEN "gone" ELSE @]

\* A valid executable makes a .tmp superfluous.
TmpRemoved(s) ==
  /\ Valid(bin[s])
  /\ tmp' = [tmp EXCEPT ![s] = "none"]
  /\ sink' = [sink EXCEPT ![s] = IF @ = "path" /\ ~cached[s] THEN "gone" ELSE @]
  /\ UNCHANGED <<bin, cache>>

\* Without one, a .tmp that looks like an executable becomes it.
TmpPromoted(s) ==
  /\ ~Valid(bin[s]) /\ Valid(tmp[s])
  /\ bin' = [bin EXCEPT ![s] = tmp[s]]
  /\ tmp' = [tmp EXCEPT ![s] = "none"]
  /\ sink' = TmpWriter(s, "bin")
  /\ UNCHANGED cache

\* recover_server_binary_from_cache, if the server's metadata lead to it.
RecoveredFromCache(s) ==
  /\ ~Valid(bin[s]) /\ ~Valid(tmp[s])
  /\ tmp' = [tmp EXCEPT ![s] = "none"]
  /\ sink' = TmpWriter(s, "gone")
  /\ \E found \in BOOLEAN :
       /\ bin' = [bin EXCEPT ![s] = IF found /\ Valid(cache) THEN cache ELSE "none"]
       /\ cache' = IF found /\ ~Valid(cache) THEN "none" ELSE cache

HasInstallation(s) == TmpRemoved(s) \/ TmpPromoted(s) \/ RecoveredFromCache(s)

\* A refresh of the overview comes to server s.
Refresh(s) ==
  /\ HasInstallation(s)
  /\ UNCHANGED <<proc, holder, stage, cached, restart, attempts, got, staged,
                 previous, lock, userStopped, bounds>>

-----------------------------------------------------------------------------
(* Beginning a job: start_download_for_server.                             *)

Request(s, wanted) ==
  /\ stage' = [stage EXCEPT ![s] = "requested"]
  /\ restart' = [restart EXCEPT ![s] = wanted]
  /\ UNCHANGED <<proc, holder>>

\* Seeded fault: the lock is not looked at.
UseCacheUnlocked(s, wanted) ==
  IF Valid(cache)
    THEN Apply(s, wanted) /\ UNCHANGED <<sink, cache, lock, takenOver>>
    ELSE /\ cache' = "none"
         /\ Request(s, wanted)
         /\ lock' = "junk"
         /\ sink' = Detached
         /\ UNCHANGED takenOver

\* The cache has the build; or another job is downloading it, unless its lock
\* is stale (300 seconds old); or this one downloads it, which an empty
\* placeholder announces.
UseCache(s, wanted) ==
  IF Valid(cache)
    THEN Apply(s, wanted) /\ UNCHANGED <<sink, cache, lock, takenOver>>
    ELSE /\ cache' = "none"
         /\ \/ /\ lock # "none"
               /\ stage' = [stage EXCEPT ![s] = "waiting"]
               /\ restart' = [restart EXCEPT ![s] = wanted]
               /\ UNCHANGED <<proc, holder, sink, lock, takenOver>>
            \/ /\ Request(s, wanted)
               /\ lock' = "junk"
               /\ sink' = Detached
               /\ takenOver' = (takenOver \/ \E r \in Servers :
                                  cached[r] /\ stage[r] \in {"requested", "receiving"})

\* Install, update and automatic update: refused under maintenance and while
\* the server has an active job.  Only an update of a running server restarts;
\* the countdown of the automatic one does not mind that it is stopping.
Begin(s) ==
  /\ stage[s] = "idle"
  /\ holder[s] = "none"
  /\ jobs < MaxJobs
  /\ jobs' = jobs + 1
  /\ \E wanted \in {FALSE, HasProcess(s)}, useCache \in BOOLEAN :
       /\ cached' = [cached EXCEPT ![s] = useCache]
       /\ IF useCache THEN UseCache(s, wanted)
                      ELSE Request(s, wanted) /\ UNCHANGED <<sink, cache, lock, takenOver>>
  /\ attempts' = [attempts EXCEPT ![s] = 0]
  /\ UNCHANGED <<got, staged, bin, tmp, previous, userStopped, launches, crashes>>

\* Seeded fault: the ticks are not counted.
WaitedForgotten(s) == attempts[s]

Waited(s) == attempts[s] + 1

\* 300 ticks of 250 ms.
GiveUpWaiting(s) == Waited(s) >= MaxAttempts

\* on_wait_for_shared_cache_tick.  A job that gives up begins anew, without
\* the cache; it is refused if maintenance has begun meanwhile.
WaitTick(s) ==
  /\ stage[s] = "waiting"
  /\ IF Valid(cache)
       THEN Apply(s, restart[s]) /\ UNCHANGED <<cached, attempts, cache>>
     ELSE IF cache = "none" /\ GiveUpWaiting(s)
       THEN /\ cached' = [cached EXCEPT ![s] = FALSE]
            /\ attempts' = [attempts EXCEPT ![s] = 0]
            /\ IF holder[s] = "none" THEN Request(s, restart[s])
                                     ELSE JobEnds(s) /\ UNCHANGED proc
            /\ UNCHANGED cache
       ELSE /\ attempts' = [attempts EXCEPT ![s] = Waited(s)]
            /\ cache' = "none"
            /\ UNCHANGED <<proc, holder, stage, cached, restart>>
  /\ UNCHANGED <<sink, got, staged, bin, tmp, previous, lock, userStopped, bounds>>

-----------------------------------------------------------------------------
(* The download: download.c over GLib's g_file_replace.                    *)

\* The target of the job of s becomes content.
TargetBecomes(s, content) ==
  /\ lock' = IF cached[s] THEN content ELSE lock
  /\ tmp' = IF cached[s] THEN tmp ELSE [tmp EXCEPT ![s] = content]

\* on_download_ready: a target that does not exist is created and written in
\* place, an existing one is replaced when the stream is closed.
DownloadReady(s) ==
  /\ stage[s] = "requested"
  /\ stage' = [stage EXCEPT ![s] = "receiving"]
  /\ got' = [got EXCEPT ![s] = "junk"]
  /\ IF Target(s) = "none"
       THEN sink' = [sink EXCEPT ![s] = "path"] /\ TargetBecomes(s, "junk")
       ELSE sink' = [sink EXCEPT ![s] = "hidden"] /\ UNCHANGED <<lock, tmp>>
  /\ UNCHANGED <<proc, holder, cached, restart, attempts, staged, bin, previous, cache,
                 userStopped, bounds>>

\* on_write_chunk, once enough has come to look like an executable.
Receive(s) ==
  /\ stage[s] = "receiving" /\ got[s] = "junk"
  /\ got' = [got EXCEPT ![s] = "part"]
  /\ IF sink[s] = "path" THEN TargetBecomes(s, "part") ELSE UNCHANGED <<lock, tmp>>
  /\ bin' = IF sink[s] = "bin" THEN [bin EXCEPT ![s] = "part"] ELSE bin
  /\ UNCHANGED <<proc, holder, stage, cached, restart, attempts, sink, staged, previous,
                 cache, userStopped, bounds>>

\* A refused request, an HTTP error, a broken connection.  The target is
\* removed; then the stream is disposed of, which puts a hidden file there.
DownloadFails(s) ==
  /\ stage[s] \in {"requested", "receiving"}
  /\ TargetBecomes(s, IF sink[s] = "hidden" THEN got[s] ELSE "none")
  /\ sink' = [(IF cached[s] THEN Detached ELSE sink) EXCEPT ![s] = "none"]
  /\ got' = [got EXCEPT ![s] = "none"]
  /\ JobEnds(s)
  /\ UNCHANGED <<proc, cached, attempts, staged, bin, previous, cache, userStopped, bounds>>

\* Seeded fault: what was received is not looked at.
AcceptedUnseen(content) == content # "none"

\* on_download_done takes what is at the target for the download if it is
\* valid, whoever wrote it.
Accepted(content) == Valid(content)

\* The stream is closed without an error and on_download_done runs.
DownloadDone(s) ==
  /\ stage[s] = "receiving"
  /\ \E final \in {"new"} \union ({got[s]} \ {"part"}) :
       LET found == IF sink[s] \in {"hidden", "path"} THEN final ELSE Target(s) IN
       /\ bin' = IF sink[s] = "bin" THEN [bin EXCEPT ![s] = final] ELSE bin
       /\ IF Accepted(found)
            THEN /\ cache' = IF cached[s] THEN found ELSE cache
                 /\ Apply(s, restart[s])
                 /\ TargetBecomes(s, IF cached[s] \/ ~Granted(s) THEN "none" ELSE found)
            ELSE JobEnds(s) /\ TargetBecomes(s, "none") /\ UNCHANGED <<proc, cache>>
  /\ sink' = [(IF cached[s] THEN Detached ELSE sink) EXCEPT ![s] = "none"]
  /\ got' = [got EXCEPT ![s] = "none"]
  /\ UNCHANGED <<cached, attempts, staged, previous, userStopped, bounds>>

-----------------------------------------------------------------------------
(* Stopping the server and installing: server-maintenance.c.               *)

\* Seeded faults: wait_for_stop takes a stop that timed out for a stop, or
\* goes on waiting after it.
StoppedOrTimedOut(s) == proc[s] \notin {"running", "stopping", "killed"}
TimedOutIgnored(s) == FALSE

\* wait_for_stop: the process is gone ...
Stopped(s) == ~HasProcess(s)

\* ... or was given up.
StopTimedOut(s) == proc[s] = "timedOut"

\* on_install_server_stopped
StopDone(s) ==
  /\ stage[s] = "stopping"
  /\ \/ /\ Stopped(s)
        /\ stage' = [stage EXCEPT ![s] = "copying"]
        /\ UNCHANGED <<holder, restart, tmp>>
     \/ /\ StopTimedOut(s)
        /\ JobEnds(s)
        /\ tmp' = TmpDropped(s)
  /\ UNCHANGED <<proc, cached, attempts, sink, got, staged, bin, previous, cache, lock,
                 userStopped, bounds>>

WorkerFails(s) ==
  /\ stage[s] \in {"copying", "backup", "commit"}
  /\ stage' = [stage EXCEPT ![s] = "failed"]
  /\ staged' = [staged EXCEPT ![s] = "none"]
  /\ UNCHANGED <<proc, holder, cached, restart, attempts, sink, got, fileVars, userStopped, bounds>>

\* binary_install_worker: stage a copy of the source, ...
Copy(s) ==
  /\ stage[s] = "copying"
  /\ Source(s) # "none"
  /\ staged' = [staged EXCEPT ![s] = Source(s)]
  /\ stage' = [stage EXCEPT ![s] = "backup"]
  /\ UNCHANGED <<proc, holder, cached, restart, attempts, sink, got, fileVars, userStopped, bounds>>

\* Seeded fault: the backup is not renamed to its place.
BackedUpNever(s) == previous

\* ... keep a copy of what it replaces, ...
BackedUp(s) == [previous EXCEPT ![s] = IF bin[s] = "none" THEN @ ELSE bin[s]]

Backup(s) ==
  /\ stage[s] = "backup"
  /\ previous' = BackedUp(s)
  /\ stage' = [stage EXCEPT ![s] = "commit"]
  /\ UNCHANGED <<proc, holder, cached, restart, attempts, sink, got, staged, bin, tmp, cache,
                 lock, userStopped, bounds>>

\* ... and replace it.
Commit(s) ==
  /\ stage[s] = "commit"
  /\ bin' = [bin EXCEPT ![s] = staged[s]]
  /\ staged' = [staged EXCEPT ![s] = "none"]
  /\ stage' = [stage EXCEPT ![s] = "done"]
  /\ UNCHANGED <<proc, holder, cached, restart, attempts, sink, got, tmp, previous, cache,
                 lock, userStopped, bounds>>

\* on_binary_install_done.  The restart may be refused or fail.
InstallDone(s) ==
  /\ stage[s] \in {"done", "failed"}
  /\ JobEnds(s)
  /\ tmp' = IF stage[s] = "done" /\ restart[s] THEN [tmp EXCEPT ![s] = "none"] ELSE TmpDropped(s)
  /\ \/ UNCHANGED <<proc, userStopped, launches>>
     \/ /\ stage[s] = "done" /\ restart[s] /\ launches < MaxLaunches
        /\ proc' = [proc EXCEPT ![s] = "running"]
        /\ launches' = launches + 1
        /\ userStopped' = userStopped \ {s}
  /\ UNCHANGED <<cached, attempts, sink, got, staged, bin, previous, cache, lock,
                 takenOver, jobs, crashes>>

-----------------------------------------------------------------------------
(* The server, started and stopped by others, and the others' maintenance. *)

\* start_server_internal and the automatic start at launch, which does not
\* look at the job; the crash restart and a requested one do not look at the
\* files either.
Start(s) ==
  /\ proc[s] \in {"stopped", "backoff"}
  /\ holder[s] = "none"
  /\ launches < MaxLaunches
  /\ \/ HasInstallation(s) /\ Valid(bin'[s])
     \/ bin[s] # "none" /\ UNCHANGED <<bin, tmp, sink, cache>>
  /\ proc' = [proc EXCEPT ![s] = "running"]
  /\ launches' = launches + 1
  /\ userStopped' = userStopped \ {s}
  /\ UNCHANGED <<holder, stage, cached, restart, attempts, got, staged, previous, lock,
                 takenOver, jobs, crashes>>

\* A step of the server's process or its timers.
ServerStep(s, from, to) ==
  /\ proc[s] \in from
  /\ proc' = [proc EXCEPT ![s] = to]
  /\ UNCHANGED <<holder, jobVars, fileVars, bounds>>

Stop(s) ==
  ServerStep(s, {"running"}, "stopping") /\ userStopped' = userStopped \union {s}

Exit(s) == ServerStep(s, {"running", "stopping", "timedOut", "killed"}, "stopped") /\ UNCHANGED userStopped
Crash(s) == ServerStep(s, {"running"}, "backoff") /\ UNCHANGED userStopped
GiveUpRecovery(s) == ServerStep(s, {"backoff"}, "stopped") /\ UNCHANGED userStopped
StopDeadline(s) == ServerStep(s, {"stopping"}, "timedOut") /\ UNCHANGED userStopped
ForceStop(s) == ServerStep(s, {"stopping", "timedOut"}, "killed") /\ UNCHANGED userStopped

\* Worlds and the map bridge take maintenance for themselves.
TakeMaintenance(s) ==
  /\ Granted(s)
  /\ holder' = [holder EXCEPT ![s] = "other"]
  /\ UNCHANGED <<proc, jobVars, fileVars, userStopped, bounds>>

ReleaseMaintenance(s) ==
  /\ holder[s] = "other"
  /\ holder' = [holder EXCEPT ![s] = "none"]
  /\ UNCHANGED <<proc, jobVars, fileVars, userStopped, bounds>>

\* The machine goes down with everything that runs; files stay as they are.
PowerLoss ==
  /\ crashes < MaxCrashes
  /\ crashes' = crashes + 1
  /\ proc' = [s \in Servers |-> "stopped"]
  /\ holder' = [s \in Servers |-> "none"]
  /\ stage' = [s \in Servers |-> "idle"]
  /\ restart' = [s \in Servers |-> FALSE]
  /\ sink' = [s \in Servers |-> "none"]
  /\ got' = [s \in Servers |-> "none"]
  /\ staged' = [s \in Servers |-> "none"]
  /\ UNCHANGED <<cached, attempts, fileVars, userStopped, takenOver, jobs, launches>>

-----------------------------------------------------------------------------
Init ==
  /\ proc = [s \in Servers |-> "stopped"]
  /\ holder = [s \in Servers |-> "none"]
  /\ stage = [s \in Servers |-> "idle"]
  /\ cached = [s \in Servers |-> FALSE] /\ restart = [s \in Servers |-> FALSE]
  /\ attempts = [s \in Servers |-> 0]
  /\ sink = [s \in Servers |-> "none"] /\ got = [s \in Servers |-> "none"]
  /\ staged = [s \in Servers |-> "none"]
  /\ bin \in [Servers -> {"none", "old"}]
  /\ tmp = [s \in Servers |-> "none"] /\ previous = [s \in Servers |-> "none"]
  /\ cache \in {"none", "junk"} /\ lock = "none"
  /\ userStopped = {} /\ takenOver = FALSE
  /\ jobs = 0 /\ launches = 0 /\ crashes = 0

JobStep(s) ==
  \/ Begin(s)
  \/ WaitTick(s)
  \/ DownloadReady(s)
  \/ Receive(s)
  \/ DownloadFails(s)
  \/ DownloadDone(s)
  \/ StopDone(s)
  \/ WorkerFails(s)
  \/ Copy(s)
  \/ Backup(s)
  \/ Commit(s)
  \/ InstallDone(s)

OtherStep(s) ==
  \/ Refresh(s)
  \/ Start(s)
  \/ Stop(s)
  \/ Exit(s)
  \/ Crash(s)
  \/ GiveUpRecovery(s)
  \/ StopDeadline(s)
  \/ ForceStop(s)
  \/ TakeMaintenance(s)
  \/ ReleaseMaintenance(s)

Next ==
  \/ PowerLoss
  \/ \E s \in Servers : JobStep(s) \/ OtherStep(s)

\* Timers fire, file operations and a kill come to an end, callbacks run.
\* The network is not fair: requests have no time limit.
Fairness ==
  \A s \in Servers :
    /\ WF_vars(WaitTick(s))
    /\ WF_vars(StopDone(s))
    /\ WF_vars(WorkerFails(s) \/ Copy(s) \/ Backup(s) \/ Commit(s))
    /\ WF_vars(InstallDone(s))
    /\ WF_vars(StopDeadline(s))
    /\ WF_vars(proc[s] = "killed" /\ Exit(s))

Spec == Init /\ [][Next]_vars /\ Fairness

-----------------------------------------------------------------------------
(* Properties.                                                             *)

TypeOK ==
  /\ proc \in [Servers -> Procs]
  /\ holder \in [Servers -> {"none", "update", "other"}]
  /\ stage \in [Servers -> Stages]
  /\ cached \in [Servers -> BOOLEAN] /\ restart \in [Servers -> BOOLEAN]
  /\ attempts \in [Servers -> 0 .. MaxAttempts]
  /\ sink \in [Servers -> Sinks]
  /\ {got, staged, bin, tmp, previous} \subseteq [Servers -> Contents]
  /\ {cache, lock} \subseteq Contents
  /\ userStopped \subseteq Servers /\ takenOver \in BOOLEAN
  /\ jobs \in 0 .. MaxJobs /\ launches \in 0 .. MaxLaunches /\ crashes \in 0 .. MaxCrashes

\* "The caller must prevent server starts until this operation has finished"
\* (server-maintenance.h): while the worker replaces the executable, no
\* process of the server exists.
NoProcessUnderWorker ==
  \A s \in Servers : stage[s] \in {"copying", "backup", "commit"} => ~HasProcess(s)

\* Maintenance is held for an update exactly while its job needs it: no way
\* out of the callback chain leaves the server locked, or unlocked too early.
MaintenanceFollowsJob ==
  \A s \in Servers :
    holder[s] = "update" <=>
      stage[s] \in {"stopping", "copying", "backup", "commit", "done", "failed"}

\* An installed executable is only ever replaced under maintenance, in one
\* step, with the old one retained as .previous.
OldIsRetained ==
  [][\A s \in Servers :
       bin[s] = "old" /\ bin'[s] # "old" =>
         holder[s] = "update" /\ previous[s] = "old" /\ Valid(bin'[s])]_vars

\* "A manual stop during download takes precedence over automatic restarting"
\* (apply_downloaded_binary): an update never restarts a server whose last
\* process the user stopped.
ManualStopWins ==
  [][\A s \in Servers :
       stage[s] = "done" /\ ~HasProcess(s) /\ proc'[s] = "running" => s \notin userStopped]_vars

\* What several servers install from is a whole download, whatever happens to
\* the jobs that share it and to the program, as long as the lock is only
\* taken over from jobs that have ended.
CacheIsComplete == ~takenOver => cache # "part"

\* A job that waits for the download of another one stops waiting, though
\* that one fails, hangs or is forgotten.
WaitersMoveOn == \A s \in Servers : stage[s] = "waiting" ~> stage[s] # "waiting"

\* Every update that has begun to stop its server gives maintenance back,
\* whether the stop succeeds, times out or is forced and the worker succeeds
\* or fails.
MaintenanceEnds == \A s \in Servers : holder[s] = "update" ~> holder[s] # "update"

\* "Download first, then safely stop, install and restart"
\* (window-server-actions.c:38): a running server is stopped for a download
\* that is still there when it is to be installed.
DownloadIsKept ==
  \A s \in Servers :
    restart[s] /\ stage[s] \in {"stopping", "copying"} => Valid(Source(s))
=============================================================================
