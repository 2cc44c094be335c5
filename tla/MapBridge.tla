------------------------------ MODULE MapBridge ------------------------------
(***************************************************************************)
(* The Map Bridge of one server: its file is moved aside when the minimap  *)
(* is switched off, and a running server is told to load or unload it      *)
(* (src/src/minimap-bridge-control.c, src/src/minimap-store.c,             *)
(* src/src/window-minimap.c).  Minimap adds the page that uses it.         *)
(* The server answers on its console, at its own pace.                     *)
(***************************************************************************)
EXTENDS Naturals, Sequences

CONSTANT MaxPid   \* bound: processes started

ASSUME MapBridgeAssumption == MaxPid \in Nat \ {0}

VARIABLES
  on,        \* the switch of the minimap; consent has been given
  proc,      \* the process; pid 0 when there is none
  job,       \* an installation, update or approval of the bridge is at work
  file,      \* the bridge among the plugins: "active", "parked" or "none"
  control,   \* the BridgeControl of the server
  cmds,      \* commands the server has not looked at
  replies,   \* its answers that have not been read
  host,      \* the plugin manager: "down", "starting", or has it "loaded" or not
  doubt      \* history: the control has lost track, see BridgeFollowsSwitch

bridgeVars == <<on, proc, job, file, control, cmds, replies, host, doubt>>

Running(p) == p.pid # 0
Place(switch) == IF switch THEN "active" ELSE "parked"
NoProcess == [pid |-> 0, last |-> 0, stopping |-> FALSE, starting |-> FALSE]

-----------------------------------------------------------------------------
(* sync_bridge, given the control, the switch, the process, whether it is  *)
(* in maintenance, and the commands it has not looked at.  Moving the file *)
(* and writing the command may fail.                                       *)

\* The part that looks at a change of process.
ForProcess(c, switch, p) ==
  IF p.pid = c.pid THEN c
  ELSE [c EXCEPT !.pid = p.pid, !.pending = "idle", !.failed = FALSE,
                 !.loaded = switch /\ Running(p)]

\* A first look at an installed bridge.
Named(c, switch, p) ==
  IF c.named THEN c
  ELSE [c EXCEPT !.named = TRUE,
                 !.loaded = Running(p) /\ (~switch \/ file = Place(switch))]

Send(c, switch) == [c EXCEPT !.pending = IF switch THEN "load" ELSE "unload"]

Sync(c0, switch, p, maintenance, queue) ==
  LET c1 == ForProcess(c0, switch, p)
      c2 == Named(c1, switch, p)
  IN \/ /\ maintenance \/ p.stopping \/ c1.failed \/ file = "none"
        /\ control' = c1
        /\ cmds' = queue /\ UNCHANGED <<file, doubt>>
     \/ /\ ~(maintenance \/ p.stopping \/ c1.failed \/ file = "none")
        /\ \/ /\ file # Place(switch)
              /\ control' = [c1 EXCEPT !.failed = TRUE]
              /\ doubt' = TRUE
              /\ cmds' = queue /\ UNCHANGED file
           \/ /\ file' = Place(switch)
              /\ IF c1.pending # "idle" THEN control' = c1 /\ cmds' = queue /\ UNCHANGED doubt
                 ELSE IF ~Running(p) \/ c2.loaded = switch
                 THEN control' = c2 /\ cmds' = queue /\ UNCHANGED doubt
                 ELSE \/ /\ control' = Send(c2, switch)
                         /\ cmds' = Append(queue, Send(c2, switch).pending)
                         /\ UNCHANGED doubt
                      \/ /\ control' = [c2 EXCEPT !.failed = TRUE]
                         /\ doubt' = TRUE /\ cmds' = queue

\* state_changed, once the control exists.
StateChanged(p, maintenance) ==
  IF control.exists THEN Sync(control, on, p, maintenance, cmds)
  ELSE UNCHANGED <<control, file, cmds, doubt>>

\* pumpkin_minimap_bridge_set_enabled
SetEnabled(switch, p) ==
  LET c == IF control.exists THEN control
           ELSE [control EXCEPT !.exists = TRUE, !.pid = p.pid]
  IN Sync([c EXCEPT !.failed = FALSE], switch, p, job # "none", cmds)

-----------------------------------------------------------------------------
(* The server process and its plugin manager (external).                   *)

\* pumpkin_server_start: the hook "prepare-start", then the process.  The two
\* parts are one callback of the main loop.
PrepareStart ==
  /\ ~Running(proc) /\ ~proc.starting /\ job = "none"
  /\ proc.last < MaxPid
  /\ proc' = [proc EXCEPT !.starting = TRUE]
  /\ SetEnabled(on, NoProcess)
  /\ UNCHANGED <<on, job, replies, host>>

ProcessStarts ==
  LET new == [pid |-> proc.last + 1, last |-> proc.last + 1, stopping |-> FALSE,
              starting |-> FALSE]
  IN /\ proc.starting
     /\ proc' = new
     /\ host' = "starting"
     /\ StateChanged(new, FALSE)
     /\ UNCHANGED <<on, job, replies>>

\* A stop is requested; the process ends, after that or by itself.  Commands it
\* has not read are lost, and read_line_cb signals no line of an ended process.
StopRequested ==
  /\ Running(proc) /\ ~proc.stopping
  /\ proc' = [proc EXCEPT !.stopping = TRUE]
  /\ StateChanged(proc', FALSE)
  /\ UNCHANGED <<on, job, replies, host>>

ProcessExits ==
  /\ Running(proc)
  /\ proc' = [proc EXCEPT !.pid = 0, !.stopping = FALSE]
  /\ host' = "down"
  /\ IF control.exists THEN Sync(control, on, proc', FALSE, <<>>)
     ELSE cmds' = <<>> /\ UNCHANGED <<control, file, doubt>>
  /\ replies' = <<>>
  /\ UNCHANGED <<on, job>>

\* The server loads the plugins it finds, then it takes commands.
HostLoadsPlugins ==
  /\ host = "starting"
  /\ host' = IF file = "active" THEN "loaded" ELSE "unloaded"
  /\ UNCHANGED <<on, proc, job, file, control, cmds, replies, doubt>>

Answer(command, ok) == replies' = Append(replies, [command |-> command, ok |-> ok])

\* A plugin that is loaded already, or not loaded, is as good as a success.
HostRunsCommand ==
  /\ host \in {"loaded", "unloaded"} /\ cmds # <<>>
  /\ cmds' = Tail(cmds)
  /\ IF (host = "loaded") = (Head(cmds) = "load")
       THEN Answer(Head(cmds), TRUE) /\ UNCHANGED host
       ELSE \/ /\ Head(cmds) = "load" => file = "active"
               /\ host' = IF Head(cmds) = "load" THEN "loaded" ELSE "unloaded"
               /\ Answer(Head(cmds), TRUE)
            \/ Answer(Head(cmds), FALSE) /\ UNCHANGED host
  /\ UNCHANGED <<on, proc, job, file, control, doubt>>

-----------------------------------------------------------------------------
(* What the control is told.                                               *)

\* Seeded fault: the switch is not looked at again after an answer.
SyncAfterRests(c) == control' = c /\ UNCHANGED <<file, cmds, doubt>>

SyncAfter(c) == Sync(c, on, proc, job # "none", cmds)

\* bridge_feedback with the line of an answer.
BridgeFeedback ==
  LET reply == Head(replies)
      c == [control EXCEPT !.pending = "idle"]
  IN /\ replies # <<>> /\ replies' = Tail(replies)
     /\ IF reply.command # control.pending
          THEN UNCHANGED <<control, file, cmds, doubt>>
          ELSE IF reply.ok
          THEN SyncAfter([c EXCEPT !.loaded = (reply.command = "load")])
          ELSE control' = [c EXCEPT !.failed = TRUE] /\ UNCHANGED <<file, cmds, doubt>>
     /\ UNCHANGED <<on, proc, job, host>>

\* timed_out: no answer in ten seconds.
BridgeTimedOut ==
  /\ control.pending # "idle"
  /\ control' = [control EXCEPT !.pending = "idle", !.failed = TRUE]
  /\ doubt' = TRUE
  /\ UNCHANGED <<on, proc, job, file, cmds, replies, host>>

\* install_confirmed, approve_confirmed and update_bridge_automatically, while
\* can_install_bridge holds; install_worker; install_finished.
JobStarts ==
  /\ ~Running(proc) /\ job = "none" /\ on
  /\ job' = "working"
  /\ StateChanged(proc, TRUE)
  /\ UNCHANGED <<on, proc, replies, host>>

JobInstalls ==
  /\ job = "working"
  /\ job' = "done"
  /\ \/ file = "none" /\ file' = "active"
     \/ UNCHANGED file
  /\ UNCHANGED <<on, proc, control, cmds, replies, host, doubt>>

JobEnds ==
  /\ job = "done"
  /\ job' = "none"
  /\ StateChanged(proc, FALSE)
  /\ UNCHANGED <<on, proc, replies, host>>

-----------------------------------------------------------------------------
BridgeInit ==
  /\ on \in BOOLEAN
  /\ proc = NoProcess
  /\ job = "none" /\ file \in {"active", "parked", "none"}
  /\ control = [exists |-> FALSE, named |-> FALSE, pid |-> 0, pending |-> "idle",
                failed |-> FALSE, loaded |-> FALSE]
  /\ cmds = <<>> /\ replies = <<>> /\ host = "down" /\ doubt = FALSE

\* The main loop is in no callback.
BridgeIdle == ~proc.starting

BridgeMainStep ==
  \/ PrepareStart \/ StopRequested \/ ProcessExits
  \/ BridgeFeedback \/ BridgeTimedOut \/ JobStarts \/ JobEnds

BridgeOtherStep == HostLoadsPlugins \/ HostRunsCommand \/ JobInstalls

BridgeTypeOK ==
  /\ on \in BOOLEAN /\ doubt \in BOOLEAN
  /\ proc \in [pid : 0 .. MaxPid, last : 0 .. MaxPid, stopping : BOOLEAN, starting : BOOLEAN]
  /\ job \in {"none", "working", "done"} /\ file \in {"active", "parked", "none"}
  /\ control \in [exists : BOOLEAN, named : BOOLEAN, pid : 0 .. MaxPid,
                  pending : {"idle", "load", "unload"}, failed : BOOLEAN, loaded : BOOLEAN]
  /\ cmds \in Seq({"load", "unload"})
  /\ replies \in Seq([command : {"load", "unload"}, ok : BOOLEAN])
  /\ host \in {"down", "starting", "loaded", "unloaded"}

\* Nothing about the bridge is under way.
Settled ==
  /\ host \in {"loaded", "unloaded"} /\ ~proc.stopping
  /\ control.pending = "idle" /\ cmds = <<>>

\* Unless it has reported a failure, a running server has the bridge loaded
\* exactly when the minimap is on, however the switch, starts and answers
\* followed one another.  The control is only right about a server that answers
\* in ten seconds and about a file that can be moved.
BridgeFollowsSwitch ==
  Settled /\ ~control.failed /\ ~doubt /\ file # "none" => (host = "loaded") = on
=============================================================================
