------------------------------- MODULE Minimap -------------------------------
(***************************************************************************)
(* The minimap page (src/src/window-minimap.c) with its worker threads,    *)
(* the request it leaves for the Map Bridge (src/src/minimap-store.c), and *)
(* the bridge itself (src/plugins/map-bridge/src/lib.rs) in the server of  *)
(* MapBridge.                                                              *)
(*                                                                         *)
(* The page and a bridge exchange two files: the page writes a request     *)
(* that is valid for some seconds and may carry an action for the bridge,  *)
(* and the bridge writes a sample that names the request it answers.  A    *)
(* session is the time a request identity is used; every change of the     *)
(* page's generation also gives it a new identity, so a task is of an      *)
(* earlier generation exactly if its request is not the page's.            *)
(*                                                                         *)
(* Terrain and the discovery of worlds are left out: their tasks carry the *)
(* same generation and write nothing the server reads.                     *)
(***************************************************************************)
EXTENDS MapBridge, FiniteSets

CONSTANTS
  MaxEvents,    \* bound: what the user does
  MaxRequest,   \* bound: sessions
  MaxActions    \* bound: actions confirmed

ASSUME MinimapAssumption ==
  MaxEvents \in Nat /\ MaxRequest \in Nat \ {0} /\ MaxActions \in Nat

VARIABLES
  selected,   \* the server is the current one of the window
  page,       \* the MapPage: server, pid, request and the action to be done
  live,       \* the sample shown
  busy,       \* a live task of this generation is on its way
  tasks,      \* live tasks in their threads; and the page itself while it
              \* takes its request back
  request,    \* request.json
  sample,     \* live.json
  bridge,     \* the State of the loaded bridge: last_action
  done,       \* history: how often the loaded bridge did an action
  late,       \* history: an action was written that was not the last one confirmed
  revoked,    \* history: requests of sessions that the switch has ended
  events

pageVars == <<selected, page, live, busy, revoked>>
sharedVars == <<request, sample>>
loadVars == <<bridge, done, late>>
vars == <<bridgeVars, pageVars, tasks, sharedVars, loadVars, events>>

NoAction == 0
Nothing == [request |-> 0]
Actions == 1 .. MaxActions
None == [a \in Actions |-> 0]

\* The main loop is in no callback.
Idle == BridgeIdle /\ \A t \in tasks : ~t.main

\* Mapped and with a current server; the map is taken to be visible.
Active == on /\ selected

Cancelled(ts) == {[t EXCEPT !.cancelled = TRUE] : t \in ts}

-----------------------------------------------------------------------------
(* The page.                                                               *)

\* pumpkin_window_minimap_update when it finds another server or process.
NewSession ==
  /\ on /\ page.request < MaxRequest
  /\ <<page.server, page.pid>> # <<selected, IF selected THEN proc.pid ELSE 0>>
  /\ page' = [server |-> selected, pid |-> IF selected THEN proc.pid ELSE 0,
              request |-> page.request + 1, action |-> NoAction, made |-> page.made]
  /\ tasks' = Cancelled(tasks)
  /\ busy' = FALSE /\ live' = Nothing
  /\ UNCHANGED <<bridgeVars, selected, revoked, sharedVars, loadVars>>

UpToDate == <<page.server, page.pid>> = <<selected, IF selected THEN proc.pid ELSE 0>>

\* poll_map: what is old is forgotten, and a live task set off.
Poll ==
  /\ Active /\ UpToDate
  /\ live' = IF live # Nothing /\ ~live.fresh THEN Nothing ELSE live
  /\ Running(proc) /\ ~proc.stopping /\ ~busy
  /\ busy' = TRUE
  /\ tasks' = tasks \cup {[request |-> page.request, action |-> page.action, main |-> FALSE,
                           step |-> "start", cancelled |-> FALSE, stale |-> FALSE, got |-> Nothing]}
  /\ UNCHANGED <<bridgeVars, selected, page, revoked, sharedVars, loadVars>>

\* poll_map, ten seconds after the action was confirmed.
ActionGivenUp ==
  /\ Active /\ UpToDate /\ page.action # NoAction
  /\ page' = [page EXCEPT !.action = NoAction]
  /\ UNCHANGED <<bridgeVars, selected, live, busy, revoked, tasks, sharedVars, loadVars>>

\* action_confirmed
ActionConfirmed ==
  /\ Active /\ page.server /\ page.action = NoAction /\ page.made < MaxActions
  /\ live # Nothing /\ live.fresh
  /\ Running(proc) /\ ~proc.stopping
  /\ page' = [page EXCEPT !.action = page.made + 1, !.made = @ + 1]
  /\ UNCHANGED <<bridgeVars, selected, live, busy, revoked, tasks, sharedVars, loadVars>>

OfThisGeneration(t) == t.request = page.request

\* map_finished
TaskFinished(t) ==
  /\ t.step = "finished" /\ ~t.main
  /\ tasks' = tasks \ {t}
  /\ IF ~OfThisGeneration(t) THEN UNCHANGED <<page, live, busy>>
     ELSE /\ busy' = FALSE
          /\ LET shown == IF t.got # Nothing \/ (live # Nothing /\ ~live.fresh)
                            THEN t.got ELSE live
             IN IF ~(Active /\ page.server) THEN UNCHANGED <<page, live>>
                ELSE /\ live' = shown
                     /\ page' = IF shown # Nothing /\ shown.action = page.action
                                  THEN [page EXCEPT !.action = NoAction] ELSE page
  /\ UNCHANGED <<bridgeVars, selected, revoked, sharedVars, loadVars>>

\* Another server is selected, or this one again.
Select ==
  /\ selected' = ~selected
  /\ UNCHANGED <<bridgeVars, page, live, busy, revoked, tasks, sharedVars, loadVars>>

\* enabled_changed
SwitchOn ==
  /\ ~on /\ on' = TRUE
  /\ SetEnabled(TRUE, proc)
  /\ UNCHANGED <<proc, job, replies, host, pageVars, tasks, sharedVars, loadVars>>

\* Its first part when the minimap is turned off, up to the read of
\* pumpkin_map_stop_request.
SwitchOff ==
  /\ on /\ page.request < MaxRequest
  /\ tasks' = Cancelled(tasks) \cup
       {[request |-> page.request, action |-> NoAction, main |-> TRUE, cancelled |-> TRUE,
         step |-> IF page.server /\ request.request = page.request THEN "revoke" ELSE "finished",
         stale |-> FALSE, got |-> Nothing]}
  /\ UNCHANGED <<bridgeVars, pageVars, sharedVars, loadVars>>

\* The rest of it, after the request has been taken back.
SwitchedOff(t) ==
  /\ t.main /\ t.step = "finished"
  /\ tasks' = tasks \ {t} /\ on' = FALSE
  /\ live' = Nothing /\ busy' = FALSE
  /\ page' = [page EXCEPT !.request = @ + 1, !.action = NoAction]
  /\ revoked' = IF page.server THEN revoked \cup {page.request} ELSE revoked
  /\ SetEnabled(FALSE, proc)
  /\ UNCHANGED <<proc, job, replies, host, selected, sharedVars, loadVars>>

-----------------------------------------------------------------------------
(* The threads: map_worker.                                                *)

Goes(t, to) == tasks' = (tasks \ {t}) \cup {[t EXCEPT !.step = to]}

\* Seeded fault: a cancelled task just ends.
MustRevokeNever(t) == FALSE

\* A task that was cancelled takes its request back, when it is in the file.
MustRevoke(t) == t.cancelled /\ request.request = t.request

\* The end of map_worker, up to the read of pumpkin_map_stop_request.
Got(t, found) ==
  tasks' = (tasks \ {t}) \cup
    {[t EXCEPT !.got = found, !.stale = FALSE,
               !.step = IF MustRevoke(t) THEN "revoke" ELSE "finished"]}

TaskStarts(t) ==
  /\ t.step = "start"
  /\ Goes(t, IF t.cancelled THEN "finished" ELSE "write")
  /\ UNCHANGED <<sharedVars, late>>

\* pumpkin_map_write_request_cancellable writes, or notices the cancellation on
\* the way.  Who is about to revoke a request has read another file than this one.
\* (The five seconds of a request count from the poll, here from the write.)
TaskWrites(t) ==
  /\ t.step = "write"
  /\ \/ t.cancelled /\ Got(t, Nothing) /\ UNCHANGED <<request, late>>
     \/ /\ request' = [request |-> t.request, action |-> t.action, valid |-> TRUE]
        /\ late' = (late \/ t.action \notin {NoAction, page.made})
        /\ tasks' = {[u EXCEPT !.stale = TRUE] : u \in tasks \ {t}} \cup
                    {[t EXCEPT !.step = "read"]}
  /\ UNCHANGED sample

\* pumpkin_map_read_live takes nothing but a fresh answer to this request.
TaskReads(t) ==
  /\ t.step = "read"
  /\ Got(t, IF sample # Nothing /\ sample.fresh /\ sample.request = t.request
              THEN sample ELSE Nothing)
  /\ UNCHANGED <<sharedVars, late>>

\* Seeded fault: the request is replaced whatever it is by now.
UnchangedAlways(t) == TRUE

\* The ETag of the file still fits.
Unchanged(t) == ~t.stale

\* The replacement in pumpkin_map_stop_request: by the task or by the page.
Revokes(t) ==
  /\ t.step = "revoke"
  /\ IF Unchanged(t)
       THEN /\ request' = Nothing
            /\ tasks' = {[u EXCEPT !.stale = TRUE] : u \in tasks \ {t}} \cup
                        {[t EXCEPT !.step = "finished"]}
       ELSE Goes(t, "finished") /\ UNCHANGED request
  /\ UNCHANGED <<sample, late>>

TaskStep(t) == TaskStarts(t) \/ TaskWrites(t) \/ TaskReads(t) \/ Revokes(t)

-----------------------------------------------------------------------------
(* The loaded bridge, and time.                                            *)

\* Seeded fault: the bridge does what it is asked each time it is asked.
IsNewAlways(a) == a # NoAction

IsNew(a) == a # NoAction /\ a # bridge

\* snapshot: with a request that has not expired, do its action once and answer.
BridgeSamples ==
  /\ host = "loaded" /\ request # Nothing /\ request.valid
  /\ LET a == request.action IN
     /\ bridge' = IF IsNew(a) THEN a ELSE bridge
     /\ done' = IF IsNew(a) THEN [done EXCEPT ![a] = @ + 1] ELSE done
  /\ sample' = [request |-> request.request, action |-> bridge', fresh |-> TRUE]
  /\ UNCHANGED <<request, late>>

\* Five seconds pass.
Ages ==
  \/ /\ request # Nothing /\ request.valid
     /\ request' = [request EXCEPT !.valid = FALSE]
     /\ UNCHANGED <<sample, live>>
  \/ /\ sample # Nothing /\ sample.fresh
     /\ sample' = [sample EXCEPT !.fresh = FALSE]
     /\ UNCHANGED <<request, live>>
  \/ /\ live # Nothing /\ live.fresh
     /\ live' = [live EXCEPT !.fresh = FALSE]
     /\ UNCHANGED <<request, sample>>

-----------------------------------------------------------------------------
Init ==
  /\ BridgeInit
  /\ selected = TRUE
  /\ page = [server |-> FALSE, pid |-> 0, request |-> 1, action |-> NoAction, made |-> 0]
  /\ live = Nothing /\ busy = FALSE /\ tasks = {}
  /\ request = Nothing /\ sample = Nothing
  /\ bridge = NoAction /\ done = None /\ late = FALSE /\ revoked = {}
  /\ events = 0

User ==
  /\ Idle /\ events < MaxEvents /\ events' = events + 1
  /\ \/ ActionConfirmed \/ Select \/ SwitchOn \/ SwitchOff
     \/ /\ PrepareStart \/ StopRequested \/ (JobStarts /\ page.server /\ selected)
        /\ UNCHANGED <<pageVars, tasks, sharedVars, loadVars>>

MainLoop ==
  /\ Idle /\ UNCHANGED events
  /\ \/ NewSession \/ Poll \/ ActionGivenUp
     \/ \E t \in tasks : TaskFinished(t)
     \/ /\ BridgeFeedback \/ BridgeTimedOut \/ JobEnds \/ ProcessExits
        /\ UNCHANGED <<pageVars, tasks, sharedVars, loadVars>>

\* A bridge that is loaded starts with a new State.
Loads == bridge' = NoAction /\ done' = None /\ late' = FALSE

Others ==
  /\ UNCHANGED events
  /\ \/ /\ ProcessStarts \/ JobInstalls
        /\ UNCHANGED <<pageVars, tasks, sharedVars, loadVars>>
     \/ \E t \in tasks : SwitchedOff(t)
     \/ /\ \E t \in tasks : TaskStep(t)
        /\ UNCHANGED <<bridgeVars, pageVars, bridge, done>>
     \/ /\ HostLoadsPlugins \/ HostRunsCommand
        /\ IF host # "loaded" THEN Loads ELSE UNCHANGED loadVars
        /\ UNCHANGED <<pageVars, tasks, sharedVars>>
     \/ BridgeSamples /\ UNCHANGED <<bridgeVars, pageVars, tasks>>
     \/ Ages /\ UNCHANGED <<bridgeVars, selected, page, busy, revoked, tasks, loadVars>>

Next == User \/ MainLoop \/ Others

Spec == Init /\ [][Next]_vars

-----------------------------------------------------------------------------
Asked == 0 .. MaxActions
Answers == {Nothing} \cup [request : 1 .. MaxRequest, action : Asked, fresh : BOOLEAN]

TypeOK ==
  /\ BridgeTypeOK
  /\ selected \in BOOLEAN /\ busy \in BOOLEAN /\ late \in BOOLEAN
  /\ page \in [server : BOOLEAN, pid : 0 .. MaxPid, request : 1 .. MaxRequest, action : Asked,
               made : Asked]
  /\ live \in Answers /\ sample \in Answers
  /\ request \in {Nothing} \cup [request : 1 .. MaxRequest, action : Asked, valid : BOOLEAN]
  /\ tasks \subseteq [request : 1 .. MaxRequest, action : Asked, main : BOOLEAN,
                      step : {"start", "write", "read", "revoke", "finished"},
                      cancelled : BOOLEAN, stale : BOOLEAN, got : Answers]
  /\ bridge \in Asked /\ done \in [Actions -> Nat]
  /\ revoked \subseteq 1 .. MaxRequest /\ events \in 0 .. MaxEvents

\* A session that has ended leaves nothing behind: the sample that is shown
\* answers the page's present request, and once the tasks of a session that was
\* switched off have ended, its request is not in the file any more, wherever
\* they were when the minimap was turned off or on.
EndedSessionsLeaveNothing ==
  /\ live # Nothing => live.request = page.request
  /\ \A r \in revoked : (\A t \in tasks : t.request # r) => request.request # r

\* Taking back a request never takes back the one of a later session.
OnlyOwnRequestIsRevoked ==
  [][request' = Nothing /\ request # Nothing =>
       \E t \in tasks : t.request = request.request /\ t.cancelled]_vars

\* A loaded bridge does no action twice, however often the request is written
\* and read before the page learns of it, or gives it up.  The
\* bridge remembers its last action only: a thread that writes an earlier one
\* after another was confirmed could make it go back and forth.
ActionsHappenOnce == ~late => \A a \in Actions : done[a] <= 1
=============================================================================
