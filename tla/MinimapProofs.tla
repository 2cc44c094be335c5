---------------------------- MODULE MinimapProofs ----------------------------
(***************************************************************************)
(* Proofs about Minimap, for any number of sessions, actions, processes    *)
(* and things the user does.                                               *)
(***************************************************************************)
EXTENDS Minimap, TLAPS

USE MapBridgeAssumption, MinimapAssumption

\* A cancelled task that is sure to take its request back.
WillRevoke(t) == t.cancelled /\ (t.step = "read" \/ (t.step = "revoke" /\ ~t.stale))

\* Sessions that the switch has ended, and the one it is about to end.
Ended(r) == r \in revoked \/ (r = page.request /\ page.server /\ \E t \in tasks : t.main)

\* The page goes through sessions; while it takes its request back, it can still
\* go to the next.
Sessions ==
  /\ \A t \in tasks : t.request <= page.request /\ (t.main => t.request = page.request)
  /\ \A t \in tasks : t.main => page.request < MaxRequest /\ t.cancelled
  /\ \A t, u \in tasks : t.main /\ u.main => t = u
  /\ \A r \in revoked : r < page.request
  /\ request # Nothing => request.request <= page.request

\* What the page shows or a task has found answers that page's or task's request.
AnswersAreOwn ==
  /\ live # Nothing => live.request = page.request
  /\ \A t \in tasks : t.got # Nothing => t.got.request = t.request

\* Whoever is about to replace the request and has the ETag of the present file
\* read its own request there.
RevokersHaveRead ==
  \A t \in tasks : t.step = "revoke" => t.cancelled /\ (~t.stale => request.request = t.request)

\* An ended session has only cancelled tasks, and one of them sees to its request.
EndedAreRevoked ==
  \A r \in Nat : Ended(r) =>
    /\ \A t \in tasks : t.request = r => t.cancelled
    /\ request # Nothing /\ request.request = r => \E t \in tasks : t.request = r /\ WillRevoke(t)

\* Actions are confirmed in order, and what is asked or done was confirmed.
Confirmed ==
  /\ page.action <= page.made /\ bridge <= page.made
  /\ \A t \in tasks : t.action <= page.made
  /\ request # Nothing => request.action <= page.made

\* As long as no earlier action was written late, the bridge has done only
\* actions up to its last one, and is asked for none before that.
InOrder ==
  ~late =>
    /\ \A a \in Actions : done[a] <= 1 /\ (done[a] = 1 => a <= bridge)
    /\ request # Nothing => request.action = NoAction \/ bridge <= request.action

TaskRec == [request : 1 .. MaxRequest, action : Asked, main : BOOLEAN,
            step : {"start", "write", "read", "revoke", "finished"},
            cancelled : BOOLEAN, stale : BOOLEAN, got : Answers]
PageRec == [server : BOOLEAN, pid : 0 .. MaxPid, request : 1 .. MaxRequest, action : Asked,
            made : Asked]
RequestRec == [request : 1 .. MaxRequest, action : Asked, valid : BOOLEAN]

PageTyped ==
  /\ selected \in BOOLEAN /\ busy \in BOOLEAN /\ late \in BOOLEAN
  /\ page \in PageRec /\ tasks \subseteq TaskRec
  /\ live \in Answers /\ sample \in Answers
  /\ request \in {Nothing} \cup RequestRec
  /\ bridge \in Asked /\ done \in [Actions -> Nat]
  /\ revoked \subseteq 1 .. MaxRequest /\ events \in 0 .. MaxEvents

PageInv ==
  /\ PageTyped /\ Sessions /\ AnswersAreOwn /\ RevokersHaveRead /\ EndedAreRevoked
  /\ Confirmed /\ InOrder

-----------------------------------------------------------------------------
(* Types of the bridge.                                                    *)

Controls == [exists : BOOLEAN, named : BOOLEAN, pid : 0 .. MaxPid,
             pending : {"idle", "load", "unload"}, failed : BOOLEAN, loaded : BOOLEAN]
Processes == [pid : 0 .. MaxPid, last : 0 .. MaxPid, stopping : BOOLEAN, starting : BOOLEAN]
Commands == {"load", "unload"}
Replies == [command : {"load", "unload"}, ok : BOOLEAN]

LEMMA SyncTyped ==
  ASSUME BridgeTypeOK, NEW c \in Controls, NEW switch \in BOOLEAN, NEW p \in Processes,
         NEW m \in BOOLEAN, NEW queue \in Seq(Commands), Sync(c, switch, p, m, queue)
  PROVE  control' \in Controls /\ cmds' \in Seq(Commands) /\ doubt' \in BOOLEAN
         /\ file' \in {"active", "parked", "none"}
  <1> DEFINE c1 == ForProcess(c, switch, p)
             c2 == Named(c1, switch, p)
  <1>1. c1 \in Controls
    BY DEF ForProcess, Controls, Processes, Running
  <1>2. c2 \in Controls
    BY <1>1 DEF Named, Controls, Processes, Running
  <1>3. Send(c2, switch) \in Controls /\ Send(c2, switch).pending \in Commands
    BY <1>2 DEF Send, Controls, Commands
  <1>4. [c1 EXCEPT !.failed = TRUE] \in Controls /\ [c2 EXCEPT !.failed = TRUE] \in Controls
    BY <1>1, <1>2 DEF Controls
  <1>5. Append(queue, Send(c2, switch).pending) \in Seq(Commands)
    BY <1>3
  <1>6. Place(switch) \in {"active", "parked", "none"}
    BY DEF Place
  <1> HIDE DEF c1, c2
  <1>7. doubt \in BOOLEAN /\ file \in {"active", "parked", "none"}
    BY DEF BridgeTypeOK
  <1>8. /\ \/ control' \in {c1, c2, Send(c2, switch)}
           \/ control' = [c1 EXCEPT !.failed = TRUE] \/ control' = [c2 EXCEPT !.failed = TRUE]
        /\ cmds' = queue \/ cmds' = Append(queue, Send(c2, switch).pending)
        /\ file' = file \/ file' = Place(switch)
        /\ doubt' = doubt \/ doubt' = TRUE
    BY Zenon DEF Sync, c1, c2
  <1>9. control' \in Controls
    BY <1>1, <1>2, <1>3, <1>4, <1>8, Zenon
  <1>10. cmds' \in Seq(Commands)
    BY <1>5, <1>8, Zenon
  <1> QED
    BY <1>6, <1>7, <1>8, <1>9, <1>10

LEMMA StateChangedTyped ==
  ASSUME BridgeTypeOK, NEW p \in Processes, NEW m \in BOOLEAN, StateChanged(p, m)
  PROVE  control' \in Controls /\ cmds' \in Seq(Commands) /\ doubt' \in BOOLEAN
         /\ file' \in {"active", "parked", "none"}
  <1>1. control \in Controls /\ cmds \in Seq(Commands) /\ on \in BOOLEAN
    BY DEF BridgeTypeOK, Controls, Commands
  <1>2. CASE control.exists
    BY <1>1, <1>2, SyncTyped DEF StateChanged
  <1>3. CASE ~control.exists
    BY <1>1, <1>3 DEF StateChanged, BridgeTypeOK
  <1> QED
    BY <1>2, <1>3

LEMMA SetEnabledTyped ==
  ASSUME BridgeTypeOK, NEW switch \in BOOLEAN, NEW p \in Processes, SetEnabled(switch, p)
  PROVE  control' \in Controls /\ cmds' \in Seq(Commands) /\ doubt' \in BOOLEAN
         /\ file' \in {"active", "parked", "none"}
  <1> DEFINE c == IF control.exists THEN control
                  ELSE [control EXCEPT !.exists = TRUE, !.pid = p.pid]
  <1>1. control \in Controls /\ cmds \in Seq(Commands)
    BY DEF BridgeTypeOK, Controls, Commands
  <1>2. c \in Controls
    BY <1>1 DEF Controls, Processes
  <1>3. [c EXCEPT !.failed = FALSE] \in Controls
    BY <1>2 DEF Controls
  <1>4. Sync([c EXCEPT !.failed = FALSE], switch, p, job # "none", cmds)
    BY DEF SetEnabled
  <1> HIDE DEF c
  <1>5. (job # "none") \in BOOLEAN
    OBVIOUS
  <1> QED
    BY <1>1, <1>3, <1>4, <1>5, SyncTyped

LEMMA SyncAfterTyped ==
  ASSUME BridgeTypeOK, NEW c \in Controls, SyncAfter(c)
  PROVE  control' \in Controls /\ cmds' \in Seq(Commands) /\ doubt' \in BOOLEAN
         /\ file' \in {"active", "parked", "none"}
  <1>1. cmds \in Seq(Commands) /\ on \in BOOLEAN /\ proc \in Processes
    BY DEF BridgeTypeOK, Commands, Processes
  <1>2. (job # "none") \in BOOLEAN
    OBVIOUS
  <1> QED
    BY <1>1, <1>2, SyncTyped DEF SyncAfter

LEMMA ExitTyped ==
  ASSUME BridgeTypeOK, NEW p \in Processes, Sync(control, on, p, FALSE, << >>)
  PROVE  control' \in Controls /\ cmds' \in Seq(Commands) /\ doubt' \in BOOLEAN
         /\ file' \in {"active", "parked", "none"}
  <1>1. control \in Controls /\ on \in BOOLEAN /\ << >> \in Seq(Commands)
    BY DEF BridgeTypeOK, Controls
  <1>2. FALSE \in BOOLEAN
    OBVIOUS
  <1> QED
    BY <1>1, <1>2, SyncTyped

LEMMA BridgeStepTyped ==
  ASSUME BridgeTypeOK, proc.starting => proc.last < MaxPid,
         BridgeMainStep \/ ProcessStarts \/ BridgeOtherStep
  PROVE  BridgeTypeOK' /\ (proc.starting => proc.last < MaxPid)'
  <1> USE DEF Controls, Commands, Replies, Processes
  <1> DEFINE Rest == /\ control' \in Controls /\ cmds' \in Seq(Commands) /\ doubt' \in BOOLEAN
                     /\ file' \in {"active", "parked", "none"}
  <1>0. proc \in Processes /\ NoProcess \in Processes /\ on \in BOOLEAN
        /\ control \in Controls /\ cmds \in Seq(Commands) /\ replies \in Seq(Replies)
    BY DEF BridgeTypeOK, NoProcess
  <1>1. CASE PrepareStart
    <2>1. proc' \in Processes /\ Rest
      BY <1>0, <1>1, SetEnabledTyped DEF PrepareStart
    <2> QED
      BY <1>1, <2>1 DEF PrepareStart, BridgeTypeOK
  <1>2. CASE ProcessStarts
    <2>1. proc' \in Processes
      BY <1>0, <1>2, SMT DEF ProcessStarts
    <2>2. Rest
      BY <1>2, <2>1, StateChangedTyped DEF ProcessStarts
    <2> QED
      BY <1>2, <2>1, <2>2 DEF ProcessStarts, BridgeTypeOK
  <1>3. CASE StopRequested
    <2>1. proc' \in Processes
      BY <1>0, <1>3 DEF StopRequested
    <2>2. Rest
      BY <1>3, <2>1, StateChangedTyped DEF StopRequested
    <2> QED
      BY <1>3, <2>1, <2>2 DEF StopRequested, BridgeTypeOK
  <1>4. CASE ProcessExits
    <2>1. proc' \in Processes
      <3>1. proc' = [proc EXCEPT !.pid = 0, !.stopping = FALSE] /\ 0 \in 0 .. MaxPid
        BY <1>4 DEF ProcessExits
      <3> QED
        BY <1>0, <3>1
    <2>2. << >> \in Seq(Commands) /\ << >> \in Seq(Replies)
      OBVIOUS
    <2>3. CASE control.exists
      <3>1. Sync(control, on, proc', FALSE, <<>>)
        BY <1>4, <2>3 DEF ProcessExits
      <3>3. Rest
        BY <2>1, <3>1, ExitTyped
      <3> QED
        BY <1>4, <2>1, <2>2, <3>3 DEF ProcessExits, BridgeTypeOK
    <2>4. CASE ~control.exists
      BY <1>4, <2>1, <2>2, <2>4 DEF ProcessExits, BridgeTypeOK
    <2> QED
      BY <2>3, <2>4
  <1>5. CASE BridgeFeedback
    <2> DEFINE c == [control EXCEPT !.pending = "idle"]
               d == [c EXCEPT !.loaded = (Head(replies).command = "load")]
    <2>1. c \in Controls /\ [c EXCEPT !.failed = TRUE] \in Controls
      BY <1>0
    <2>2. d \in Controls
      BY <2>1
    <2>3. replies' \in Seq(Replies)
      BY <1>0, <1>5 DEF BridgeFeedback
    <2>5. CASE SyncAfter(d)
      <3>1. Rest
        BY <2>2, <2>5, SyncAfterTyped
      <3> QED
        BY <1>5, <2>3, <3>1 DEF BridgeFeedback, BridgeTypeOK
    <2>6. CASE ~SyncAfter(d)
      <3>1. /\ UNCHANGED <<file, cmds, doubt>>
            /\ control' = control \/ control' = [c EXCEPT !.failed = TRUE]
        BY <1>5, <2>6, Zenon DEF BridgeFeedback
      <3> QED
        BY <1>0, <1>5, <2>1, <2>3, <3>1 DEF BridgeFeedback, BridgeTypeOK
    <2> QED
      BY <2>5, <2>6
  <1>6. CASE BridgeTimedOut
    BY <1>6 DEF BridgeTimedOut, BridgeTypeOK
  <1>7. CASE JobStarts
    <2>1. Rest
      BY <1>0, <1>7, StateChangedTyped DEF JobStarts
    <2> QED
      BY <1>7, <2>1 DEF JobStarts, BridgeTypeOK
  <1>8. CASE JobEnds
    <2>1. Rest
      BY <1>0, <1>8, StateChangedTyped DEF JobEnds
    <2> QED
      BY <1>8, <2>1 DEF JobEnds, BridgeTypeOK
  <1>9. CASE HostLoadsPlugins
    BY <1>9 DEF HostLoadsPlugins, BridgeTypeOK
  <1>10. CASE HostRunsCommand
    <2>1. cmds' \in Seq(Commands) /\ Head(cmds) \in Commands
      BY <1>0, <1>10 DEF HostRunsCommand
    <2>2. \A ok \in BOOLEAN : Append(replies, [command |-> Head(cmds), ok |-> ok]) \in Seq(Replies)
      <3> TAKE ok \in BOOLEAN
      <3>1. [command |-> Head(cmds), ok |-> ok] \in Replies
        BY <2>1
      <3> QED
        BY <1>0, <3>1
    <2>3. replies' \in Seq(Replies)
      BY <1>10, <2>2 DEF HostRunsCommand, Answer
    <2>4. host' \in {"loaded", "unloaded"}
      BY <1>10 DEF HostRunsCommand
    <2> QED
      BY <1>10, <2>1, <2>3, <2>4 DEF HostRunsCommand, BridgeTypeOK
  <1>11. CASE JobInstalls
    BY <1>11 DEF JobInstalls, BridgeTypeOK
  <1> QED
    BY <1>1, <1>2, <1>3, <1>4, <1>5, <1>6, <1>7, <1>8, <1>9, <1>10, <1>11
       DEF BridgeMainStep, BridgeOtherStep
-----------------------------------------------------------------------------
(* The bridge and its control.                                             *)

Up == host \in {"loaded", "unloaded"}

\* What the plugin manager has, or is going to have once it has started.
HasIn(h) == IF h = "starting" THEN file = "active" ELSE h = "loaded"
HostHas == HasIn(host)

Processing ==
  /\ Running(proc) \/ proc.starting => job = "none" /\ control.exists
  /\ proc.starting => ~Running(proc)
  /\ control.exists => control.pid = proc.pid
  /\ Running(proc) => host # "down"
  /\ ~Running(proc) => host = "down" /\ cmds = << >> /\ replies = << >> /\ ~proc.stopping

\* At most one command is under way: it is before the server or its answer is
\* on the way back, and that answer tells what the plugin manager has.
NoneUnderWay(c, queue, answers) == c.pending = "idle" /\ queue = << >> /\ answers = << >>

OneUnderWay(c, queue, answers) ==
  /\ c.pending # "idle" /\ (c.pending = "load" <=> ~c.loaded)
  /\ \/ queue = <<c.pending>> /\ answers = << >>
     \/ /\ queue = << >> /\ Up
        /\ \E ok \in BOOLEAN : /\ answers = <<[command |-> c.pending, ok |-> ok]>>
                               /\ (host = "loaded") <=> ((c.pending = "load") <=> ok)

Pipeline ==
  \/ NoneUnderWay(control, cmds, replies)
  \/ Running(proc) /\ file # "none" /\ OneUnderWay(control, cmds, replies)

\* Without one, the control knows what the plugin manager has, and it is what
\* the switch says.
Tracking ==
  /\ proc.starting /\ file # "none" => control.named /\ file = Place(on)
  /\ Running(proc) /\ file # "none" =>
       /\ control.named
       /\ control.pending = "idle" =>
            /\ control.loaded <=> HostHas
            /\ ~proc.stopping /\ ~control.failed => (control.loaded <=> on)

BridgeInv == Processing /\ (~doubt => Pipeline /\ Tracking)

LEMMA BridgeInvImplies == BridgeTypeOK /\ BridgeInv => BridgeFollowsSwitch
  <1> SUFFICES ASSUME BridgeTypeOK, BridgeInv, Settled, ~control.failed, ~doubt, file # "none"
               PROVE  (host = "loaded") <=> on
    BY DEF BridgeFollowsSwitch, BridgeTypeOK
  <1>1. Running(proc)
    BY DEF BridgeInv, Processing, Settled
  <1> QED
    BY <1>1 DEF BridgeInv, Tracking, Settled, HostHas, HasIn

LEMMA PlaceIsOne == \A switch : Place(switch) # "none" /\ (Place(switch) = "active" <=> switch)
  BY DEF Place

\* What Sync does whatever it was given.
LEMMA SyncAlways ==
  ASSUME NEW c \in Controls, NEW switch \in BOOLEAN, NEW p \in Processes, NEW m \in BOOLEAN,
         NEW queue, Sync(c, switch, p, m, queue)
  PROVE  /\ control'.exists = c.exists /\ control'.pid = p.pid
         /\ ~Running(p) => cmds' = queue
         /\ (file' = "none") <=> (file = "none")
         /\ doubt => doubt'
  <1> DEFINE c1 == ForProcess(c, switch, p)
             c2 == Named(c1, switch, p)
  <1>1. c1 \in Controls /\ c1.exists = c.exists /\ c1.pid = p.pid
    BY DEF ForProcess, Controls, Processes, Running
  <1>2. c2 \in Controls /\ c2.exists = c.exists /\ c2.pid = p.pid
    BY <1>1 DEF Named, Controls, Running
  <1>3. Send(c2, switch).exists = c.exists /\ Send(c2, switch).pid = p.pid
    BY <1>2 DEF Send, Controls
  <1>4. /\ [c1 EXCEPT !.failed = TRUE].exists = c.exists /\ [c1 EXCEPT !.failed = TRUE].pid = p.pid
        /\ [c2 EXCEPT !.failed = TRUE].exists = c.exists /\ [c2 EXCEPT !.failed = TRUE].pid = p.pid
    BY <1>1, <1>2 DEF Controls
  <1>5. /\ \/ control' \in {c1, c2, Send(c2, switch)}
           \/ control' = [c1 EXCEPT !.failed = TRUE] \/ control' = [c2 EXCEPT !.failed = TRUE]
        /\ ~Running(p) => cmds' = queue
        /\ (file' = file) \/ (file # "none" /\ file' = Place(switch))
        /\ (doubt' = doubt) \/ (doubt' = TRUE)
    BY Zenon DEF Sync, c1, c2
  <1> HIDE DEF c1, c2
  <1>6. control'.exists = c.exists /\ control'.pid = p.pid
    BY <1>1, <1>2, <1>3, <1>4, <1>5, Zenon
  <1> QED
    BY <1>5, <1>6, PlaceIsOne

\* Sync for the process the control knows.
LEMMA SyncOfRunning ==
  ASSUME NEW c \in Controls, NEW switch \in BOOLEAN, NEW p \in Processes,
         NEW queue, Sync(c, switch, p, FALSE, queue),
         c.pid = p.pid, Running(p), file # "none" => c.named, ~doubt'
  PROVE  \/ /\ p.stopping \/ c.failed \/ file = "none"
            /\ control' = c /\ cmds' = queue /\ file' = file
         \/ /\ ~p.stopping /\ ~c.failed /\ file # "none" /\ file' = Place(switch)
            /\ \/ /\ c.pending # "idle" \/ (c.loaded <=> switch)
                  /\ control' = c /\ cmds' = queue
               \/ /\ c.pending = "idle" /\ ~(c.loaded <=> switch)
                  /\ control' = Send(c, switch)
                  /\ cmds' = Append(queue, Send(c, switch).pending)
  <1>1. ForProcess(c, switch, p) = c
    BY DEF ForProcess
  <1>2. file # "none" => Named(c, switch, p) = c
    BY DEF Named
  <1>3. c.loaded \in BOOLEAN
    BY DEF Controls
  <1>4. \/ /\ p.stopping \/ c.failed \/ file = "none"
           /\ control' = c /\ cmds' = queue /\ file' = file
        \/ /\ ~p.stopping /\ ~c.failed /\ file # "none" /\ file' = Place(switch)
           /\ \/ /\ c.pending # "idle" \/ c.loaded = switch
                 /\ control' = c /\ cmds' = queue
              \/ /\ c.pending = "idle" /\ c.loaded # switch
                 /\ control' = Send(c, switch)
                 /\ cmds' = Append(queue, Send(c, switch).pending)
    BY <1>1, <1>2, Zenon DEF Sync
  <1> QED
    BY <1>3, <1>4

\* Sync without a process.
LEMMA SyncOfNone ==
  ASSUME NEW c \in Controls, NEW switch \in BOOLEAN, NEW p \in Processes, NEW m \in BOOLEAN,
         NEW queue, Sync(c, switch, p, m, queue),
         ~Running(p), c.pid = 0 => c.pending = "idle", ~doubt'
  PROVE  /\ control'.pending = "idle"
         /\ ~m /\ ~p.stopping /\ ~c.failed /\ file # "none" =>
              control'.named /\ file' = Place(switch)
  <1> DEFINE c1 == ForProcess(c, switch, p)
             c2 == Named(c1, switch, p)
  <1>1. c1 \in Controls /\ c1.pending = "idle" /\ (~c.failed => ~c1.failed)
    BY DEF ForProcess, Controls, Processes, Running
  <1>2. c2 \in Controls /\ c2.pending = "idle" /\ c2.named
    BY <1>1 DEF Named, Controls, Running
  <1>3. \/ (m \/ p.stopping \/ c1.failed \/ file = "none") /\ control' = c1
        \/ ~(m \/ p.stopping \/ c1.failed \/ file = "none") /\ control' = c2 /\ file' = Place(switch)
    BY <1>1, Zenon DEF Sync, c1, c2
  <1> HIDE DEF c1, c2
  <1> QED
    BY <1>1, <1>2, <1>3

\* A running process: the control is synchronised with what it had tracked.
LEMMA RunningSynced ==
  ASSUME BridgeTypeOK, NEW c \in Controls, NEW switch \in BOOLEAN, NEW p \in Processes,
         NEW queue, Sync(c, switch, p, FALSE, queue),
         c.exists, c.pid = p.pid, Running(p), ~p.starting, host' # "down", job' = "none",
         proc' = p, on' = switch,
         ~doubt => /\ NoneUnderWay(c, queue, replies')
                      \/ (host' = host /\ file # "none" /\ OneUnderWay(c, queue, replies'))
                   /\ file # "none" =>
                        c.named /\ (c.pending = "idle" => (c.loaded <=> HasIn(host')))
  PROVE  BridgeInv'
  <1>0. c.loaded \in BOOLEAN /\ c.pending \in {"idle", "load", "unload"}
    BY DEF Controls
  <1>1. Processing'
    BY SyncAlways DEF Processing, Running
  <1>2. ASSUME ~doubt' PROVE Pipeline' /\ Tracking'
    <2>1. /\ NoneUnderWay(c, queue, replies')
             \/ (host' = host /\ file # "none" /\ OneUnderWay(c, queue, replies'))
          /\ file # "none" => c.named /\ (c.pending = "idle" => (c.loaded <=> HasIn(host')))
          /\ (file' = "none") <=> (file = "none")
          /\ Running(proc)' /\ ~proc'.starting
      BY <1>2, SyncAlways DEF Running
    <2>2. CASE /\ p.stopping \/ c.failed \/ file = "none"
               /\ control' = c /\ cmds' = queue /\ file' = file
      <3>1. Pipeline'
        BY <2>1, <2>2 DEF Pipeline, NoneUnderWay, OneUnderWay, Up
      <3>2. Tracking'
        BY <2>1, <2>2 DEF Tracking, HostHas, HasIn
      <3> QED
        BY <3>1, <3>2
    <2>3. CASE /\ ~p.stopping /\ ~c.failed /\ file # "none" /\ file' = Place(switch)
               /\ c.pending # "idle" \/ (c.loaded <=> switch)
               /\ control' = c /\ cmds' = queue
      <3>1. Pipeline'
        BY <2>1, <2>3 DEF Pipeline, NoneUnderWay, OneUnderWay, Up
      <3>2. Tracking'
        BY <2>1, <2>3, PlaceIsOne DEF Tracking, HostHas, HasIn
      <3> QED
        BY <3>1, <3>2
    <2>4. CASE /\ ~p.stopping /\ ~c.failed /\ file # "none" /\ file' = Place(switch)
               /\ c.pending = "idle" /\ ~(c.loaded <=> switch)
               /\ control' = Send(c, switch)
               /\ cmds' = Append(queue, Send(c, switch).pending)
      <3>1. queue = << >> /\ replies' = << >>
        BY <2>1, <2>4 DEF NoneUnderWay, OneUnderWay
      <3>2. /\ control'.pending = IF switch THEN "load" ELSE "unload"
            /\ control'.loaded = c.loaded /\ control'.named = c.named
        BY <2>4 DEF Send, Controls
      <3>3. cmds' = <<control'.pending>>
        BY <2>4, <3>1
      <3>4. Pipeline'
        BY <2>1, <3>1, <3>2, <3>3, <2>4 DEF Pipeline, OneUnderWay
      <3>5. Tracking'
        BY <2>1, <2>4, <3>2 DEF Tracking
      <3> QED
        BY <3>4, <3>5
    <2>5. \/ /\ p.stopping \/ c.failed \/ file = "none"
             /\ control' = c /\ cmds' = queue /\ file' = file
          \/ /\ ~p.stopping /\ ~c.failed /\ file # "none" /\ file' = Place(switch)
             /\ \/ /\ c.pending # "idle" \/ (c.loaded <=> switch)
                   /\ control' = c /\ cmds' = queue
                \/ /\ c.pending = "idle" /\ ~(c.loaded <=> switch)
                   /\ control' = Send(c, switch)
                   /\ cmds' = Append(queue, Send(c, switch).pending)
      BY <1>2, <2>1, SyncOfRunning
    <2> QED
      BY <2>2, <2>3, <2>4, <2>5
  <1> QED
    BY <1>1, <1>2 DEF BridgeInv

\* No process: nothing is under way.
LEMMA StoppedSynced ==
  ASSUME BridgeTypeOK, NEW c \in Controls, NEW switch \in BOOLEAN, NEW p \in Processes,
         NEW m \in BOOLEAN, NEW queue, Sync(c, switch, p, m, queue),
         ~Running(p), proc'.pid = 0, ~proc'.starting, ~proc'.stopping, host' = "down",
         queue = << >>, replies' = << >>, ~doubt => (c.pid = 0 => c.pending = "idle")
  PROVE  BridgeInv'
  <1>1. control'.pid = 0 /\ cmds' = << >>
    BY SyncAlways DEF Running
  <1>2. Processing'
    BY <1>1 DEF Processing, Running
  <1>3. ~doubt' => control'.pending = "idle"
    BY SyncAlways, SyncOfNone
  <1>4. ~doubt' => Pipeline' /\ Tracking'
    BY <1>1, <1>3 DEF Pipeline, NoneUnderWay, Tracking, Running
  <1> QED
    BY <1>2, <1>4 DEF BridgeInv

LEMMA BridgeTypes ==
  ASSUME BridgeTypeOK
  PROVE  /\ proc \in Processes /\ control \in Controls /\ on \in BOOLEAN /\ NoProcess \in Processes
         /\ cmds \in Seq(Commands) /\ replies \in Seq(Replies)
  BY DEF BridgeTypeOK, Processes, Controls, Commands, Replies, NoProcess

\* What the state says of a running process, in the form RunningSynced wants it.
LEMMA RunningTracked ==
  ASSUME BridgeInv, Running(proc)
  PROVE  /\ control.exists /\ control.pid = proc.pid /\ ~proc.starting
         /\ host # "down" /\ job = "none"
         /\ ~doubt => /\ NoneUnderWay(control, cmds, replies)
                         \/ (file # "none" /\ OneUnderWay(control, cmds, replies))
                      /\ file # "none" => /\ control.named
                                          /\ control.pending = "idle" => (control.loaded <=> HostHas)
  BY DEF BridgeInv, Processing, Pipeline, Tracking

\* The control that pumpkin_minimap_bridge_set_enabled goes on with.
LEMMA Enabled ==
  ASSUME BridgeTypeOK, NEW p \in Processes, NEW switch, SetEnabled(switch, p)
  PROVE  \E c \in Controls :
           /\ Sync(c, switch, p, job # "none", cmds) /\ c.exists /\ ~c.failed
           /\ c.pending = control.pending /\ c.loaded = control.loaded /\ c.named = control.named
           /\ c.pid = IF control.exists THEN control.pid ELSE p.pid
  <1> DEFINE c0 == IF control.exists THEN control
                   ELSE [control EXCEPT !.exists = TRUE, !.pid = p.pid]
             c == [c0 EXCEPT !.failed = FALSE]
  <1>0. control \in Controls
    BY BridgeTypes
  <1>1. /\ c0 \in Controls /\ c0.exists /\ c0.pending = control.pending
        /\ c0.loaded = control.loaded /\ c0.named = control.named
        /\ c0.pid = IF control.exists THEN control.pid ELSE p.pid
    BY <1>0 DEF Controls, Processes
  <1>2. Sync(c, switch, p, job # "none", cmds)
    BY DEF SetEnabled
  <1> HIDE DEF c0
  <1>3. /\ c \in Controls /\ c.exists /\ ~c.failed /\ c.pending = c0.pending
        /\ c.loaded = c0.loaded /\ c.named = c0.named /\ c.pid = c0.pid
    BY <1>1 DEF Controls
  <1> HIDE DEF c
  <1> QED
    BY <1>1, <1>2, <1>3

\* Without a process, and with the pipes empty, a step that only synchronises.
LEMMA IdlePending ==
  ASSUME BridgeInv, ~Running(proc)
  PROVE  cmds = << >> /\ replies = << >> /\ host = "down" /\ ~proc.stopping
         /\ (~doubt => control.pending = "idle")
  BY DEF BridgeInv, Processing, Pipeline, NoneUnderWay

\* A process is about to start, or its start is under way.
LEMMA StartingSynced ==
  ASSUME BridgeTypeOK, BridgeInv, NEW c \in Controls, NEW switch \in BOOLEAN, NEW p \in Processes,
         Sync(c, switch, p, FALSE, cmds), c.exists, ~c.failed, c.pending = control.pending,
         ~Running(p), ~p.stopping, ~Running(proc), job = "none",
         proc'.pid = 0, proc'.starting, ~proc'.stopping, on' = switch, UNCHANGED <<job, replies, host>>
  PROVE  BridgeInv'
  <1>1. /\ control'.exists /\ control'.pid = 0 /\ cmds' = << >> /\ (doubt => doubt')
        /\ (file' = "none") <=> (file = "none")
    BY SyncAlways, IdlePending DEF Running
  <1>2. Processing'
    BY <1>1, IdlePending DEF Processing, Running
  <1>3. ASSUME ~doubt'
        PROVE  /\ control'.pending = "idle"
               /\ file # "none" => control'.named /\ file' = Place(switch)
    BY <1>1, <1>3, SyncOfNone, IdlePending
  <1>4. ~doubt' => Pipeline' /\ Tracking'
    BY <1>1, <1>3, IdlePending DEF Pipeline, NoneUnderWay, Tracking, Running
  <1> QED
    BY <1>2, <1>4 DEF BridgeInv

LEMMA SwitchKeepsBridge ==
  ASSUME BridgeTypeOK, BridgeInv, NEW switch \in BOOLEAN, on' = switch, SetEnabled(switch, proc),
         UNCHANGED <<proc, job, replies, host>>
  PROVE  BridgeInv'
  <1>0. proc \in Processes
    BY BridgeTypes
  <1>1. PICK c \in Controls :
           /\ Sync(c, switch, proc, job # "none", cmds) /\ c.exists /\ ~c.failed
           /\ c.pending = control.pending /\ c.loaded = control.loaded /\ c.named = control.named
           /\ c.pid = IF control.exists THEN control.pid ELSE proc.pid
    BY <1>0, Enabled
  <1>2. CASE Running(proc)
    <2>1. (job # "none") = FALSE
      BY <1>2, RunningTracked
    <2>2. Sync(c, switch, proc, FALSE, cmds)
      BY <1>1, <2>1
    <2>3. ~doubt => /\ NoneUnderWay(c, cmds, replies')
                       \/ (file # "none" /\ OneUnderWay(c, cmds, replies'))
                    /\ file # "none" =>
                         c.named /\ (c.pending = "idle" => (c.loaded <=> HasIn(host')))
      BY <1>1, <1>2, RunningTracked DEF NoneUnderWay, OneUnderWay, HostHas
    <2>4. /\ c.exists /\ c.pid = proc.pid /\ ~proc.starting /\ host' # "down" /\ job' = "none"
      BY <1>1, <1>2, RunningTracked
    <2> QED
      BY <1>0, <1>2, <2>2, <2>3, <2>4, RunningSynced
  <1>3. CASE ~Running(proc) /\ ~proc.starting
    <2>1. (job # "none") \in BOOLEAN
      OBVIOUS
    <2> QED
      BY <1>0, <1>1, <1>3, <2>1, IdlePending, StoppedSynced DEF Running
  <1>4. CASE ~Running(proc) /\ proc.starting
    <2>1. job = "none" /\ control.exists /\ control.pid = 0 /\ c.pid = 0
      BY <1>1, <1>4 DEF BridgeInv, Processing, Running
    <2>2. (job # "none") = FALSE
      BY <2>1
    <2>3. Sync(c, switch, proc, FALSE, cmds)
      BY <1>1, <2>2
    <2> QED
      BY <1>0, <1>1, <1>4, <2>1, <2>3, IdlePending, StartingSynced DEF Running
  <1> QED
    BY <1>2, <1>3, <1>4

LEMMA PrepareStartKeepsBridge ==
  ASSUME BridgeTypeOK, BridgeInv, PrepareStart
  PROVE  BridgeInv'
  <1>0. proc \in Processes /\ NoProcess \in Processes /\ on \in BOOLEAN
        /\ ~Running(NoProcess) /\ NoProcess.pid = 0 /\ ~NoProcess.stopping
    BY BridgeTypes DEF NoProcess, Running
  <1>1. /\ ~Running(proc) /\ job = "none" /\ SetEnabled(on, NoProcess)
        /\ proc'.pid = 0 /\ proc'.starting /\ proc'.stopping = proc.stopping
        /\ UNCHANGED <<on, job, replies, host>>
    BY <1>0 DEF PrepareStart, Processes, Running
  <1>2. PICK c \in Controls :
           /\ Sync(c, on, NoProcess, job # "none", cmds) /\ c.exists /\ ~c.failed
           /\ c.pending = control.pending /\ c.loaded = control.loaded /\ c.named = control.named
           /\ c.pid = IF control.exists THEN control.pid ELSE NoProcess.pid
    BY <1>0, <1>1, Enabled
  <1>3. (job # "none") = FALSE
    BY <1>1
  <1>4. Sync(c, on, NoProcess, FALSE, cmds)
    BY <1>2, <1>3
  <1> QED
    BY <1>0, <1>1, <1>2, <1>4, IdlePending, StartingSynced

LEMMA ForProcessFirst ==
  ASSUME NEW c \in Controls, NEW switch, NEW p \in Processes, NEW m, NEW queue,
         Sync(c, switch, p, m, queue)
  PROVE  Sync(ForProcess(c, switch, p), switch, p, m, queue)
  <1>1. ForProcess(ForProcess(c, switch, p), switch, p) = ForProcess(c, switch, p)
    BY DEF ForProcess, Controls
  <1> QED
    BY <1>1 DEF Sync

LEMMA ProcessStartsKeepsBridge ==
  ASSUME BridgeTypeOK, BridgeInv, proc.last < MaxPid, ProcessStarts
  PROVE  BridgeInv'
  <1> DEFINE new == [pid |-> proc.last + 1, last |-> proc.last + 1, stopping |-> FALSE,
                     starting |-> FALSE]
             c == ForProcess(control, on, new)
  <1>0. proc \in Processes /\ control \in Controls /\ on \in BOOLEAN
    BY BridgeTypes
  <1>1. new \in Processes /\ Running(new) /\ ~new.starting /\ new.pid # 0
    BY <1>0 DEF Processes, Running
  <1>2. /\ proc.starting /\ proc' = new /\ host' = "starting" /\ StateChanged(new, FALSE)
        /\ UNCHANGED <<on, job, replies>>
    BY DEF ProcessStarts
  <1>3. /\ ~Running(proc) /\ control.exists /\ control.pid = 0 /\ job = "none"
        /\ cmds = << >> /\ replies = << >>
        /\ ~doubt => (file # "none" => control.named /\ file = Place(on))
    BY <1>2 DEF BridgeInv, Processing, Tracking, Running
  <1> HIDE DEF new
  <1>4. /\ c \in Controls /\ c.exists /\ c.pid = new.pid /\ c.pending = "idle"
        /\ c.named = control.named /\ (c.loaded <=> on)
    BY <1>0, <1>1, <1>3 DEF ForProcess, Controls, Processes
  <1>5. Sync(c, on, new, FALSE, cmds)
    BY <1>0, <1>1, <1>2, <1>3, ForProcessFirst DEF StateChanged
  <1> HIDE DEF c
  <1>6. ~doubt => /\ NoneUnderWay(c, cmds, replies')
                  /\ file # "none" =>
                       c.named /\ (c.pending = "idle" => (c.loaded <=> HasIn(host')))
    BY <1>2, <1>3, <1>4, PlaceIsOne DEF NoneUnderWay, HasIn
  <1>7. host' # "down" /\ job' = "none"
    BY <1>2, <1>3
  <1> QED
    BY <1>0, <1>1, <1>2, <1>4, <1>5, <1>6, <1>7, RunningSynced

LEMMA StopRequestedKeepsBridge ==
  ASSUME BridgeTypeOK, BridgeInv, StopRequested
  PROVE  BridgeInv'
  <1>0. proc \in Processes /\ control \in Controls /\ on \in BOOLEAN
    BY BridgeTypes
  <1>1. /\ Running(proc) /\ proc' = [proc EXCEPT !.stopping = TRUE] /\ StateChanged(proc', FALSE)
        /\ UNCHANGED <<on, job, replies, host>>
    BY DEF StopRequested
  <1>2. /\ proc' \in Processes /\ proc'.pid = proc.pid /\ proc'.starting = proc.starting
        /\ Running(proc') /\ ~proc'.starting
    BY <1>0, <1>1, RunningTracked DEF Processes, Running
  <1>3. Sync(control, on, proc', FALSE, cmds)
    BY <1>1, RunningTracked DEF StateChanged
  <1>4. control.exists /\ control.pid = proc'.pid /\ host' # "down" /\ job' = "none"
    BY <1>1, <1>2, RunningTracked
  <1>5. ~doubt => /\ NoneUnderWay(control, cmds, replies')
                     \/ (host' = host /\ file # "none" /\ OneUnderWay(control, cmds, replies'))
                  /\ file # "none" =>
                       control.named
                       /\ (control.pending = "idle" => (control.loaded <=> HasIn(host')))
    BY <1>1, RunningTracked DEF HostHas
  <1>6. on' = on
    BY <1>1
  <1> QED
    BY <1>0, <1>2, <1>3, <1>4, <1>5, <1>6, RunningSynced

LEMMA ProcessExitsKeepsBridge ==
  ASSUME BridgeTypeOK, BridgeInv, ProcessExits
  PROVE  BridgeInv'
  <1>0. proc \in Processes /\ control \in Controls /\ on \in BOOLEAN /\ FALSE \in BOOLEAN
    BY BridgeTypes
  <1>1. /\ Running(proc) /\ proc' = [proc EXCEPT !.pid = 0, !.stopping = FALSE]
        /\ host' = "down" /\ replies' = << >>
    BY DEF ProcessExits
  <1>2. /\ proc' \in Processes /\ proc'.pid = 0 /\ ~Running(proc')
        /\ ~proc'.starting /\ ~proc'.stopping
    <2>1. 0 \in 0 .. MaxPid
      OBVIOUS
    <2> QED
      BY <1>0, <1>1, <2>1, RunningTracked DEF Processes, Running
  <1>3. Sync(control, on, proc', FALSE, << >>) /\ control.pid # 0
    BY <1>1, RunningTracked DEF ProcessExits, Running
  <1> QED
    BY <1>0, <1>1, <1>2, <1>3, StoppedSynced

LEMMA FeedbackKeepsBridge ==
  ASSUME BridgeTypeOK, BridgeInv, ~proc.starting, BridgeFeedback
  PROVE  BridgeInv'
  <1> DEFINE reply == Head(replies)
             c == [control EXCEPT !.pending = "idle"]
             d == [c EXCEPT !.loaded = (reply.command = "load")]
             e == [c EXCEPT !.failed = TRUE]
  <1>0. proc \in Processes /\ control \in Controls /\ on \in BOOLEAN /\ replies # << >>
    BY BridgeTypes DEF BridgeFeedback
  <1>1. Running(proc)
    BY <1>0 DEF BridgeInv, Processing
  <1>2. /\ c \in Controls /\ c.pending = "idle" /\ c.exists = control.exists /\ c.pid = control.pid
        /\ c.named = control.named /\ c.loaded = control.loaded
    BY <1>0 DEF Controls
  <1>3. /\ d \in Controls /\ d.pending = "idle" /\ d.exists = control.exists
        /\ d.pid = control.pid /\ d.named = control.named
        /\ (d.loaded <=> reply.command = "load")
    BY <1>2 DEF Controls
  <1>4. /\ e.pending = "idle" /\ e.exists = control.exists /\ e.pid = control.pid
        /\ e.named = control.named /\ e.loaded = control.loaded /\ e.failed
    BY <1>2 DEF Controls
  <1>5. /\ replies' = Tail(replies) /\ UNCHANGED <<on, proc, job, host>>
        /\ \/ reply.command # control.pending /\ UNCHANGED <<control, file, cmds, doubt>>
           \/ reply.command = control.pending /\ reply.ok /\ SyncAfter(d)
           \/ /\ reply.command = control.pending /\ ~reply.ok
              /\ control' = e /\ UNCHANGED <<file, cmds, doubt>>
    BY Zenon DEF BridgeFeedback
  <1> HIDE DEF c, d, e
  <1>6. ASSUME ~doubt
        PROVE  /\ file # "none" /\ cmds = << >> /\ replies' = << >> /\ Up
               /\ reply.command = control.pending /\ control.named
               /\ (host = "loaded") <=> ((control.pending = "load") <=> reply.ok)
               /\ (control.pending = "load") <=> ~control.loaded
    <2>1. OneUnderWay(control, cmds, replies) /\ file # "none" /\ control.named
      BY <1>0, <1>1, <1>6, RunningTracked DEF NoneUnderWay
    <2>2. PICK ok \in BOOLEAN : /\ replies = <<[command |-> control.pending, ok |-> ok]>>
                                /\ (host = "loaded") <=> ((control.pending = "load") <=> ok)
      BY <1>0, <2>1 DEF OneUnderWay
    <2>3. reply.command = control.pending /\ reply.ok = ok /\ Tail(replies) = << >>
      BY <2>2
    <2> QED
      BY <1>0, <1>5, <2>1, <2>2, <2>3 DEF OneUnderWay
  <1>7. CASE reply.command # control.pending /\ UNCHANGED <<control, file, cmds, doubt>>
    <2>1. Processing' /\ doubt'
      BY <1>1, <1>5, <1>6, <1>7 DEF BridgeInv, Processing
    <2> QED
      BY <2>1 DEF BridgeInv
  <1>8. CASE reply.command = control.pending /\ reply.ok /\ SyncAfter(d)
    <2>1. (job # "none") = FALSE
      BY <1>1, RunningTracked
    <2>2. Sync(d, on, proc, FALSE, cmds)
      BY <1>8, <2>1 DEF SyncAfter
    <2>3. ~doubt => /\ NoneUnderWay(d, cmds, replies')
                    /\ file # "none" =>
                         d.named /\ (d.pending = "idle" => (d.loaded <=> HasIn(host')))
      BY <1>3, <1>5, <1>6, <1>8 DEF NoneUnderWay, HasIn, Up
    <2>4. d.exists /\ d.pid = proc.pid /\ ~proc.starting /\ host' # "down" /\ job' = "none"
      BY <1>1, <1>3, <1>5, RunningTracked
    <2>5. proc' = proc /\ on' = on
      BY <1>5
    <2> QED
      BY <1>0, <1>1, <1>3, <2>2, <2>3, <2>4, <2>5, RunningSynced
  <1>9. CASE /\ reply.command = control.pending /\ ~reply.ok
             /\ control' = e /\ UNCHANGED <<file, cmds, doubt>>
    <2>1. Processing'
      BY <1>1, <1>4, <1>5, <1>9 DEF BridgeInv, Processing
    <2>2. ~doubt' => Pipeline' /\ Tracking'
      BY <1>1, <1>4, <1>5, <1>6, <1>9
         DEF Pipeline, NoneUnderWay, Tracking, HostHas, HasIn, Up, BridgeInv, Processing
    <2> QED
      BY <2>1, <2>2 DEF BridgeInv
  <1> QED
    BY <1>5, <1>7, <1>8, <1>9

LEMMA JobKeepsBridge ==
  ASSUME BridgeTypeOK, BridgeInv, ~proc.starting, JobStarts \/ JobEnds \/ JobInstalls
  PROVE  BridgeInv'
  <1>0. proc \in Processes /\ control \in Controls /\ on \in BOOLEAN
    BY BridgeTypes
  <1>1. ~Running(proc) /\ UNCHANGED <<on, proc, replies, host>>
    BY DEF BridgeInv, Processing, JobStarts, JobEnds, JobInstalls
  <1>2. ASSUME UNCHANGED <<control, cmds, doubt>> PROVE BridgeInv'
    BY <1>1, <1>2 DEF BridgeInv, Processing, Pipeline, NoneUnderWay, Tracking, Running
  <1>3. ASSUME NEW m \in BOOLEAN, StateChanged(proc, m) PROVE BridgeInv'
    <2>1. CASE control.exists
      <3>1. Sync(control, on, proc, m, cmds)
        BY <1>3, <2>1 DEF StateChanged
      <3> QED
        BY <1>0, <1>1, <3>1, IdlePending, StoppedSynced DEF Running
    <2>2. CASE ~control.exists
      BY <1>2, <1>3, <2>2 DEF StateChanged
    <2> QED
      BY <2>1, <2>2
  <1> QED
    BY <1>2, <1>3 DEF JobStarts, JobEnds, JobInstalls

LEMMA HostKeepsBridge ==
  ASSUME BridgeTypeOK, BridgeInv, HostLoadsPlugins \/ HostRunsCommand
  PROVE  BridgeInv'
  <1>1. /\ UNCHANGED <<on, proc, job, file, control, doubt>>
        /\ host # "down" /\ host' \in {"loaded", "unloaded"}
    BY DEF HostLoadsPlugins, HostRunsCommand
  <1>2. Running(proc)
    BY <1>1 DEF BridgeInv, Processing
  <1>3. Processing'
    BY <1>1, <1>2 DEF BridgeInv, Processing
  <1>4. ASSUME ~doubt PROVE Pipeline' /\ Tracking'
    <2>1. /\ NoneUnderWay(control, cmds, replies)
             \/ (file # "none" /\ OneUnderWay(control, cmds, replies))
          /\ file # "none" =>
               control.named /\ (control.pending = "idle" => (control.loaded <=> HostHas))
          /\ ~proc.starting
      BY <1>2, <1>4, RunningTracked
    <2>2. CASE HostLoadsPlugins
      <3>1. /\ host = "starting" /\ ((host' = "loaded") <=> (file = "active"))
            /\ UNCHANGED <<cmds, replies>>
        BY <2>2 DEF HostLoadsPlugins
      <3>2. Pipeline'
        BY <1>1, <1>2, <2>1, <3>1 DEF Pipeline, NoneUnderWay, OneUnderWay, Up
      <3>3. Tracking'
        BY <1>1, <1>2, <1>4, <2>1, <3>1 DEF BridgeInv, Tracking, HostHas, HasIn
      <3> QED
        BY <3>2, <3>3
    <2>3. CASE HostRunsCommand
      <3>1. /\ file # "none" /\ control.pending # "idle" /\ cmds = <<control.pending>>
            /\ replies = << >> /\ ((control.pending = "load") <=> ~control.loaded)
        BY <2>1, <2>3 DEF HostRunsCommand, NoneUnderWay, OneUnderWay
      <3>2. Head(cmds) = control.pending /\ cmds' = << >>
        BY <2>3, <3>1 DEF HostRunsCommand
      <3>3. \E ok \in BOOLEAN : /\ replies' = <<[command |-> control.pending, ok |-> ok]>>
                                /\ (host' = "loaded") <=> ((control.pending = "load") <=> ok)
        <4>1. /\ Up
              /\ \/ /\ (host = "loaded") <=> (control.pending = "load")
                    /\ Answer(control.pending, TRUE) /\ UNCHANGED host
                 \/ /\ host' = IF control.pending = "load" THEN "loaded" ELSE "unloaded"
                    /\ Answer(control.pending, TRUE)
                 \/ /\ ~((host = "loaded") <=> (control.pending = "load"))
                    /\ Answer(control.pending, FALSE) /\ UNCHANGED host
          BY <2>3, <3>2 DEF HostRunsCommand, Up
        <4>2. \A ok : Answer(control.pending, ok) =>
                        replies' = <<[command |-> control.pending, ok |-> ok]>>
          BY <3>1 DEF Answer
        <4>3. CASE ((host' = "loaded") <=> (control.pending = "load")) /\ Answer(control.pending, TRUE)
          BY <4>2, <4>3
        <4>4. CASE ~((host' = "loaded") <=> (control.pending = "load"))
                   /\ Answer(control.pending, FALSE)
          BY <4>2, <4>4
        <4> QED
          BY <4>1, <4>3, <4>4
      <3>4. Pipeline'
        BY <1>1, <1>2, <3>1, <3>2, <3>3 DEF Pipeline, OneUnderWay, Up
      <3>5. Tracking'
        BY <1>1, <1>2, <2>1, <3>1 DEF Tracking
      <3> QED
        BY <3>4, <3>5
    <2> QED
      BY <2>2, <2>3
  <1> QED
    BY <1>1, <1>3, <1>4 DEF BridgeInv

LEMMA BridgeStepKeepsBridge ==
  ASSUME BridgeTypeOK, BridgeInv, proc.starting => proc.last < MaxPid,
         (BridgeIdle /\ BridgeMainStep) \/ ProcessStarts \/ BridgeOtherStep
  PROVE  BridgeInv'
  <1>1. CASE BridgeTimedOut
    BY <1>1 DEF BridgeTimedOut, BridgeInv, Processing
  <1>2. JobInstalls => ~proc.starting
    BY DEF JobInstalls, BridgeInv, Processing
  <1>3. CASE BridgeFeedback /\ BridgeIdle
    BY <1>3, FeedbackKeepsBridge DEF BridgeIdle
  <1>4. CASE ((JobStarts \/ JobEnds) /\ BridgeIdle) \/ JobInstalls
    BY <1>2, <1>4, JobKeepsBridge DEF BridgeIdle
  <1>5. CASE ProcessStarts
    <2>1. proc.last < MaxPid
      BY <1>5 DEF ProcessStarts
    <2> QED
      BY <1>5, <2>1, ProcessStartsKeepsBridge
  <1> QED
    BY <1>1, <1>3, <1>4, <1>5, PrepareStartKeepsBridge, StopRequestedKeepsBridge,
       ProcessExitsKeepsBridge, HostKeepsBridge DEF BridgeMainStep, BridgeOtherStep

-----------------------------------------------------------------------------
(* The page and its tasks.                                                 *)

LEMMA InitPageInv == Init => PageInv
  <1> SUFFICES ASSUME Init PROVE PageInv
    OBVIOUS
  <1>1. PageTyped
    <2>1. page \in PageRec
      BY DEF Init, PageRec, Asked, NoAction
    <2>2. done \in [Actions -> Nat] /\ bridge \in Asked
      BY DEF Init, None, Asked, NoAction
    <2>3. live \in Answers /\ sample \in Answers /\ request \in {Nothing} \cup RequestRec
      BY DEF Init, Answers
    <2>4. events \in 0 .. MaxEvents /\ tasks \subseteq TaskRec /\ revoked \subseteq 1 .. MaxRequest
      BY DEF Init
    <2> QED
      BY <2>1, <2>2, <2>3, <2>4 DEF Init, PageTyped
  <1>2. Sessions /\ AnswersAreOwn /\ RevokersHaveRead /\ EndedAreRevoked
    BY DEF Init, Sessions, AnswersAreOwn, RevokersHaveRead, EndedAreRevoked, Ended
  <1>3. Confirmed /\ InOrder
    BY DEF Init, Confirmed, InOrder, None, Actions, NoAction
  <1> QED
    BY <1>1, <1>2, <1>3 DEF PageInv

\* Nothing of the page's changes.
LEMMA PageKept ==
  ASSUME PageInv, UNCHANGED <<page, live, busy, revoked, tasks, sharedVars, loadVars>>,
         selected' \in BOOLEAN, events' \in 0 .. MaxEvents
  PROVE  PageInv'
  <1> USE DEF sharedVars, loadVars
  <1>1. PageTyped'
    BY DEF PageInv, PageTyped, PageRec, TaskRec, Answers, Asked
  <1>2. Sessions' /\ AnswersAreOwn' /\ RevokersHaveRead' /\ EndedAreRevoked'
    BY DEF PageInv, Sessions, AnswersAreOwn, RevokersHaveRead, EndedAreRevoked, Ended, WillRevoke
  <1>3. Confirmed' /\ InOrder'
    BY DEF PageInv, Confirmed, InOrder
  <1> QED
    BY <1>1, <1>2, <1>3 DEF PageInv

\* Tasks that are cancelled are otherwise what they were.
LEMMA CancelledTasks ==
  ASSUME tasks \subseteq TaskRec
  PROVE  /\ Cancelled(tasks) \subseteq TaskRec
         /\ \A u \in Cancelled(tasks) : \E t \in tasks :
              /\ u = [t EXCEPT !.cancelled = TRUE] /\ u.cancelled
              /\ u.request = t.request /\ u.action = t.action /\ u.main = t.main
              /\ u.step = t.step /\ u.stale = t.stale /\ u.got = t.got
         /\ \A t \in tasks : [t EXCEPT !.cancelled = TRUE] \in Cancelled(tasks)
  BY DEF Cancelled, TaskRec

LEMMA NewSessionInv ==
  ASSUME PageInv, BridgeTypeOK, Idle, NewSession, events' \in 0 .. MaxEvents
  PROVE  PageInv'
  <1>0. tasks \subseteq TaskRec /\ page \in PageRec /\ proc.pid \in 0 .. MaxPid
    BY DEF PageInv, PageTyped, BridgeTypeOK
  <1>1. /\ page'.request = page.request + 1 /\ page'.request \in 1 .. MaxRequest
        /\ page'.action = NoAction /\ page'.made = page.made /\ page' \in PageRec
    BY <1>0 DEF NewSession, PageRec, Asked, NoAction, PageInv, PageTyped
  <1>2. tasks' = Cancelled(tasks) /\ live' = Nothing
        /\ UNCHANGED <<selected, revoked, sharedVars, loadVars>>
    BY DEF NewSession
  <1>3. \A t \in tasks : ~t.main
    BY DEF Idle
  <1> USE DEF sharedVars, loadVars
  <1>4. PageTyped'
    BY <1>0, <1>1, <1>2, CancelledTasks DEF PageInv, PageTyped, NewSession, Answers
  <1>5. Sessions'
    BY <1>0, <1>1, <1>2, <1>3, CancelledTasks DEF PageInv, Sessions, PageTyped, TaskRec, PageRec,
       RequestRec
  <1>6. AnswersAreOwn' /\ RevokersHaveRead'
    BY <1>0, <1>2, CancelledTasks DEF PageInv, AnswersAreOwn, RevokersHaveRead
  <1>7. \A r : Ended(r)' => Ended(r)
    BY <1>0, <1>2, <1>3, CancelledTasks DEF Ended
  <1>8. EndedAreRevoked'
    <2> SUFFICES ASSUME NEW r \in Nat, Ended(r)', request # Nothing, request.request = r
                 PROVE  \E u \in tasks' : u.request = r /\ WillRevoke(u)
      BY <1>0, <1>2, CancelledTasks DEF EndedAreRevoked, WillRevoke
    <2>1. PICK t \in tasks : t.request = r /\ WillRevoke(t)
      BY <1>7 DEF PageInv, EndedAreRevoked
    <2>2. [t EXCEPT !.cancelled = TRUE] \in tasks'
      BY <1>0, <1>2, CancelledTasks
    <2>3. t \in TaskRec
      BY <1>0
    <2> QED
      BY <2>1, <2>2, <2>3 DEF TaskRec, WillRevoke
  <1>9. Confirmed'
    BY <1>0, <1>1, <1>2, CancelledTasks DEF PageInv, Confirmed, NoAction, PageRec, Asked
  <1>10. InOrder'
    BY <1>2 DEF PageInv, InOrder
  <1> QED
    BY <1>4, <1>5, <1>6, <1>8, <1>9, <1>10 DEF PageInv

LEMMA PollInv ==
  ASSUME PageInv, Idle, Poll, events' \in 0 .. MaxEvents
  PROVE  PageInv'
  <1> DEFINE n == [request |-> page.request, action |-> page.action, main |-> FALSE,
                   step |-> "start", cancelled |-> FALSE, stale |-> FALSE, got |-> Nothing]
  <1>0. tasks \subseteq TaskRec /\ page \in PageRec
    BY DEF PageInv, PageTyped
  <1>1. /\ n \in TaskRec /\ n.request = page.request /\ n.action = page.action /\ ~n.main
        /\ n.step = "start" /\ n.got = Nothing
    BY <1>0 DEF TaskRec, PageRec, Answers
  <1>2. /\ tasks' = tasks \cup {n} /\ live' \in {live, Nothing} /\ busy' = TRUE
        /\ UNCHANGED <<page, selected, revoked, sharedVars, loadVars>>
    BY DEF Poll
  <1> HIDE DEF n
  <1>3. \A t \in tasks : ~t.main
    BY DEF Idle
  <1> USE DEF sharedVars, loadVars
  <1>4. PageTyped'
    BY <1>0, <1>1, <1>2 DEF PageInv, PageTyped, Answers
  <1>5. Sessions'
    BY <1>0, <1>1, <1>2, <1>3 DEF PageInv, Sessions, PageTyped, TaskRec, PageRec
  <1>6. AnswersAreOwn' /\ RevokersHaveRead'
    BY <1>0, <1>1, <1>2 DEF PageInv, AnswersAreOwn, RevokersHaveRead
  <1>7. \A r : Ended(r)' => r \in revoked /\ Ended(r)
    BY <1>0, <1>1, <1>2, <1>3 DEF Ended
  <1>8. \A r \in revoked : r # page.request
    BY <1>0 DEF PageInv, PageTyped, Sessions, PageRec
  <1>9. EndedAreRevoked'
    BY <1>0, <1>1, <1>2, <1>7, <1>8 DEF PageInv, EndedAreRevoked, WillRevoke
  <1>10. Confirmed' /\ InOrder'
    BY <1>0, <1>1, <1>2 DEF PageInv, Confirmed, InOrder
  <1> QED
    BY <1>4, <1>5, <1>6, <1>9, <1>10 DEF PageInv

\* The action of the page changes, to none or to a new one.
LEMMA ActionInv ==
  ASSUME PageInv, Idle, ActionGivenUp \/ ActionConfirmed, events' \in 0 .. MaxEvents
  PROVE  PageInv'
  <1>0. page \in PageRec
    BY DEF PageInv, PageTyped
  <1>1. /\ page' \in PageRec /\ page'.request = page.request /\ page'.server = page.server
        /\ page'.made >= page.made /\ page'.action <= page'.made
    <2>1. CASE ActionGivenUp
      BY <1>0, <2>1 DEF ActionGivenUp, PageRec, Asked, NoAction
    <2>2. CASE ActionConfirmed
      <3>1. page.made + 1 \in Asked /\ page.made \in Nat
        BY <1>0, <2>2 DEF ActionConfirmed, PageRec, Asked
      <3>2. page' = [page EXCEPT !.action = page.made + 1, !.made = page.made + 1]
        BY <2>2 DEF ActionConfirmed
      <3>3. page' \in PageRec /\ page'.request = page.request /\ page'.server = page.server
        BY <1>0, <3>1, <3>2 DEF PageRec
      <3>4. page'.made = page.made + 1 /\ page'.action = page.made + 1
        BY <1>0, <3>2 DEF PageRec
      <3> QED
        BY <3>1, <3>3, <3>4
    <2> QED
      BY <2>1, <2>2
  <1>2. UNCHANGED <<selected, live, busy, revoked, tasks, sharedVars, loadVars>>
    BY DEF ActionGivenUp, ActionConfirmed
  <1> USE DEF sharedVars, loadVars
  <1>3. PageTyped'
    BY <1>1, <1>2 DEF PageInv, PageTyped
  <1>4. Sessions' /\ AnswersAreOwn' /\ RevokersHaveRead' /\ EndedAreRevoked'
    BY <1>1, <1>2
       DEF PageInv, Sessions, AnswersAreOwn, RevokersHaveRead, EndedAreRevoked, Ended, WillRevoke
  <1>5. Confirmed' /\ InOrder'
    BY <1>0, <1>1, <1>2
       DEF PageInv, Confirmed, InOrder, PageTyped, PageRec, TaskRec, RequestRec, Asked
  <1> QED
    BY <1>3, <1>4, <1>5 DEF PageInv

LEMMA TaskFinishedInv ==
  ASSUME PageInv, Idle, NEW t \in tasks, TaskFinished(t), events' \in 0 .. MaxEvents
  PROVE  PageInv'
  <1> USE DEF sharedVars, loadVars
  <1>0. tasks \subseteq TaskRec /\ page \in PageRec /\ t \in TaskRec
    BY DEF PageInv, PageTyped
  <1>1. /\ tasks' = tasks \ {t} /\ t.step = "finished" /\ busy' \in {busy, FALSE}
        /\ UNCHANGED <<selected, revoked, sharedVars, loadVars>>
    BY DEF TaskFinished
  <1>2. live' = live \/ (live' = t.got /\ t.request = page.request)
    BY DEF TaskFinished, OfThisGeneration
  <1>3. page' = page \/ page' = [page EXCEPT !.action = NoAction]
    BY DEF TaskFinished
  <1>4. /\ page' \in PageRec /\ page'.request = page.request /\ page'.server = page.server
        /\ page'.made = page.made /\ page'.action \in {page.action, NoAction}
    BY <1>0, <1>3 DEF PageRec, Asked, NoAction
  <1>5. PageTyped'
    BY <1>0, <1>1, <1>2, <1>4 DEF PageInv, PageTyped, TaskRec
  <1>6. Sessions' /\ RevokersHaveRead'
    BY <1>1, <1>4 DEF PageInv, Sessions, RevokersHaveRead
  <1>7. AnswersAreOwn'
    BY <1>1, <1>2, <1>4 DEF PageInv, AnswersAreOwn
  <1>8. EndedAreRevoked'
    BY <1>1, <1>4 DEF PageInv, EndedAreRevoked, Ended, WillRevoke
  <1>9. Confirmed' /\ InOrder'
    BY <1>0, <1>1, <1>4 DEF PageInv, Confirmed, InOrder, NoAction, PageRec, Asked
  <1> QED
    BY <1>5, <1>6, <1>7, <1>8, <1>9 DEF PageInv

LEMMA SwitchOffInv ==
  ASSUME PageInv, Idle, SwitchOff, events' \in 0 .. MaxEvents
  PROVE  PageInv'
  <1> DEFINE n == [request |-> page.request, action |-> NoAction, main |-> TRUE, cancelled |-> TRUE,
                   step |-> IF page.server /\ request.request = page.request
                              THEN "revoke" ELSE "finished",
                   stale |-> FALSE, got |-> Nothing]
  <1> USE DEF sharedVars, loadVars
  <1>0. tasks \subseteq TaskRec /\ page \in PageRec
    BY DEF PageInv, PageTyped
  <1>1. /\ n \in TaskRec /\ n.request = page.request /\ n.action = NoAction /\ n.main
        /\ n.cancelled /\ ~n.stale /\ n.got = Nothing
        /\ n.step = "revoke" <=> page.server /\ request.request = page.request
    BY <1>0 DEF TaskRec, PageRec, Answers, Asked, NoAction
  <1>2. /\ tasks' = Cancelled(tasks) \cup {n} /\ page.request < MaxRequest
        /\ UNCHANGED <<selected, page, live, busy, revoked, sharedVars, loadVars>>
    BY DEF SwitchOff, pageVars
  <1> HIDE DEF n
  <1>3. \A t \in tasks : ~t.main
    BY DEF Idle
  <1>4. PageTyped'
    BY <1>0, <1>1, <1>2, CancelledTasks DEF PageInv, PageTyped
  <1>5. Sessions'
    BY <1>0, <1>1, <1>2, <1>3, CancelledTasks DEF PageInv, Sessions, PageTyped, PageRec
  <1>6. AnswersAreOwn' /\ RevokersHaveRead'
    BY <1>0, <1>1, <1>2, CancelledTasks DEF PageInv, AnswersAreOwn, RevokersHaveRead
  <1>7. EndedAreRevoked'
    <2> SUFFICES ASSUME NEW r \in Nat, Ended(r)', request # Nothing, request.request = r
                 PROVE  \E u \in tasks' : u.request = r /\ WillRevoke(u)
      BY <1>0, <1>1, <1>2, CancelledTasks DEF EndedAreRevoked, WillRevoke
    <2>1. CASE r \in revoked
      <3>1. PICK t \in tasks : t.request = r /\ WillRevoke(t)
        BY <2>1 DEF PageInv, EndedAreRevoked, Ended
      <3>2. [t EXCEPT !.cancelled = TRUE] \in tasks'
        BY <1>0, <1>2, CancelledTasks
      <3>3. t \in TaskRec
        BY <1>0
      <3> QED
        BY <3>1, <3>2, <3>3 DEF TaskRec, WillRevoke
    <2>2. CASE r = page.request /\ page.server
      BY <1>1, <1>2, <2>2 DEF WillRevoke
    <2> QED
      BY <1>2, <2>1, <2>2 DEF Ended
  <1>8. Confirmed'
    BY <1>0, <1>1, <1>2, CancelledTasks DEF PageInv, Confirmed, NoAction, PageRec, Asked
  <1>9. InOrder'
    BY <1>2 DEF PageInv, InOrder
  <1> QED
    BY <1>4, <1>5, <1>6, <1>7, <1>8, <1>9 DEF PageInv

LEMMA SwitchedOffInv ==
  ASSUME PageInv, NEW t \in tasks, SwitchedOff(t), UNCHANGED events
  PROVE  PageInv'
  <1> USE DEF sharedVars, loadVars
  <1>0. tasks \subseteq TaskRec /\ page \in PageRec /\ t \in TaskRec
        /\ revoked \subseteq 1 .. MaxRequest
    BY DEF PageInv, PageTyped
  <1>1. /\ t.main /\ t.step = "finished" /\ tasks' = tasks \ {t}
        /\ live' = Nothing /\ busy' = FALSE
        /\ page' = [page EXCEPT !.request = page.request + 1, !.action = NoAction]
        /\ revoked' = IF page.server THEN revoked \cup {page.request} ELSE revoked
        /\ UNCHANGED <<selected, sharedVars, loadVars>>
    BY DEF SwitchedOff
  <1>2. t.request = page.request /\ page.request < MaxRequest /\ \A u \in tasks' : ~u.main
    BY <1>1 DEF PageInv, Sessions
  <1>3. /\ page' \in PageRec /\ page'.request = page.request + 1 /\ page'.server = page.server
        /\ page'.made = page.made /\ page'.action = NoAction
    <2>1. page.request + 1 \in 1 .. MaxRequest /\ NoAction \in Asked
      BY <1>0, <1>2 DEF PageRec, Asked, NoAction
    <2> QED
      BY <1>0, <1>1, <2>1 DEF PageRec
  <1>4. PageTyped'
    BY <1>0, <1>1, <1>3 DEF PageInv, PageTyped, Answers, PageRec
  <1>5. Sessions'
    BY <1>0, <1>1, <1>2, <1>3 DEF PageInv, Sessions, PageTyped, PageRec, TaskRec, RequestRec
  <1>6. AnswersAreOwn' /\ RevokersHaveRead'
    BY <1>1 DEF PageInv, AnswersAreOwn, RevokersHaveRead
  <1>7. \A r : Ended(r)' => Ended(r)
    BY <1>1, <1>2, <1>3 DEF Ended
  <1>8. EndedAreRevoked'
    BY <1>1, <1>7 DEF PageInv, EndedAreRevoked, WillRevoke
  <1>9. Confirmed' /\ InOrder'
    BY <1>0, <1>1, <1>3 DEF PageInv, Confirmed, InOrder, NoAction, PageRec, Asked
  <1> QED
    BY <1>4, <1>5, <1>6, <1>8, <1>9 DEF PageInv

-----------------------------------------------------------------------------
(* The threads.                                                            *)

\* A task that goes on in its work, and is otherwise what it was.
LEMMA Went ==
  ASSUME PageInv, UNCHANGED <<selected, page, live, busy, revoked, sharedVars, loadVars, events>>,
         NEW t \in tasks, NEW u \in TaskRec, tasks' = (tasks \ {t}) \cup {u},
         u.request = t.request, u.action = t.action, u.main = t.main, u.cancelled = t.cancelled,
         u.got # Nothing => u.got.request = u.request,
         u.step = "revoke" => u.cancelled /\ (~u.stale => request.request = u.request),
         WillRevoke(t) /\ request.request = t.request => WillRevoke(u)
  PROVE  PageInv'
  <1> USE DEF sharedVars, loadVars
  <1>1. PageTyped'
    BY DEF PageInv, PageTyped
  <1>2. Sessions'
    BY DEF PageInv, Sessions
  <1>3. AnswersAreOwn' /\ RevokersHaveRead'
    BY DEF PageInv, AnswersAreOwn, RevokersHaveRead
  <1>4. \A r : Ended(r)' => Ended(r)
    BY DEF Ended
  <1>5. EndedAreRevoked'
    <2> SUFFICES ASSUME NEW r \in Nat, Ended(r)'
                 PROVE  /\ \A v \in tasks' : v.request = r => v.cancelled
                        /\ request # Nothing /\ request.request = r =>
                             \E v \in tasks' : v.request = r /\ WillRevoke(v)
      BY DEF EndedAreRevoked, WillRevoke
    <2> QED
      BY <1>4 DEF PageInv, EndedAreRevoked
  <1>6. Confirmed' /\ InOrder'
    BY DEF PageInv, Confirmed, InOrder
  <1> QED
    BY <1>1, <1>2, <1>3, <1>5, <1>6 DEF PageInv

\* The others' ETag does not fit any more.
LEMMA StaleTasks ==
  ASSUME tasks \subseteq TaskRec, NEW t
  PROVE  \A v \in {[u EXCEPT !.stale = TRUE] : u \in tasks \ {t}} :
           /\ v \in TaskRec /\ v.stale
           /\ \E u \in tasks \ {t} :
                v.request = u.request /\ v.action = u.action /\ v.main = u.main
                /\ v.step = u.step /\ v.cancelled = u.cancelled /\ v.got = u.got
                /\ v = [u EXCEPT !.stale = TRUE]
  BY DEF TaskRec

\* One task goes on in its work, and the others' ETags do not fit any more.
LEMMA OneMain ==
  ASSUME PageInv, NEW t \in tasks, NEW u, u.main = t.main,
         tasks' = {[v EXCEPT !.stale = TRUE] : v \in tasks \ {t}} \cup {u}
  PROVE  \A a, b \in tasks' : a.main /\ b.main => a = b
  <1> SUFFICES ASSUME NEW a \in tasks', NEW b \in tasks', a.main, b.main PROVE a = b
    OBVIOUS
  <1>0. tasks \subseteq TaskRec
    BY DEF PageInv, PageTyped
  <1>1. PICK v \in tasks : v.main /\ ((a = u /\ v = t) \/ (a = [v EXCEPT !.stale = TRUE] /\ v # t))
    <2>1. CASE a = u
      BY <2>1
    <2>2. CASE a \in {[r EXCEPT !.stale = TRUE] : r \in tasks \ {t}}
      <3>1. PICK r \in tasks \ {t} : a = [r EXCEPT !.stale = TRUE]
        BY <2>2
      <3>2. a.main = r.main
        BY <1>0, <3>1 DEF TaskRec
      <3> QED
        BY <3>1, <3>2
    <2> QED
      BY <2>1, <2>2
  <1>2. PICK w \in tasks : w.main /\ ((b = u /\ w = t) \/ (b = [w EXCEPT !.stale = TRUE] /\ w # t))
    <2>1. CASE b = u
      BY <2>1
    <2>2. CASE b \in {[r EXCEPT !.stale = TRUE] : r \in tasks \ {t}}
      <3>1. PICK r \in tasks \ {t} : b = [r EXCEPT !.stale = TRUE]
        BY <2>2
      <3>2. b.main = r.main
        BY <1>0, <3>1 DEF TaskRec
      <3> QED
        BY <3>1, <3>2
    <2> QED
      BY <2>1, <2>2
  <1>3. v = w
    BY <1>1, <1>2 DEF PageInv, Sessions
  <1> QED
    BY <1>1, <1>2, <1>3

\* The end of map_worker.
LEMMA GotInv ==
  ASSUME PageInv, UNCHANGED <<selected, page, live, busy, revoked, sharedVars, loadVars, events>>,
         NEW t \in tasks, t.step \in {"write", "read"}, NEW found \in Answers, Got(t, found),
         found # Nothing => found.request = t.request
  PROVE  PageInv'
  <1> DEFINE u == [t EXCEPT !.got = found, !.stale = FALSE,
                            !.step = IF MustRevoke(t) THEN "revoke" ELSE "finished"]
  <1>0. t \in TaskRec
    BY DEF PageInv, PageTyped
  <1>1. /\ u \in TaskRec /\ u.request = t.request /\ u.action = t.action /\ u.main = t.main
        /\ u.cancelled = t.cancelled /\ ~u.stale /\ u.got = found
        /\ u.step = IF MustRevoke(t) THEN "revoke" ELSE "finished"
    BY <1>0 DEF TaskRec
  <1>2. tasks' = (tasks \ {t}) \cup {u}
    BY DEF Got
  <1> HIDE DEF u
  <1> QED
    BY <1>1, <1>2, Went DEF MustRevoke, WillRevoke

LEMMA TaskStepInv ==
  ASSUME PageInv, UNCHANGED <<selected, page, live, busy, revoked, bridge, done, events>>,
         NEW t \in tasks, TaskStep(t)
  PROVE  PageInv'
  <1> USE DEF sharedVars, loadVars
  <1>0. tasks \subseteq TaskRec /\ t \in TaskRec /\ page \in PageRec /\ Nothing \in Answers
    BY DEF PageInv, PageTyped, Answers
  <1>a. ASSUME NEW step \in {"write", "read", "finished"}
        PROVE  /\ [t EXCEPT !.step = step] \in TaskRec
               /\ [t EXCEPT !.step = step].request = t.request
               /\ [t EXCEPT !.step = step].action = t.action
               /\ [t EXCEPT !.step = step].main = t.main
               /\ [t EXCEPT !.step = step].cancelled = t.cancelled
               /\ [t EXCEPT !.step = step].got = t.got
               /\ [t EXCEPT !.step = step].step = step
    BY <1>0 DEF TaskRec
  <1>b. t.got # Nothing => t.got.request = t.request
    BY DEF PageInv, AnswersAreOwn
  <1>1. CASE TaskStarts(t)
    <2>1. PICK step \in {"finished", "write"} : tasks' = (tasks \ {t}) \cup {[t EXCEPT !.step = step]}
      BY <1>1 DEF TaskStarts, Goes
    <2>2. ~WillRevoke(t)
      BY <1>1 DEF TaskStarts, WillRevoke
    <2> QED
      BY <1>1, <1>a, <1>b, <2>1, <2>2, Went DEF TaskStarts
  <1>2. CASE TaskWrites(t) /\ UNCHANGED <<request, late>> /\ Got(t, Nothing)
    BY <1>0, <1>2, GotInv DEF TaskWrites
  <1>3. CASE TaskWrites(t) /\ ~(UNCHANGED <<request, late>> /\ Got(t, Nothing))
    <2> DEFINE u == [t EXCEPT !.step = "read"]
               others == {[v EXCEPT !.stale = TRUE] : v \in tasks \ {t}}
    <2>1. /\ request' = [request |-> t.request, action |-> t.action, valid |-> TRUE]
          /\ late' = (late \/ t.action \notin {NoAction, page.made})
          /\ tasks' = others \cup {u} /\ UNCHANGED sample
      BY <1>3 DEF TaskWrites
    <2>2. /\ u \in TaskRec /\ u.request = t.request /\ u.action = t.action /\ u.main = t.main
          /\ u.cancelled = t.cancelled /\ u.got = t.got /\ u.step = "read"
      BY <1>a
    <2>3. \A v \in others :
            /\ v \in TaskRec /\ v.stale
            /\ \E w \in tasks \ {t} :
                 v.request = w.request /\ v.action = w.action /\ v.main = w.main
                 /\ v.step = w.step /\ v.cancelled = w.cancelled /\ v.got = w.got
                 /\ v = [w EXCEPT !.stale = TRUE]
      BY <1>0, StaleTasks
    <2>a. \A a, b \in tasks' : a.main /\ b.main => a = b
      BY <2>1, <2>2, OneMain
    <2>4. /\ request' \in RequestRec /\ request'.request = t.request /\ request'.action = t.action
      BY <1>0, <2>1 DEF RequestRec, TaskRec
    <2> HIDE DEF u, others
    <2>5. PageTyped'
      BY <2>1, <2>2, <2>3, <2>4 DEF PageInv, PageTyped
    <2>6. Sessions'
      BY <2>1, <2>2, <2>3, <2>4, <2>a DEF PageInv, Sessions
    <2>7. AnswersAreOwn' /\ RevokersHaveRead'
      BY <2>1, <2>2, <2>3 DEF PageInv, AnswersAreOwn, RevokersHaveRead
    <2>8. EndedAreRevoked'
      <3> SUFFICES ASSUME NEW r \in Nat, Ended(r)'
                   PROVE  /\ \A v \in tasks' : v.request = r => v.cancelled
                          /\ t.request = r => \E v \in tasks' : v.request = r /\ WillRevoke(v)
        BY <2>4 DEF EndedAreRevoked, WillRevoke
      <3>1. Ended(r)
        BY <2>1, <2>2, <2>3 DEF Ended
      <3>2. \A v \in tasks : v.request = r => v.cancelled
        BY <3>1 DEF PageInv, EndedAreRevoked
      <3> QED
        BY <2>1, <2>2, <2>3, <3>2 DEF WillRevoke
    <2>9. Confirmed'
      BY <2>1, <2>2, <2>3, <2>4 DEF PageInv, Confirmed
    <2>10. InOrder'
      BY <1>0, <2>1, <2>4 DEF PageInv, InOrder, Confirmed
    <2> QED
      BY <2>5, <2>6, <2>7, <2>8, <2>9, <2>10 DEF PageInv
  <1>4. CASE TaskReads(t)
    <2> DEFINE found == IF sample # Nothing /\ sample.fresh /\ sample.request = t.request
                          THEN sample ELSE Nothing
    <2>1. found \in Answers /\ (found # Nothing => found.request = t.request)
      BY <1>0 DEF PageInv, PageTyped
    <2>2. Got(t, found) /\ t.step = "read" /\ UNCHANGED <<sharedVars, late>>
      BY <1>4 DEF TaskReads
    <2> HIDE DEF found
    <2> QED
      BY <2>1, <2>2, GotInv
  <1>5. CASE Revokes(t) /\ Unchanged(t)
    <2> DEFINE u == [t EXCEPT !.step = "finished"]
               others == {[v EXCEPT !.stale = TRUE] : v \in tasks \ {t}}
    <2>1. request' = Nothing /\ tasks' = others \cup {u} /\ UNCHANGED <<sample, late>>
      BY <1>5 DEF Revokes
    <2>2. /\ u \in TaskRec /\ u.request = t.request /\ u.action = t.action /\ u.main = t.main
          /\ u.cancelled = t.cancelled /\ u.got = t.got /\ u.step = "finished"
      BY <1>a
    <2>3. \A v \in others :
            /\ v \in TaskRec /\ v.stale
            /\ \E w \in tasks \ {t} :
                 v.request = w.request /\ v.action = w.action /\ v.main = w.main
                 /\ v.step = w.step /\ v.cancelled = w.cancelled /\ v.got = w.got
                 /\ v = [w EXCEPT !.stale = TRUE]
      BY <1>0, StaleTasks
    <2>a. \A a, b \in tasks' : a.main /\ b.main => a = b
      BY <2>1, <2>2, OneMain
    <2> HIDE DEF u, others
    <2>4. PageTyped'
      BY <2>1, <2>2, <2>3 DEF PageInv, PageTyped
    <2>5. Sessions'
      BY <2>1, <2>2, <2>3, <2>a DEF PageInv, Sessions
    <2>6. AnswersAreOwn' /\ RevokersHaveRead'
      BY <2>1, <2>2, <2>3 DEF PageInv, AnswersAreOwn, RevokersHaveRead
    <2>7. EndedAreRevoked'
      <3> SUFFICES ASSUME NEW r \in Nat, Ended(r)'
                   PROVE  \A v \in tasks' : v.request = r => v.cancelled
        BY <2>1 DEF EndedAreRevoked
      <3>1. Ended(r)
        BY <2>1, <2>2, <2>3 DEF Ended
      <3> QED
        BY <2>1, <2>2, <2>3, <3>1 DEF PageInv, EndedAreRevoked
    <2>8. Confirmed' /\ InOrder'
      BY <2>1, <2>2, <2>3 DEF PageInv, Confirmed, InOrder
    <2> QED
      BY <2>4, <2>5, <2>6, <2>7, <2>8 DEF PageInv
  <1>6. CASE Revokes(t) /\ ~Unchanged(t)
    <2>1. /\ tasks' = (tasks \ {t}) \cup {[t EXCEPT !.step = "finished"]} /\ ~WillRevoke(t)
          /\ UNCHANGED <<sharedVars, late>>
      BY <1>6 DEF Revokes, Goes, WillRevoke, Unchanged
    <2> QED
      BY <1>a, <1>b, <2>1, Went
  <1> QED
    BY <1>1, <1>2, <1>3, <1>4, <1>5, <1>6 DEF TaskStep

-----------------------------------------------------------------------------
(* The bridge and time.                                                    *)

LEMMA BridgeSamplesInv ==
  ASSUME PageInv, BridgeSamples, UNCHANGED <<pageVars, tasks, events>>, UNCHANGED selected
  PROVE  PageInv'
  <1> USE DEF pageVars
  <1>0. /\ request \in RequestRec /\ bridge \in Asked /\ done \in [Actions -> Nat]
        /\ request # Nothing
    BY DEF PageInv, PageTyped, BridgeSamples
  <1>1. /\ bridge' = IF IsNew(request.action) THEN request.action ELSE bridge
        /\ done' = IF IsNew(request.action)
                     THEN [done EXCEPT ![request.action] = @ + 1] ELSE done
        /\ sample' = [request |-> request.request, action |-> bridge', fresh |-> TRUE]
        /\ UNCHANGED <<request, late>>
    BY DEF BridgeSamples
  <1>2. IsNew(request.action) => request.action \in Actions
    BY <1>0 DEF IsNew, RequestRec, Asked, Actions, NoAction
  <1>3. bridge' \in Asked /\ done' \in [Actions -> Nat]
    BY <1>0, <1>1, <1>2 DEF RequestRec
  <1>4. PageTyped'
    BY <1>0, <1>1, <1>3 DEF PageInv, PageTyped, Answers, RequestRec
  <1>5. Sessions' /\ AnswersAreOwn' /\ RevokersHaveRead' /\ EndedAreRevoked'
    BY <1>1
       DEF PageInv, Sessions, AnswersAreOwn, RevokersHaveRead, EndedAreRevoked, Ended, WillRevoke
  <1>6. Confirmed'
    BY <1>0, <1>1 DEF PageInv, Confirmed
  <1>7. InOrder'
    <2> SUFFICES ASSUME ~late
                 PROVE  /\ \A a \in Actions : done'[a] <= 1 /\ (done'[a] = 1 => a <= bridge')
                        /\ request.action = NoAction \/ bridge' <= request.action
      BY <1>1 DEF InOrder
    <2>1. /\ \A a \in Actions : done[a] <= 1 /\ (done[a] = 1 => a <= bridge)
          /\ request.action = NoAction \/ bridge <= request.action
      BY <1>0 DEF PageInv, InOrder
    <2>2. CASE ~IsNew(request.action)
      BY <1>1, <2>1, <2>2
    <2>3. CASE IsNew(request.action)
      <3> DEFINE a == request.action
      <3>1. a \in Actions /\ bridge < a /\ bridge' = a
        BY <1>0, <1>1, <1>2, <2>1, <2>3 DEF IsNew, RequestRec, Asked
      <3>2. done[a] = 0
        BY <1>0, <2>1, <3>1 DEF Actions, Asked
      <3>3. \A b \in Actions : done'[b] = IF b = a THEN 1 ELSE done[b]
        BY <1>0, <1>1, <2>3, <3>1, <3>2
      <3> QED
        BY <1>0, <2>1, <3>1, <3>3 DEF Actions, Asked
    <2> QED
      BY <2>2, <2>3
  <1> QED
    BY <1>4, <1>5, <1>6, <1>7 DEF PageInv

LEMMA AgesInv ==
  ASSUME PageInv, Ages, UNCHANGED <<selected, page, busy, revoked, tasks, loadVars, events>>
  PROVE  PageInv'
  <1> USE DEF loadVars
  <1>0. request \in {Nothing} \cup RequestRec /\ live \in Answers /\ sample \in Answers
    BY DEF PageInv, PageTyped
  <1>1. /\ request' \in {Nothing} \cup RequestRec
        /\ request # Nothing <=> request' # Nothing
        /\ request # Nothing => request' # Nothing
        /\ request'.request = request.request
        /\ request # Nothing => request'.action = request.action
    BY <1>0 DEF Ages, RequestRec, Nothing
  <1>2. live' \in Answers /\ (live' # Nothing => live # Nothing /\ live'.request = live.request)
    BY <1>0 DEF Ages, Answers, Nothing
  <1>3. sample' \in Answers
    BY <1>0 DEF Ages, Answers, Nothing
  <1>4. PageTyped'
    BY <1>1, <1>2, <1>3 DEF PageInv, PageTyped
  <1>5. Sessions' /\ AnswersAreOwn' /\ RevokersHaveRead'
    BY <1>1, <1>2 DEF PageInv, Sessions, AnswersAreOwn, RevokersHaveRead
  <1>6. EndedAreRevoked'
    BY <1>1 DEF PageInv, EndedAreRevoked, Ended, WillRevoke
  <1>7. Confirmed' /\ InOrder'
    BY <1>1 DEF PageInv, Confirmed, InOrder
  <1> QED
    BY <1>4, <1>5, <1>6, <1>7 DEF PageInv

LEMMA LoadsInv ==
  ASSUME PageInv, Loads, UNCHANGED <<pageVars, tasks, sharedVars, events>>
  PROVE  PageInv'
  <1> USE DEF pageVars, sharedVars
  <1>1. bridge' = 0 /\ late' = FALSE /\ done' \in [Actions -> Nat] /\ \A a \in Actions : done'[a] = 0
    BY DEF Loads, NoAction, None
  <1>a. bridge' \in Asked
    BY <1>1 DEF Asked
  <1>2. PageTyped'
    <2>1. late' \in BOOLEAN
      BY <1>1, Zenon
    <2> QED
      BY <1>1, <1>a, <2>1 DEF PageInv, PageTyped
  <1>3. Sessions' /\ AnswersAreOwn' /\ RevokersHaveRead' /\ EndedAreRevoked'
    BY DEF PageInv, Sessions, AnswersAreOwn, RevokersHaveRead, EndedAreRevoked, Ended, WillRevoke
  <1>4. Confirmed' /\ InOrder'
    BY <1>1 DEF PageInv, PageTyped, Confirmed, InOrder, PageRec, RequestRec, Asked, NoAction
  <1> QED
    BY <1>2, <1>3, <1>4 DEF PageInv

-----------------------------------------------------------------------------
(* Steps of the whole.                                                     *)

IInv ==
  /\ BridgeTypeOK /\ (proc.starting => proc.last < MaxPid) /\ BridgeInv
  /\ PageInv

LEMMA IInvImplies ==
  IInv => TypeOK /\ EndedSessionsLeaveNothing /\ ActionsHappenOnce /\ BridgeFollowsSwitch
  <1> SUFFICES ASSUME IInv
               PROVE  TypeOK /\ EndedSessionsLeaveNothing /\ ActionsHappenOnce /\ BridgeFollowsSwitch
    OBVIOUS
  <1>1. TypeOK
    BY DEF IInv, PageInv, PageTyped, TypeOK, TaskRec, PageRec, RequestRec
  <1>2. ActionsHappenOnce
    BY DEF IInv, PageInv, InOrder, ActionsHappenOnce
  <1>3. ASSUME NEW r \in revoked, \A t \in tasks : t.request # r
        PROVE  request.request # r
    <2>1. r \in Nat /\ Ended(r) /\ r # 0
      BY DEF IInv, PageInv, PageTyped, Ended
    <2>2. ~(request # Nothing /\ request.request = r)
      BY <1>3, <2>1 DEF IInv, PageInv, EndedAreRevoked
    <2> QED
      BY <2>1, <2>2 DEF Nothing
  <1> QED
    BY <1>1, <1>2, <1>3, BridgeInvImplies DEF EndedSessionsLeaveNothing, IInv, PageInv, AnswersAreOwn

LEMMA InitIInv == Init => IInv
  <1> SUFFICES ASSUME Init PROVE IInv
    OBVIOUS
  <1>1. /\ proc \in Processes /\ ~proc.starting
        /\ control \in Controls /\ cmds \in Seq(Commands) /\ replies \in Seq(Replies)
    BY DEF Init, BridgeInit, NoProcess, Processes, Controls
  <1>2. BridgeTypeOK
    BY <1>1 DEF Init, BridgeInit, BridgeTypeOK, Processes, Controls, Commands, Replies
  <1>3. BridgeInv
    BY <1>1 DEF Init, BridgeInit, NoProcess, BridgeInv, Processing, Pipeline, NoneUnderWay, Tracking,
       Running
  <1> QED
    BY <1>1, <1>2, <1>3, InitPageInv DEF IInv

\* The switch of the minimap, seen from the bridge.
LEMMA SwitchTyped ==
  ASSUME BridgeTypeOK, NEW switch \in BOOLEAN, on' = switch, SetEnabled(switch, proc),
         UNCHANGED <<proc, job, replies, host>>
  PROVE  BridgeTypeOK'
  <1>1. proc \in Processes
    BY DEF BridgeTypeOK, Processes
  <1> QED
    BY <1>1, SetEnabledTyped DEF BridgeTypeOK, Processes, Controls, Commands

LEMMA NextIInv == IInv /\ [Next]_vars => IInv'
  <1> SUFFICES ASSUME IInv, [Next]_vars PROVE IInv'
    OBVIOUS
  <1> DEFINE BridgeTyped == BridgeTypeOK /\ (proc.starting => proc.last < MaxPid) /\ BridgeInv
             BridgeKept == UNCHANGED bridgeVars
             StoreKept == UNCHANGED <<pageVars, tasks, sharedVars, loadVars>>
  <1>0. PageInv /\ BridgeTyped /\ selected \in BOOLEAN /\ events \in 0 .. MaxEvents
    BY DEF IInv, PageInv, PageTyped
  <1>1. BridgeKept => BridgeTyped'
    BY <1>0 DEF bridgeVars, BridgeTypeOK, BridgeInv, Processing, Pipeline, NoneUnderWay, OneUnderWay,
       Tracking, HostHas, HasIn, Up, Running
  <1>2. (BridgeIdle /\ BridgeMainStep) \/ ProcessStarts \/ BridgeOtherStep => BridgeTyped'
    BY <1>0, BridgeStepTyped, BridgeStepKeepsBridge
  <1>a. Idle => BridgeIdle
    BY DEF Idle
  <1>3. StoreKept /\ events' \in 0 .. MaxEvents => PageInv'
    BY <1>0, PageKept DEF pageVars
  <1>4. CASE UNCHANGED vars
    BY <1>0, <1>1, <1>3, <1>4 DEF vars, IInv
  <1>5. CASE User
    <2>1. Idle /\ events' \in 0 .. MaxEvents
      BY <1>0, <1>5 DEF User
    <2>2. CASE ActionConfirmed
      BY <1>0, <1>1, <2>1, <2>2, ActionInv DEF ActionConfirmed, IInv
    <2>3. CASE Select
      BY <1>0, <1>1, <2>1, <2>3, PageKept DEF Select, IInv
    <2>4. CASE SwitchOn
      <3>1. BridgeTyped'
        BY <1>0, <2>4, SwitchTyped, SwitchKeepsBridge DEF SwitchOn
      <3> QED
        BY <1>3, <2>1, <2>4, <3>1 DEF SwitchOn, IInv
    <2>5. CASE SwitchOff
      BY <1>0, <1>1, <2>1, <2>5, SwitchOffInv DEF SwitchOff, IInv
    <2>6. CASE (PrepareStart \/ StopRequested \/ JobStarts) /\ StoreKept
      BY <1>2, <1>3, <1>a, <2>1, <2>6 DEF BridgeMainStep, IInv
    <2> QED
      BY <1>5, <2>2, <2>3, <2>4, <2>5, <2>6 DEF User
  <1>6. CASE MainLoop
    <2>1. Idle /\ UNCHANGED events /\ events' \in 0 .. MaxEvents
      BY <1>0, <1>6 DEF MainLoop
    <2>2. CASE NewSession
      BY <1>0, <1>1, <2>1, <2>2, NewSessionInv DEF NewSession, IInv
    <2>3. CASE Poll
      BY <1>0, <1>1, <2>1, <2>3, PollInv DEF Poll, IInv
    <2>4. CASE ActionGivenUp
      BY <1>0, <1>1, <2>1, <2>4, ActionInv DEF ActionGivenUp, IInv
    <2>5. CASE \E t \in tasks : TaskFinished(t)
      BY <1>0, <1>1, <2>1, <2>5, TaskFinishedInv DEF TaskFinished, IInv
    <2>6. CASE (BridgeFeedback \/ BridgeTimedOut \/ JobEnds \/ ProcessExits) /\ StoreKept
      BY <1>2, <1>3, <1>a, <2>1, <2>6 DEF BridgeMainStep, IInv
    <2> QED
      BY <1>6, <2>2, <2>3, <2>4, <2>5, <2>6 DEF MainLoop
  <1>7. CASE Others
    <2>1. UNCHANGED events /\ events' \in 0 .. MaxEvents
      BY <1>0, <1>7 DEF Others
    <2>2. CASE (ProcessStarts \/ JobInstalls) /\ StoreKept
      <3>1. BridgeTyped'
        BY <1>2, <2>2 DEF BridgeOtherStep
      <3> QED
        BY <1>3, <2>1, <2>2, <3>1 DEF IInv
    <2>3. CASE \E t \in tasks : SwitchedOff(t)
      <3>1. PICK t \in tasks : SwitchedOff(t)
        BY <2>3
      <3>2. BridgeTyped'
        BY <1>0, <3>1, SwitchTyped, SwitchKeepsBridge DEF SwitchedOff
      <3> QED
        BY <1>0, <2>1, <3>1, <3>2, SwitchedOffInv DEF IInv
    <2>4. CASE (\E t \in tasks : TaskStep(t)) /\ UNCHANGED <<bridgeVars, pageVars, bridge, done>>
      <3>1. PICK t \in tasks : TaskStep(t)
        BY <2>4
      <3>2. UNCHANGED <<selected, page, live, busy, revoked, bridge, done, events>> /\ BridgeKept
        BY <2>1, <2>4 DEF pageVars
      <3> QED
        BY <1>0, <1>1, <3>1, <3>2, TaskStepInv DEF IInv
    <2>5. CASE /\ HostLoadsPlugins \/ HostRunsCommand
               /\ Loads \/ UNCHANGED loadVars
               /\ UNCHANGED <<pageVars, tasks, sharedVars>>
      <3>1. BridgeTyped'
        BY <1>2, <2>5 DEF BridgeOtherStep
      <3>2. PageInv'
        BY <1>0, <1>3, <2>1, <2>5, LoadsInv
      <3> QED
        BY <3>1, <3>2 DEF IInv
    <2>6. CASE BridgeSamples /\ UNCHANGED <<bridgeVars, pageVars, tasks>>
      <3>1. UNCHANGED selected
        BY <2>6 DEF pageVars
      <3> QED
        BY <1>0, <1>1, <2>1, <2>6, <3>1, BridgeSamplesInv DEF IInv
    <2>7. CASE Ages /\ UNCHANGED <<bridgeVars, selected, page, busy, revoked, tasks, loadVars>>
      BY <1>0, <1>1, <2>1, <2>7, AgesInv DEF IInv
    <2> QED
      BY <1>7, <2>2, <2>3, <2>4, <2>5, <2>6, <2>7 DEF Others
  <1> QED
    BY <1>4, <1>5, <1>6, <1>7 DEF Next

LEMMA SpecIInv == Spec => []IInv
  BY InitIInv, NextIInv, PTL DEF Spec

\* Only the request a task has read, its own, is taken back.
LEMMA RevocationIsOwn ==
  ASSUME IInv, [Next]_vars, request' = Nothing, request # Nothing
  PROVE  \E t \in tasks : t.request = request.request /\ t.cancelled
  <1>1. ASSUME NEW t \in tasks, TaskStep(t)
        PROVE  t.request = request.request /\ t.cancelled
    <2>1. \A r, a : [request |-> r, action |-> a, valid |-> TRUE] # Nothing
      BY DEF Nothing
    <2>2. Revokes(t) /\ Unchanged(t)
      BY <1>1, <2>1 DEF TaskStep, TaskStarts, TaskWrites, TaskReads, Revokes, Unchanged, sharedVars
    <2> QED
      BY <2>2 DEF Revokes, Unchanged, IInv, PageInv, RevokersHaveRead
  <1>2. ASSUME Ages PROVE FALSE
    BY <1>2 DEF Ages, IInv, PageInv, PageTyped, RequestRec, Nothing
  <1>3. UNCHANGED request \/ Ages \/ \E t \in tasks : TaskStep(t)
    BY DEF Next, User, MainLoop, Others, vars, sharedVars, NewSession, Poll, ActionGivenUp,
       ActionConfirmed, TaskFinished, Select, SwitchOn, SwitchOff, SwitchedOff, BridgeSamples
  <1> QED
    BY <1>1, <1>2, <1>3

-----------------------------------------------------------------------------
(* The theorems.                                                           *)

\* Every variable of the page, its tasks and the bridge keeps its type, for any
\* bounds (window-minimap.c, minimap-bridge-control.c).
THEOREM MinimapTypeCorrect == Spec => []TypeOK
  BY SpecIInv, IInvImplies, PTL

\* Unless a failure has been reported, the plugin manager has the bridge loaded
\* exactly when the minimap is on, however switch, starts, stops and answers
\* follow one another (minimap-bridge-control.c).
THEOREM BridgeIsAsSwitched == Spec => []BridgeFollowsSwitch
  BY SpecIInv, IInvImplies, PTL

\* What is shown answers the page's own request, and a session that the switch
\* has ended leaves no request behind, wherever its threads were (enabled_changed,
\* map_worker, map_finished).
THEOREM SessionsEnd == Spec => []EndedSessionsLeaveNothing
  BY SpecIInv, IInvImplies, PTL

\* A loaded bridge does no action twice, for any number of actions, as long as no
\* thread writes an earlier one late (lib.rs, map_worker).
THEOREM ActionsAreDoneOnce == Spec => []ActionsHappenOnce
  BY SpecIInv, IInvImplies, PTL

\* No request of a later session is taken back (pumpkin_map_stop_request).
THEOREM RevocationsAreOwn == Spec => OnlyOwnRequestIsRevoked
  <1>1. IInv /\ [Next]_vars =>
          [request' = Nothing /\ request # Nothing =>
             \E t \in tasks : t.request = request.request /\ t.cancelled]_vars
    BY RevocationIsOwn
  <1> QED
    BY <1>1, SpecIInv, PTL DEF Spec, OnlyOwnRequestIsRevoked
=============================================================================
