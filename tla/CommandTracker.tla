--------------------------- MODULE CommandTracker ----------------------------
(***************************************************************************)
(* Console commands, their replies and the tracker that tells them apart:  *)
(* src/src/server-command-tracker.c, the sending half of server.c          *)
(* (send_console_command, send_poll_command) and the consuming half of     *)
(* window.c (on_log_line, on_server_session_started).                      *)
(*                                                                         *)
(* The window polls a running server with "tps" and "list uuids"; the user *)
(* may type the same commands.  The server answers each kind in order, but *)
(* a reply carries nothing that says which command it answers.  A FIFO per *)
(* kind remembers who asked, so that the answers to polls can be kept off  *)
(* the console.  Kinds do not interact, so each has its own pipes here.    *)
(* Commands and replies are represented by the flag "was automatic".       *)
(***************************************************************************)
EXTENDS Naturals, Sequences

CONSTANTS
  Kinds,          \* the tracked commands: "tps" and "list"
  ReplyTimeout,   \* REPLY_TIMEOUT_USEC, in ticks of the model's clock
  MaxPending,     \* MAX_PENDING_REPLIES
  MaxTyped,       \* bound: commands the user types in one session
  MaxPipe         \* bound: unread commands of one kind the pipe can hold

ASSUME TrackerAssumption ==
  /\ ReplyTimeout \in Nat \ {0}
  /\ MaxPending \in Nat \ {0}
  /\ MaxTyped \in Nat
  /\ MaxPipe \in Nat \ {0}

VARIABLES
  open,        \* the server object holds a process
  stopping,    \* and that process was asked to stop
  tracker,     \* per kind, the queue of PendingReply
  pipeIn,      \* per kind, the commands the process has not read
  pipeOut,     \* per kind, the replies the program has not read
  typed,       \* commands typed in this session
  disturbed,   \* this session lost a reply, or outran the queue or the clock
  verdict      \* what on_log_line decided about the last reply

vars == <<open, stopping, tracker, pipeIn, pipeOut, typed, disturbed, verdict>>
sessionVars == <<open, stopping>>

\* A PendingReply; its age stands for now - sent_at, up to the time-out.
Pending == [age : 0 .. ReplyTimeout, automatic : BOOLEAN]

NoVerdict == [automatic |-> FALSE, suppressed |-> FALSE, inSession |-> FALSE]

Empty == [k \in Kinds |-> <<>>]

-----------------------------------------------------------------------------
(* server-command-tracker.c                                                *)

\* Seeded fault: a missing reply blocks polling for good.
ExpiredKeptForever(queue) == 0

\* The expired entries at the head of a queue: how many poll_ready pops.
Expired(queue) ==
  CHOOSE n \in 0 .. Len(queue) :
    /\ \A i \in 1 .. n : queue[i].age >= ReplyTimeout
    /\ n < Len(queue) => queue[n + 1].age < ReplyTimeout

\* pumpkin_command_poll_ready: what is left of the queue.
DropExpired(queue) == SubSeq(queue, Expired(queue) + 1, Len(queue))

\* Seeded fault: new entries go to the head of the queue.
TrackAtHead(queue, automatic) == <<[age |-> 0, automatic |-> automatic]>> \o queue

\* Seeded fault: the limit is not enforced.
TrackUnbounded(queue, automatic) == Append(queue, [age |-> 0, automatic |-> automatic])

\* pumpkin_command_track
Track(queue, automatic) ==
  Append(IF Len(queue) >= MaxPending THEN Tail(queue) ELSE queue,
         [age |-> 0, automatic |-> automatic])

\* pumpkin_command_consume_reply: whether the reply is to a poll.
Consume(queue) == queue # <<>> /\ Head(queue).automatic

Rest(queue) == IF queue = <<>> THEN queue ELSE Tail(queue)

-----------------------------------------------------------------------------
(* Sending.                                                                *)

CanSend == open /\ ~stopping

\* pumpkin_server_send_command: what a user types into the console.
TypeCommand(k) ==
  /\ CanSend
  /\ typed < MaxTyped
  /\ Len(pipeIn[k]) < MaxPipe
  /\ typed' = typed + 1
  /\ pipeIn' = [pipeIn EXCEPT ![k] = Append(@, FALSE)]
  /\ tracker' = [tracker EXCEPT ![k] = Track(@, FALSE)]
  /\ disturbed' = (disturbed \/ Len(tracker[k]) >= MaxPending)
  /\ UNCHANGED <<sessionVars, pipeOut, verdict>>

\* pumpkin_server_send_poll_command, from the statistics timer: expired
\* entries go, and a poll is sent only if nothing of its kind is pending.
Poll(k) ==
  LET queue == DropExpired(tracker[k]) IN
  /\ open
  /\ disturbed' = (disturbed \/ queue # tracker[k])
  /\ IF queue = <<>> /\ ~stopping
       THEN /\ Len(pipeIn[k]) < MaxPipe
            /\ pipeIn' = [pipeIn EXCEPT ![k] = Append(@, TRUE)]
            /\ tracker' = [tracker EXCEPT ![k] = Track(queue, TRUE)]
       ELSE /\ tracker' = [tracker EXCEPT ![k] = queue]
            /\ UNCHANGED pipeIn
  /\ UNCHANGED <<sessionVars, pipeOut, typed, verdict>>

-----------------------------------------------------------------------------
(* The server process and the clock.                                       *)

\* The process reads its oldest command and answers it ...
Answer(k) ==
  /\ open
  /\ pipeIn[k] # <<>>
  /\ Len(pipeOut[k]) < MaxPipe
  /\ pipeIn' = [pipeIn EXCEPT ![k] = Tail(@)]
  /\ pipeOut' = [pipeOut EXCEPT ![k] = Append(@, Head(pipeIn[k]))]
  /\ UNCHANGED <<sessionVars, tracker, typed, disturbed, verdict>>

\* ... or never does: the command is unknown to it, or its reply has a form
\* the program does not recognise.
Ignore(k) ==
  /\ open
  /\ pipeIn[k] # <<>>
  /\ pipeIn' = [pipeIn EXCEPT ![k] = Tail(@)]
  /\ disturbed' = TRUE
  /\ UNCHANGED <<sessionVars, tracker, pipeOut, typed, verdict>>

Older(queue) ==
  [i \in DOMAIN queue |->
     [queue[i] EXCEPT !.age = IF @ < ReplyTimeout THEN @ + 1 ELSE @]]

Tick ==
  /\ \E k \in Kinds : \E i \in DOMAIN tracker[k] : tracker[k][i].age < ReplyTimeout
  /\ tracker' = [k \in Kinds |-> Older(tracker[k])]
  /\ UNCHANGED <<sessionVars, pipeIn, pipeOut, typed, disturbed, verdict>>

-----------------------------------------------------------------------------
(* Receiving.                                                              *)

\* on_log_line for a line recognised as a reply of kind k.  On POSIX lines
\* still arrive after the exit was noticed.
Reply(k) ==
  /\ pipeOut[k] # <<>>
  /\ pipeOut' = [pipeOut EXCEPT ![k] = Tail(@)]
  /\ verdict' = [automatic |-> Head(pipeOut[k]), suppressed |-> Consume(tracker[k]),
                 inSession |-> open]
  /\ tracker' = [tracker EXCEPT ![k] = Rest(@)]
  /\ UNCHANGED <<sessionVars, pipeIn, typed, disturbed>>

\* pumpkin_server_stop: from now on no command is sent.
RequestStop ==
  /\ CanSend
  /\ stopping' = TRUE
  /\ UNCHANGED <<open, tracker, pipeIn, pipeOut, typed, disturbed, verdict>>

\* The exit is noticed; on_log_line drops the tracker on "Server process
\* exited".  What the process had not read is lost.
Exit ==
  /\ open
  /\ open' = FALSE
  /\ stopping' = FALSE
  /\ pipeIn' = Empty
  /\ tracker' = Empty
  /\ UNCHANGED <<pipeOut, typed, disturbed, verdict>>

\* pumpkin_server_start: a new process with pipes of its own and, with
\* on_server_session_started, an empty tracker.  Lines of the earlier one
\* are no longer shown to on_log_line (read_line_cb).
Start ==
  /\ ~open
  /\ open' = TRUE
  /\ stopping' = FALSE
  /\ tracker' = Empty
  /\ pipeOut' = Empty
  /\ typed' = 0
  /\ disturbed' = FALSE
  /\ verdict' = NoVerdict
  /\ UNCHANGED pipeIn

-----------------------------------------------------------------------------
Init ==
  /\ open = FALSE /\ stopping = FALSE
  /\ tracker = Empty /\ pipeIn = Empty /\ pipeOut = Empty
  /\ typed = 0 /\ disturbed = FALSE
  /\ verdict = NoVerdict

Next ==
  \/ Tick
  \/ RequestStop
  \/ Exit
  \/ Start
  \/ \E k \in Kinds : TypeCommand(k) \/ Poll(k) \/ Answer(k) \/ Ignore(k) \/ Reply(k)

\* Timers and pipes are served; the process reads its input.  Whether it
\* answers, and what users do, is not fair.
Fairness ==
  /\ WF_vars(Tick)
  /\ \A k \in Kinds : WF_vars(Poll(k)) /\ WF_vars(Reply(k)) /\ WF_vars(Answer(k) \/ Ignore(k))

Spec == Init /\ [][Next]_vars /\ Fairness

-----------------------------------------------------------------------------
(* Properties.                                                             *)

TypeOK ==
  /\ open \in BOOLEAN /\ stopping \in BOOLEAN
  /\ tracker \in [Kinds -> Seq(Pending)]
  /\ \A k \in Kinds : Len(tracker[k]) <= MaxPending
  /\ pipeIn \in [Kinds -> Seq(BOOLEAN)] /\ pipeOut \in [Kinds -> Seq(BOOLEAN)]
  /\ typed \in 0 .. MaxTyped
  /\ disturbed \in BOOLEAN
  /\ verdict \in [automatic : BOOLEAN, suppressed : BOOLEAN, inSession : BOOLEAN]

\* As long as the session lost no reply, the answer to what a user typed is
\* never taken for the answer to a poll and hidden, whatever the mix of polls
\* and typed commands, and whatever the earlier sessions left behind; and the
\* answer to a poll never reaches the console of the running session.
RepliesReachWhoAsked ==
  ~disturbed =>
    /\ verdict.suppressed => verdict.automatic
    /\ verdict.inSession /\ verdict.automatic => verdict.suppressed

\* "A missing/unsupported response must not disable polling for the session"
\* (server-command-tracker.c:48): in a session that stays up, each kind is
\* polled again and again, whichever replies stay away.
PollingContinues ==
  \A k \in Kinds :
    <>[]CanSend => []<><<Poll(k) /\ pipeIn'[k] # pipeIn[k]>>_vars
=============================================================================
