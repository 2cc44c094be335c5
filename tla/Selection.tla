------------------------------ MODULE Selection ------------------------------
(***************************************************************************)
(* What the pages of the window share: the server they show, the servers'  *)
(* processes as far as the pages look at them, and the dialogs in front of *)
(* the window (src/src/window.c), and what is stored about each server     *)
(* (src/src/server.c).  Worlds, Domains and Settings add a page each;      *)
(* Application puts them together.                                         *)
(***************************************************************************)
EXTENDS Naturals, Sequences, FiniteSets

CONSTANTS
  Server,
  First,      \* the server at the top of the list
  Value,      \* what a setting may be
  Default,    \* what it is at first
  Domain,     \* what the domain of a server may be, "off" among it
  MaxEvents   \* bound: what the user does, and stops of the machine

ASSUME SelectionAssumption ==
  /\ First \in Server
  /\ Default \in Value
  /\ "off" \in Domain
  /\ MaxEvents \in Nat

VARIABLES
  current,      \* the selected server
  row,          \* the selected row of the list of servers, which is never shown
  view,         \* what the window shows: "overview" or "details"
  shown,        \* the page of the details, "console" for those not modelled
  process,      \* per server: it has a process
  maintenance,  \* per server: who keeps it in maintenance, "worlds" or "other"
  restarting,   \* the window is between the two halves of a restart
  dialogs,      \* the dialogs in front of the window, the top one first
  record,       \* per server: its settings in memory
  file,         \* per server: its settings on disk
  events

selectionVars == <<current, row>>
viewVars == <<view, shown>>
serverVars == <<process, maintenance, restarting>>
recordVars == <<record, file>>
sharedVars == <<selectionVars, viewVars, serverVars, dialogs, recordVars, events>>

\* A setting, with the server it was entered for.
Entry(s, v) == [server |-> s, value |-> v]
Entries(values) == [server : Server, value : values]

\* name stands for the settings a running server takes over at once, port for
\* those it has to be restarted for.
Record == [name : Entries(Value), port : Entries(Value), domain : Entries(Domain)]

\* pumpkin_server_init
Initial(s) == [name |-> Entry(s, Default), port |-> Entry(s, Default), domain |-> Entry(s, "off")]

Page == {"console", "worlds", "settings"}

SharedTypeOK ==
  /\ current \in Server /\ row \in Server
  /\ view \in {"overview", "details"} /\ shown \in Page
  /\ process \in [Server -> BOOLEAN]
  /\ maintenance \in [Server -> {"none", "worlds", "other"}]
  /\ restarting \in BOOLEAN
  /\ record \in [Server -> Record] /\ file \in [Server -> Record]
  /\ events \in 0..MaxEvents

SharedInit ==
  /\ current = First /\ row = First
  /\ view = "overview" /\ shown = "console"
  /\ process = [s \in Server |-> FALSE]
  /\ maintenance = [s \in Server |-> "none"]
  /\ restarting = FALSE
  /\ dialogs = <<>>
  /\ record = [s \in Server |-> Initial(s)]
  /\ file = record
  /\ events = 0

-----------------------------------------------------------------------------
\* What the user does, or the machine suffers; answers to dialogs are not counted.
Counted == events < MaxEvents /\ events' = events + 1

\* A dialog in front of the window keeps the user from what is behind it.
InWindow == dialogs = <<>> /\ Counted
OnPage(page) == InWindow /\ view = "details" /\ shown = page

Opens(dialog) == dialogs' = <<dialog>> \o dialogs

\* The user answers the dialog on top.
Answered(kind) == dialogs # <<>> /\ Head(dialogs).kind = kind
Closes == dialogs' = Tail(dialogs)

-----------------------------------------------------------------------------
(* The processes and the other work on a server, which PumpkinServer,      *)
(* WindowLifecycle and UpdateFlow model in detail.                         *)

\* Seeded fault: maintenance does not keep a server from starting.
MayStartAnyway(s) == ~process[s]

MayStart(s) == ~process[s] /\ maintenance[s] = "none"

\* pumpkin_server_start, by the user, a timer or the program's own start.
ServerStarts(s) ==
  /\ MayStart(s) /\ Counted
  /\ process' = [process EXCEPT ![s] = TRUE]
  /\ UNCHANGED <<selectionVars, viewVars, maintenance, restarting, dialogs, recordVars>>

ServerExits(s) ==
  /\ process[s]
  /\ process' = [process EXCEPT ![s] = FALSE]
  /\ UNCHANGED <<selectionVars, viewVars, maintenance, restarting, dialogs, recordVars, events>>

\* The second half of a restart: the flags of the window are taken back.
RestartEnds ==
  /\ restarting
  /\ restarting' = FALSE
  /\ UNCHANGED <<selectionVars, viewVars, process, maintenance, dialogs, recordVars, events>>

\* pumpkin_server_begin_maintenance
MayMaintain(s) == ~process[s] /\ maintenance[s] = "none"

\* An installation or an update takes the server, and gives it back.
OthersMaintain(s) ==
  /\ \/ /\ MayMaintain(s) /\ Counted
        /\ maintenance' = [maintenance EXCEPT ![s] = "other"]
     \/ /\ maintenance[s] = "other" /\ UNCHANGED events
        /\ maintenance' = [maintenance EXCEPT ![s] = "none"]
  /\ UNCHANGED <<selectionVars, viewVars, process, restarting, dialogs, recordVars>>
=============================================================================
