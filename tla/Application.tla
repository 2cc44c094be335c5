----------------------------- MODULE Application -----------------------------
(***************************************************************************)
(* The pages of the window at work on several servers: what the user does  *)
(* on one page, the tray that selects another server behind it, threads    *)
(* that end after the selection has changed, servers that start and exit,  *)
(* and a machine that stops.                                               *)
(***************************************************************************)
EXTENDS Settings

vars == <<sharedVars, worldVars, domainVars, playerVars, settingsVars>>

TypeOK == SharedTypeOK /\ WorldsTypeOK /\ DomainsTypeOK /\ PlayersTypeOK /\ SettingsTypeOK

Init == SharedInit /\ WorldsInit /\ DomainsInit /\ PlayersInit /\ SettingsInit

\* The processes end with the program, the next start shows the first server,
\* and what has not reached a file is lost.
ProgramStartsAnew ==
  /\ Counted
  /\ current' = First /\ row' = First
  /\ view' = "overview" /\ shown' = "console"
  /\ process' = [s \in Server |-> FALSE]
  /\ maintenance' = [s \in Server |-> "none"]
  /\ restarting' = FALSE
  /\ dialogs' = <<>>
  /\ record' = file /\ UNCHANGED file
  /\ WorldsLost /\ DomainsLost /\ SettingsLost

MachineStops == ProgramStartsAnew /\ PlayersLost

\* on_window_close_request, unless the window is only hidden, and the quit action,
\* which both stop all servers first.
ProgramCloses == ProgramStartsAnew /\ PlayersClosed

\* pumpkin_app_command_line, which the tray uses too.
CommandLine == ProgramCloses \/ \E s \in Server : ServerActivated(s)

\* What the window learns of a start and of an exit comes with them.
ServerStep ==
  /\ \/ \E s \in Server : \/ ServerStarts(s) /\ SessionStarted(s)
                          \/ ServerExits(s) /\ PlayersGone(s)
     \/ UNCHANGED playerVars /\ (RestartEnds \/ \E s \in Server : OthersMaintain(s))
  /\ UNCHANGED <<worldVars, domainVars, settingsVars>>

WorldsUser ==
  \/ WorldsRefreshed \/ MenuOpened \/ ImportClicked \/ ImportDismissed
  \/ \E r \in worldList.rows : RemoveClicked(r)
  \/ \E yes \in BOOLEAN : RemoveConfirmed(yes)
  \/ \E w \in World : ImportSelected(w) \/ WorldDropped(w)

WorldsThread ==
  \/ MenuClosed \/ RefreshAfterMenu
  \/ InventoryRead \/ InventoryFinished
  \/ \E s \in Server : WorldCopied(s) \/ WorldMoved(s) \/ RemovalChecked(s)
                       \/ WorldDeleted(s) \/ OperationFinished(s)

WorldsStep == (WorldsUser \/ WorldsThread) /\ UNCHANGED <<domainVars, playerVars, settingsVars>>

DomainsUser == SyncNow \/ DomainSaved \/ \E d \in Domain : DomainEntered(d)

DomainsThread ==
  \/ DdnsTick
  \/ \E ok \in BOOLEAN : SyncDone(ok)
  \/ \E s \in Server : IntervalPasses(s)

DomainsStep == (DomainsUser \/ DomainsThread) /\ UNCHANGED <<worldVars, playerVars, settingsVars>>

\* What a server tells of its players, and the timers that look after them.
PlayersTold ==
  \/ \E s \in Server, a \in Account :
       \/ \E ids \in {{"name"}, Id} : PlayerConnects(s, a, ids)
       \/ PlayerJoins(s, a)
       \/ PlayerLeaves(s, a)
  \/ \E s \in Server : \E listed \in SUBSET playing[s] : PlayerListReply(s, listed)
  \/ PlayerListRefreshed
  \/ PlayersFlushed

PlayersUser ==
  \/ \E a \in Account : \E t \in table[a] : PlayerOpened(a, t)
  \/ DetailsClosed \/ RemovalAsked \/ ReasonAsked \/ CommandSent
  \/ \E yes \in BOOLEAN : ReasonGiven(yes) \/ RemovalAnswered(yes)

PlayersStep ==
  /\ \/ PlayersUser
     \/ PlayersTold /\ UNCHANGED <<selectionVars, viewVars, serverVars, recordVars, dialogs>>
  /\ UNCHANGED <<worldVars, domainVars, settingsVars>>

SettingsStep ==
  \/ \E s \in Server : DetailsOpened(s)
  \/ \E v \in Value : NameEdited(v)
  \/ \E v \in Value \cup {Invalid} : PortEdited(v)
  \/ \E page \in Page : PageChosen(page)
  \/ SwitchFlipped \/ BackClicked \/ SaveClicked
  \/ RestartDiscarded \/ RestartSaved
  \/ LeaveCancelled \/ LeaveDiscarded \/ LeaveSaved
  \/ GeneralSaved \/ ResetClicked \/ \E reset \in BOOLEAN : ResetAnswered(reset)

Next ==
  \/ ServerStep \/ WorldsStep \/ DomainsStep \/ PlayersStep \/ SettingsStep
  \/ CommandLine \/ MachineStops

\* Timers fire and threads end; nobody has to do anything.
Fairness ==
  /\ WF_vars(DdnsTick /\ UNCHANGED <<worldVars, playerVars, settingsVars>>)
  /\ WF_vars((\E ok \in BOOLEAN : SyncDone(ok)) /\ UNCHANGED <<worldVars, playerVars, settingsVars>>)
  /\ \A s \in Server : WF_vars(IntervalPasses(s) /\ UNCHANGED <<worldVars, playerVars, settingsVars>>)

Spec == Init /\ [][Next]_vars /\ Fairness

-----------------------------------------------------------------------------
\* No process runs on the worlds that a thread of the Worlds page copies or
\* removes, whatever was selected, started or answered since it was asked for:
\* start_operation takes the server into maintenance, pumpkin_server_start
\* respects that, and remove_confirmed looks again after the dialog.
WorldsAreTouchedAtRest ==
  \A s \in Server : op[s] # Idle => maintenance[s] = "worlds" /\ ~process[s]

\* A world the user counts on is complete in its folder, and nothing is put
\* where nothing was imported to: not after a power failure in the middle of an
\* import, nor when the name is taken by the time the copy is moved
\* (pumpkin_world_import), nor for a removal confirmed for another server.
WorldsAreWhole ==
  \A s \in Server, f \in Folder :
    /\ expected[s][f] \in World => disk[s][f] = Whole(expected[s][f])
    /\ expected[s][f] = "none" => disk[s][f] = Nothing

\* Once no work is left, the Worlds page shows what is on disk of the selected
\* server, and never worlds of two: results of an earlier selection are dropped,
\* and a list put off by an open menu is read when the menu has closed.
ListShowsDisk ==
  /\ \A r, q \in worldList.rows : r.server = q.server
  /\ worldList.shown = "list" /\ ~worldList.pending /\ op[current] = Idle
       => worldList.rows = Inventory(current)

\* What belongs to one server never gets to another, although the tray changes
\* the selection under open forms and dialogs and lines arrive from all of them:
\* what was entered is stored and published for the server it was entered for
\* (save_settings_impl, on_save_domains, ddns_sync_start), and a player is known,
\* saved and shown online only where the server has said so (select_server,
\* on_log_line, player_states_save).
DataStaysWithServer ==
  /\ \A s \in Server :
       /\ \A r \in {record[s], file[s]} :
            r.name.server = s /\ r.port.server = s /\ r.domain.server = s
       /\ \A a \in Account : tracking[s].states[a] # {} => a \in met[s]
  /\ \A r \in request : r.server = r.domain.server
  /\ \A a \in Account : \A t \in table[a] :
       a \in met[current] /\ (t.online => a \in playing[current])

\* Tracked data the user has deleted does not come back from the server's own
\* files, another selection or a restart, until the player is seen in the game
\* again (delete_player_tracking, ensure_player_state, ingest_players_from_disk);
\* and no player has two entries.
DeletedStaysDeleted ==
  \A a \in Account :
    /\ \A t \in table[a] : t.ids \cap forgotten[current][a] = {}
    /\ \A t, u \in table[a] : t # u => t.ids \cap u.ids = {}
    /\ \A s \in Server : \A ids \in tracking[s].states[a] : ids \cap forgotten[s][a] = {}

\* A domain that is saved while a synchronisation of an earlier one is under way,
\* or has failed, is synchronised later: the flag in the way is always taken
\* back, and a server without a result stays due.
SavedDomainIsTried ==
  \A s \in Server :
    []<>(record[s].domain.value = "off" \/ tried[s] = record[s].domain)
=============================================================================
