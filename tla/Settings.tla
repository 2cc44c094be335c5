------------------------------ MODULE Settings ------------------------------
(***************************************************************************)
(* The Settings page of the selected server (src/src/window.c): its form,  *)
(* saving, and the questions asked before unsaved changes are left or a    *)
(* running server is restarted.  Selecting a server reloads every page.    *)
(***************************************************************************)
EXTENDS Worlds, Domains, Players

CONSTANTS NoServer, Invalid

ASSUME SettingsAssumption == NoServer \notin Server /\ Invalid \notin Value

VARIABLES
  form,     \* the form: settings of a server, and a switch of the program
  config,   \* that switch, as it is stored
  dirty,    \* settings_dirty
  pending   \* where to go after a question: a server, a page and a view

settingsVars == <<form, config, dirty, pending>>

NoPending == [server |-> NoServer, page |-> "none", view |-> "none"]
Loaded(r, flag) == [name |-> r.name, port |-> r.port, flag |-> flag]

SettingsTypeOK ==
  /\ form \in [name : Entries(Value), port : Entries(Value \cup {Invalid}), flag : BOOLEAN]
  /\ config \in BOOLEAN /\ dirty \in BOOLEAN
  /\ pending \in [server : Server \cup {NoServer}, page : {"none"} \cup Page,
                  view : {"none", "overview"}]

SettingsInit ==
  /\ config = FALSE
  /\ form = Loaded(record[First], FALSE)
  /\ dirty = FALSE
  /\ pending = NoPending

-----------------------------------------------------------------------------
(* Selecting a server.                                                     *)

\* Seeded fault: another server is shown with what was edited for the last one.
UpdateKeepsEdits(s) == UNCHANGED form /\ dirty' = FALSE

\* update_settings_form: switches of the program are left as they are.
UpdateSettingsForm(s) == form' = Loaded(record'[s], form.flag) /\ dirty' = FALSE

\* select_server; on the way to s, others may have been selected.
SelectServer(s) ==
  /\ current' = s
  /\ UpdateSettingsForm(s)
  /\ RefreshWorldList(s) /\ UNCHANGED <<disk, op, expected>>
  /\ UpdateDomainsForm(s) /\ UNCHANGED <<due, inFlight, request, tried>>
  /\ PlayersSelected(s)

PagesStay == UNCHANGED <<selectionVars, form, dirty, worldVars, domainVars, playerVars>>

\* open_overview_server_details: the row of the list stays where it is.
DetailsOpened(s) ==
  /\ InWindow /\ view = "overview"
  /\ view' = "details"
  /\ UNCHANGED <<row, serverVars, dialogs, recordVars, config, shown, pending>>
  /\ SelectServer(s)

\* on_server_selected.  With unsaved changes it goes back to the row of the
\* current server, which loads the form once more, and asks then.
RowSelected(s) ==
  IF dirty /\ shown = "settings" /\ s # current
  THEN /\ pending' = [server |-> s, page |-> "settings", view |-> "none"]
       /\ Opens([kind |-> "leave"])
       /\ row' = current
       /\ SelectServer(current)
  ELSE /\ row' = s
       /\ UNCHANGED <<dialogs, pending>>
       /\ SelectServer(s)

\* pumpkin_window_select_server, from the tray or the command line, whatever
\* is in front of the window.
ServerActivated(s) ==
  /\ Counted
  /\ UNCHANGED <<serverVars, recordVars, config, view, shown>>
  /\ IF row = s /\ current = s THEN PagesStay /\ UNCHANGED <<dialogs, pending>>
     ELSE RowSelected(s)

-----------------------------------------------------------------------------
(* Editing.                                                                *)

\* settings_match_server
Matches(f, r, flag) == f.name = r.name /\ f.port = r.port /\ f.flag = flag

\* validate_settings_limits: Save is offered, and carried out, for such a form only.
Valid(f) == f.port.value # Invalid

\* on_settings_changed, on_settings_switch_changed
Edited(f) ==
  /\ OnPage("settings")
  /\ form' = f
  /\ dirty' = ~Matches(f, record[current], config)
  /\ UNCHANGED <<selectionVars, serverVars, viewVars, dialogs, recordVars, worldVars,
                 domainVars, playerVars, config, pending>>

NameEdited(v) == Edited([form EXCEPT !.name = Entry(current, v)])
PortEdited(v) == Edited([form EXCEPT !.port = Entry(current, v)])
SwitchFlipped == Edited([form EXCEPT !.flag = ~@])

\* on_details_stack_changed and on_details_back ask before changes are left.
Leave(page, otherView) ==
  IF dirty /\ shown = "settings"
  THEN /\ pending' = [pending EXCEPT !.page = page, !.view = otherView]
       /\ Opens([kind |-> "leave"])
       /\ UNCHANGED <<view, shown>>
  ELSE /\ shown' = IF otherView = "none" THEN page ELSE shown
       /\ view' = IF otherView = "none" THEN view ELSE otherView
       /\ UNCHANGED <<pending, dialogs>>

PageChosen(page) ==
  /\ InWindow /\ view = "details" /\ page # shown /\ ~worldList.menu
  /\ Leave(page, "none")
  /\ UNCHANGED <<config, serverVars, recordVars>> /\ PagesStay

BackClicked ==
  /\ InWindow /\ view = "details" /\ ~worldList.menu
  /\ Leave("settings", "overview")
  /\ UNCHANGED <<config, serverVars, recordVars>> /\ PagesStay

-----------------------------------------------------------------------------
(* Saving.                                                                 *)

\* What save_settings_impl stores in memory.
RecordsStored ==
  /\ config' = form.flag
  /\ record' = [record EXCEPT ![current].name = form.name, ![current].port = form.port]

\* It fails when the release channel is refused, or when the file of the server
\* cannot be written; the files of all servers have been written before that.
SaveFails ==
  /\ \/ UNCHANGED <<config, recordVars>>
     \/ RecordsStored /\ file' = record
  /\ UNCHANGED restarting

\* A restart sets the restart flags of the window.
SaveSucceeds(restart) ==
  /\ RecordsStored
  /\ file' = record'
  /\ restarting' = (restarting \/ (restart /\ process[current]))

Lands(s) == row' = s /\ SelectServer(s)
StaysHere == PagesStay /\ UNCHANGED <<view, shown, pending>>

\* complete_pending_settings_navigation, for the pages.
PendingPagesShown ==
  /\ shown' = IF pending.page = "none" THEN shown ELSE pending.page
  /\ view' = IF pending.view = "none" THEN view ELSE pending.view
  /\ pending' = NoPending

\* Once it is saved the list of servers is loaded anew, which selects the first
\* one; a pending navigation goes on from there.
Saved(goOn) ==
  IF goOn
  THEN /\ Lands(IF pending.server = NoServer THEN First ELSE pending.server)
       /\ PendingPagesShown
  ELSE Lands(First) /\ UNCHANGED <<view, shown, pending>>

NotSaved(goOn) ==
  IF goOn /\ ~dirty
  THEN /\ IF pending.server = NoServer THEN PagesStay ELSE Lands(pending.server)
       /\ PendingPagesShown
  ELSE StaysHere

\* save_settings_impl; goOn: it answers a question that was in the way of a
\* navigation.
Save(restart, goOn) ==
  \/ SaveFails /\ NotSaved(goOn)
  \/ SaveSucceeds(restart) /\ Saved(goOn)

\* discard_settings_changes, and the navigation it was in the way of.
Discard ==
  /\ UNCHANGED <<config, restarting, recordVars>>
  /\ IF pending.server = NoServer
     THEN UpdateSettingsForm(current) /\ UNCHANGED <<selectionVars, worldVars, domainVars, playerVars>>
     ELSE Lands(pending.server)
  /\ PendingPagesShown

\* server_settings_require_restart
NeedsRestart == process[current] /\ form.port # record[current].port

\* on_save_settings
SaveClicked ==
  /\ OnPage("settings") /\ dirty /\ Valid(form)
  /\ IF NeedsRestart
     THEN /\ Opens([kind |-> "restart"])
          /\ StaysHere /\ UNCHANGED <<config, restarting, recordVars>>
     ELSE Save(FALSE, FALSE) /\ UNCHANGED dialogs
  /\ UNCHANGED <<process, maintenance>>

\* on_restart_required_save_confirmed: Discard, or Save and Restart.
RestartDiscarded ==
  /\ Answered("restart") /\ Closes
  /\ Discard
  /\ UNCHANGED <<process, maintenance, events>>

RestartSaved ==
  /\ Answered("restart") /\ Closes
  /\ Save(TRUE, TRUE)
  /\ UNCHANGED <<process, maintenance, events>>

\* on_settings_leave_confirmed: Cancel, Discard or Save.  What was pending
\* stays so after Cancel, and while a restart is asked about.
LeaveCancelled ==
  /\ Answered("leave") /\ Closes
  /\ shown' = "settings"
  /\ PagesStay
  /\ UNCHANGED <<config, restarting, recordVars, view, pending, process, maintenance, events>>

LeaveDiscarded ==
  /\ Answered("leave") /\ Closes
  /\ Discard
  /\ UNCHANGED <<process, maintenance, events>>

LeaveSaved ==
  /\ Answered("leave")
  /\ IF ~Valid(form)
     THEN Closes /\ StaysHere /\ UNCHANGED <<config, restarting, recordVars>>
     ELSE IF NeedsRestart
     THEN /\ dialogs' = <<[kind |-> "restart"]>> \o Tail(dialogs)
          /\ StaysHere /\ UNCHANGED <<config, restarting, recordVars>>
     ELSE Closes /\ Save(FALSE, TRUE)
  /\ UNCHANGED <<process, maintenance, events>>

-----------------------------------------------------------------------------
(* The settings of the program, and resetting those of a server.           *)

\* on_save_general_settings, unless the release channel is refused: the files of
\* all servers are written with it, and what was edited for a server stays in
\* the form as if it were saved.
GeneralSaved ==
  /\ OnPage("settings")
  /\ config' = form.flag
  /\ file' = record
  /\ dirty' = FALSE
  /\ UNCHANGED <<selectionVars, serverVars, viewVars, dialogs, record, form, worldVars,
                 domainVars, playerVars, pending>>

ResetClicked ==
  /\ OnPage("settings")
  /\ Opens([kind |-> "reset"])
  /\ PagesStay
  /\ UNCHANGED <<serverVars, viewVars, recordVars, config, pending>>

\* on_reset_server_response: what is reset is the server selected by then, in
\* memory; no file is written.
ResetAnswered(reset) ==
  /\ Answered("reset") /\ Closes
  /\ UNCHANGED <<selectionVars, serverVars, viewVars, file, config, pending, worldVars,
                 playerVars, events>>
  /\ IF reset
     THEN /\ record' = [record EXCEPT ![current] = Initial(current)]
          /\ form' = Loaded(record'[current], form.flag)
          /\ dirty' = ~Matches(form', record'[current], config)
          /\ UpdateDomainsForm(current)
          /\ UNCHANGED <<due, inFlight, request, tried>>
     ELSE UNCHANGED <<record, form, dirty, domainVars>>

\* The program ends without warning, and starts again.
SettingsLost ==
  /\ form' = Loaded(record'[First], config)
  /\ dirty' = FALSE
  /\ pending' = NoPending
  /\ UNCHANGED config
=============================================================================
