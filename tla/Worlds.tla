------------------------------- MODULE Worlds -------------------------------
(***************************************************************************)
(* The Worlds page (src/src/window-worlds.c) and the worlds of a server on *)
(* disk (src/src/world-store.c).  The list is read by a thread and shown   *)
(* for the selected server; importing and removing run in a thread that    *)
(* has taken the server into maintenance, whatever is selected by then.    *)
(***************************************************************************)
EXTENDS Selection

CONSTANTS
  World,   \* worlds, as contents
  Name,    \* the name of the folder they are imported from
  Fresh,   \* names with a random suffix, for a name that is taken
  Old      \* the world every server has had from the start

ASSUME WorldsAssumption ==
  /\ Old \in World /\ Name \notin Fresh
  /\ World \cap {"none", "gone"} = {}

VARIABLES
  disk,     \* per server and folder: the world there, if any, and whether whole
  op,       \* per server: the import or removal at work
  expected, \* history, per server and folder: the world the user counts on
  worldList, \* the list of worlds
  scan      \* the thread that reads them; a cancelled one is forgotten, because
            \* its result is of another generation and dropped

worldVars == <<disk, op, expected, worldList, scan>>

Folder == {Name} \cup Fresh
Nothing == [world |-> "none"]
Whole(w) == [world |-> w, whole |-> TRUE]
Part(w) == [world |-> w, whole |-> FALSE]
Idle == [kind |-> "idle"]

\* What pumpkin_world_inventory_load lists: folders that are not hidden.  The
\* copy an import makes is hidden, and takes no part here.
Listed(s) == {f \in Folder : disk[s][f] # Nothing}
Inventory(s) == {[server |-> s, folder |-> f, world |-> disk[s][f].world] : f \in Listed(s)}

NewPage == [rows |-> {}, shown |-> "loading", menu |-> FALSE, pending |-> FALSE, timer |-> FALSE]
NoScan == [read |-> FALSE, found |-> {}]
NewScan(s) == [server |-> s, read |-> FALSE, found |-> {}]

WorldsTypeOK ==
  /\ disk \in [Server -> [Folder -> {Nothing} \cup {Whole(w) : w \in World}
                                              \cup {Part(w) : w \in World}]]
  /\ worldList.shown \in {"loading", "list", "error"}

WorldsInit ==
  /\ disk = [s \in Server |-> [f \in Folder |-> IF f = Name THEN Whole(Old) ELSE Nothing]]
  /\ op = [s \in Server |-> Idle]
  /\ expected = [s \in Server |-> [f \in Folder |-> IF f = Name THEN Old ELSE "none"]]
  /\ worldList = NewPage
  /\ scan = NewScan(First)

-----------------------------------------------------------------------------
(* The list.                                                               *)

\* Whatever is pressed outside an open menu closes it first.
OnWorlds == OnPage("worlds") /\ ~worldList.menu

\* Seeded fault: a list that is not read because of an open menu is forgotten.
RefreshForgotten(s) ==
  IF worldList.menu THEN UNCHANGED <<worldList, scan>>
  ELSE /\ worldList' = [worldList EXCEPT !.rows = {}, !.shown = "loading", !.pending = FALSE]
       /\ scan' = NewScan(s)

\* refresh_world_list, with s selected: an open menu defers it.
RefreshWorldList(s) ==
  IF worldList.menu
  THEN worldList' = [worldList EXCEPT !.pending = TRUE] /\ UNCHANGED scan
  ELSE /\ worldList' = [worldList EXCEPT !.rows = {}, !.shown = "loading", !.pending = FALSE]
       /\ scan' = NewScan(s)

WorldsRefreshed ==
  /\ OnWorlds
  /\ RefreshWorldList(current)
  /\ UNCHANGED <<disk, op, expected, selectionVars, viewVars, serverVars, recordVars, dialogs>>

\* inventory_worker: an import or a removal may be at work meanwhile.
InventoryRead ==
  /\ scan # NoScan /\ ~scan.read
  /\ scan' = [scan EXCEPT !.read = TRUE, !.found = Inventory(scan.server)]
  /\ UNCHANGED <<disk, op, expected, worldList, sharedVars>>

\* inventory_finished; reading may have failed.
InventoryFinished ==
  /\ scan # NoScan /\ scan.read
  /\ scan' = NoScan
  /\ \/ worldList' = [worldList EXCEPT !.rows = scan.found, !.shown = "list"]
     \/ worldList' = [worldList EXCEPT !.shown = "error"]
  /\ UNCHANGED <<disk, op, expected, sharedVars>>

\* The menu of a row.  The timer of an earlier one, of 30 ms, is over by then.
MenuOpened ==
  /\ OnWorlds /\ ~worldList.timer /\ worldList.rows # {}
  /\ worldList' = [worldList EXCEPT !.menu = TRUE]
  /\ UNCHANGED <<disk, op, expected, scan, selectionVars, viewVars, serverVars, recordVars, dialogs>>

\* menu_closed
Closed == [worldList EXCEPT !.menu = FALSE, !.timer = @ \/ worldList.pending]

MenuClosed ==
  /\ worldList.menu
  /\ worldList' = Closed
  /\ UNCHANGED <<disk, op, expected, scan, sharedVars>>

\* refresh_after_menu: waits for a menu that was opened in the meantime.
RefreshAfterMenu ==
  /\ worldList.timer /\ ~worldList.menu
  /\ worldList' = IF worldList.pending
             THEN [worldList EXCEPT !.timer = FALSE, !.pending = FALSE, !.rows = {}, !.shown = "loading"]
             ELSE [worldList EXCEPT !.timer = FALSE]
  /\ scan' = IF worldList.pending THEN NewScan(current) ELSE scan
  /\ UNCHANGED <<disk, op, expected, sharedVars>>

-----------------------------------------------------------------------------
(* Importing and removing.                                                 *)

\* can_modify
CanModify(s) == ~process[s] /\ maintenance[s] = "none" /\ ~restarting

\* start_operation
StartOperation(s, operation) ==
  IF CanModify(s) /\ MayMaintain(s)
  THEN /\ maintenance' = [maintenance EXCEPT ![s] = "worlds"]
       /\ op' = [op EXCEPT ![s] = operation]
  ELSE UNCHANGED <<maintenance, op>>

Import(w) == [kind |-> "import", world |-> w, step |-> "copy"]
Remove(f) == [kind |-> "remove", folder |-> f, step |-> "check"]

\* remove_clicked, in the menu of a row: the dialog keeps server and folder.
RemoveClicked(r) ==
  /\ OnPage("worlds") /\ worldList.menu /\ r \in worldList.rows
  /\ worldList' = Closed
  /\ IF CanModify(r.server) THEN Opens([kind |-> "remove", of |-> r]) ELSE UNCHANGED dialogs
  /\ UNCHANGED <<disk, op, expected, scan, selectionVars, viewVars, serverVars, recordVars>>

\* What the user no longer counts on once he has had row r removed: the world
\* he saw there, and no other.
Without(worlds, r) == IF worlds[r.folder] = r.world THEN [worlds EXCEPT ![r.folder] = "gone"]
                      ELSE worlds

\* remove_confirmed
RemoveConfirmed(yes) ==
  LET r == Head(dialogs).of
  IN /\ Answered("remove")
     /\ Closes
     /\ IF yes /\ CanModify(r.server)
        THEN /\ StartOperation(r.server, Remove(r.folder))
             /\ expected' = [expected EXCEPT ![r.server] = Without(@, r)]
        ELSE UNCHANGED <<maintenance, op, expected>>
     /\ UNCHANGED <<disk, worldList, scan, selectionVars, viewVars, process, restarting, recordVars, events>>

\* import_clicked: the dialog for the folder keeps the server.
ImportClicked ==
  /\ OnWorlds
  /\ IF CanModify(current) THEN Opens([kind |-> "import", server |-> current])
     ELSE UNCHANGED dialogs
  /\ UNCHANGED <<worldVars, selectionVars, viewVars, serverVars, recordVars>>

\* import_selected; w is a recognized world outside the storage.
ImportSelected(w) ==
  /\ Answered("import") /\ Counted
  /\ Closes
  /\ StartOperation(Head(dialogs).server, Import(w))
  /\ UNCHANGED <<disk, expected, worldList, scan, selectionVars, viewVars, process, restarting, recordVars>>

ImportDismissed ==
  /\ Answered("import")
  /\ Closes
  /\ UNCHANGED <<worldVars, selectionVars, viewVars, serverVars, recordVars, events>>

\* worlds_drop
WorldDropped(w) ==
  /\ OnWorlds
  /\ StartOperation(current, Import(w))
  /\ UNCHANGED <<disk, expected, worldList, scan, selectionVars, viewVars, process, restarting, recordVars, dialogs>>

-----------------------------------------------------------------------------
(* The threads.                                                            *)

Step(s, step) == op' = [op EXCEPT ![s].step = step]

\* import_worker: copy_folder fills a hidden folder, or fails; what it has
\* copied is removed again then.
WorldCopied(s) ==
  /\ op[s].kind = "import" /\ op[s].step = "copy"
  /\ \/ Step(s, "move") \/ Step(s, "done")
  /\ UNCHANGED <<disk, expected, worldList, scan, sharedVars>>

\* Seeded fault: the copy takes the place of a world of that name.
TargetTaken(s) == {Name}

\* The folder gets a name of its own when the one it had is taken.
Target(s) == IF disk[s][Name] = Nothing THEN {Name}
             ELSE {f \in Fresh : disk[s][f] = Nothing}

\* The copy is moved to its place, which is one step of the file system.  What
\* the user counts on there he goes on counting on.
WorldMoved(s) ==
  /\ op[s].kind = "import" /\ op[s].step = "move"
  /\ \/ \E f \in Target(s) :
          /\ disk' = [disk EXCEPT ![s][f] = Whole(op[s].world)]
          /\ expected' = [expected EXCEPT ![s][f] = IF @ \in World THEN @ ELSE op[s].world]
     \/ UNCHANGED <<disk, expected>>
  /\ Step(s, "done")
  /\ UNCHANGED <<worldList, scan, sharedVars>>

\* remove_worker: it looks once more whether there is a world to remove, which
\* may fail.  What is left of one counts as long as level.dat is there.
RemovalChecked(s) ==
  /\ op[s].kind = "remove" /\ op[s].step = "check"
  /\ \/ disk[s][op[s].folder] # Nothing /\ Step(s, "delete")
     \/ Step(s, "done")
  /\ UNCHANGED <<disk, expected, worldList, scan, sharedVars>>

\* remove_folder, file by file; it ends at the first error.
WorldDeleted(s) ==
  LET f == op[s].folder
  IN /\ op[s].kind = "remove" /\ op[s].step = "delete"
     /\ \/ disk[s][f].whole /\ disk' = [disk EXCEPT ![s][f].whole = FALSE] /\ UNCHANGED op
        \/ ~disk[s][f].whole /\ disk' = [disk EXCEPT ![s][f] = Nothing] /\ Step(s, "done")
        \/ Step(s, "done") /\ UNCHANGED disk
     /\ UNCHANGED <<expected, worldList, scan, sharedVars>>

\* operation_finished
OperationFinished(s) ==
  /\ op[s] # Idle /\ op[s].step = "done"
  /\ op' = [op EXCEPT ![s] = Idle]
  /\ maintenance' = [maintenance EXCEPT ![s] = "none"]
  /\ IF current = s THEN RefreshWorldList(s) ELSE UNCHANGED <<worldList, scan>>
  /\ UNCHANGED <<disk, expected, selectionVars, viewVars, process, restarting, recordVars, dialogs, events>>

\* The program ends without warning: disk and history are what is left.
WorldsLost ==
  /\ op' = [s \in Server |-> Idle]
  /\ worldList' = NewPage
  /\ scan' = NewScan(First)
  /\ UNCHANGED <<disk, expected>>
=============================================================================
