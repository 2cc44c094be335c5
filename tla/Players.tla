------------------------------ MODULE Players -------------------------------
(***************************************************************************)
(* The players of the selected server: what the window learns from the log *)
(* (src/src/window-player-events.c) and from the server's own files, the   *)
(* table it keeps (src/src/window-players.c) and the file of each server   *)
(* it is saved in.  Accounts keep their names here.                        *)
(***************************************************************************)
EXTENDS Selection

CONSTANT Account

VARIABLES
  table,     \* per account: its entries in player_states, for the current server
  deleted,   \* deleted_player_keys: the ids of entries the user deleted
  unsaved,   \* player_state_dirty
  tracking,  \* per server: its player-tracking.ini
  playing,   \* per server: the accounts in the game
  met,       \* history, per server: the accounts it has named
  forgotten  \* history, per server: ids whose deletion has reached the file

playerVars == <<table, deleted, unsaved, tracking, playing, met, forgotten>>
savedVars == <<unsaved, tracking>>

\* An account is known by its name, its UUID or both.
Id == {"name", "uuid"}
PlayerState == [ids : (SUBSET Id) \ {{}}, online : BOOLEAN]
NoIds == [a \in Account |-> {}]

PlayersTypeOK ==
  /\ table \in [Account -> SUBSET PlayerState]
  /\ deleted \in [Account -> SUBSET Id]
  /\ unsaved \in BOOLEAN
  /\ playing \in [Server -> SUBSET Account]

PlayersInit ==
  /\ table = NoIds /\ deleted = NoIds
  /\ unsaved = FALSE
  /\ tracking = [s \in Server |-> [states |-> NoIds, deleted |-> NoIds]]
  /\ playing = [s \in Server |-> {}]
  /\ met = [s \in Server |-> {}]
  /\ forgotten = [s \in Server |-> NoIds]

-----------------------------------------------------------------------------
(* The entries of one account.                                             *)

\* ensure_player_state: the entry with one of ids, which merge_player_states
\* makes one entry where there are two; a new one when create says so; and
\* none for ids that were deleted.
Ensured(states, gone, ids, create) ==
  LET same == {t \in states : t.ids \cap ids # {}}
      all == ids \cup UNION {t.ids : t \in same}
  IN IF ids \cap gone # {} \/ (same = {} /\ ~create) THEN states
     ELSE (states \ same) \cup {[ids |-> all, online |-> \E t \in same : t.online]}

\* player_state_mark_online, player_state_mark_offline
Marked(states, ids, online) ==
  {IF t.ids \cap ids # {} THEN [t EXCEPT !.online = online] ELSE t : t \in states}

\* A line that says the account is in the game: allow_deleted_player_tracking
\* comes before ensure_player_state, so that nothing of ids is left in gone.
Present(states, gone, ids) == Marked(Ensured(states, gone \ ids, ids, TRUE), ids, TRUE)

\* player_states_mark_all_offline
AllOffline == [a \in Account |-> {[t EXCEPT !.online = FALSE] : t \in table[a]}]

-----------------------------------------------------------------------------
(* Saving and loading.                                                     *)

Stored(states, gone) ==
  [states |-> [a \in Account |-> {t.ids : t \in states[a]}], deleted |-> gone]

\* player_states_save, which may fail; then it is tried again.
PlayerStatesSave(s, dirty) ==
  \/ /\ dirty
     /\ tracking' = [tracking EXCEPT ![s] = Stored(table', deleted')]
     /\ unsaved' = FALSE
  \/ UNCHANGED tracking /\ unsaved' = dirty

\* Seeded fault: the deleted ids are not read back.
LoadForgetsDeleted(s) ==
  /\ table' = [a \in Account |-> {[ids |-> i, online |-> FALSE] : i \in tracking'[s].states[a]}]
  /\ deleted' = NoIds

\* player_states_load
PlayerStatesLoad(s) ==
  /\ table' = [a \in Account |-> {[ids |-> i, online |-> FALSE] : i \in tracking'[s].states[a]}]
  /\ deleted' = tracking'[s].deleted

\* What was not saved is saved as the current server is left, if that succeeds.
SavedOnLeaving ==
  \/ /\ unsaved \/ AllOffline # table
     /\ tracking' = [tracking EXCEPT ![current] = Stored(table, deleted)]
  \/ UNCHANGED tracking

\* select_server
PlayersSelected(s) ==
  /\ SavedOnLeaving
  /\ PlayerStatesLoad(s)
  /\ unsaved' = FALSE
  /\ UNCHANGED <<playing, met, forgotten>>

-----------------------------------------------------------------------------
(* Lines of the log.                                                       *)

\* on_log_line hands on the lines of the selected server only.
Heard(s) == s = current

\* s names a in its log, and keeps a in its files from then on.
Named(s, a) == met' = [met EXCEPT ![s] = @ \cup {a}]

\* "... logged in" and "UUID of player ...": not in the game yet.
PlayerConnects(s, a, ids) ==
  /\ process[s] /\ Counted /\ a \notin playing[s]
  /\ Named(s, a)
  /\ IF Heard(s)
     THEN /\ table' = [table EXCEPT ![a] = Ensured(@, deleted[a], ids, TRUE)]
          /\ unsaved' = TRUE
     ELSE UNCHANGED <<table, unsaved>>
  /\ UNCHANGED <<deleted, tracking, playing, forgotten>>

\* What of an account counts as forgotten once it is seen in the game.
SeenAgain(s, a, ids) == [forgotten EXCEPT ![s][a] = @ \ ids]

\* "... joined the game"
PlayerJoins(s, a) ==
  /\ process[s] /\ Counted /\ a \notin playing[s]
  /\ Named(s, a)
  /\ playing' = [playing EXCEPT ![s] = @ \cup {a}]
  /\ IF Heard(s)
     THEN /\ deleted' = [deleted EXCEPT ![a] = @ \ {"name"}]
          /\ table' = [table EXCEPT ![a] = Present(@, deleted[a], {"name"})]
          /\ unsaved' = TRUE
          /\ forgotten' = SeenAgain(s, a, {"name"})
     ELSE UNCHANGED <<deleted, table, unsaved, forgotten>>
  /\ UNCHANGED tracking

\* "... left the game"
PlayerLeaves(s, a) ==
  /\ process[s] /\ a \in playing[s]
  /\ playing' = [playing EXCEPT ![s] = @ \ {a}]
  /\ IF Heard(s)
     THEN /\ table' = [table EXCEPT ![a] = IF "name" \in deleted[a] THEN @
                                           ELSE Marked(@, {"name"}, FALSE)]
          /\ unsaved' = (unsaved \/ table' # table)
     ELSE UNCHANGED <<table, unsaved>>
  /\ UNCHANGED <<deleted, tracking, met, forgotten, events>>

\* The reply to "list uuids", whole or cut off; only a whole one says who has left.
PlayerListReply(s, listed) ==
  /\ process[s] /\ listed \subseteq playing[s] /\ Heard(s)
  /\ deleted' = [a \in Account |-> IF a \in listed THEN {} ELSE deleted[a]]
  /\ table' = [a \in Account |->
                 IF a \in listed THEN Present(table[a], deleted[a], Id)
                 ELSE IF listed = playing[s] THEN AllOffline[a] ELSE table[a]]
  /\ unsaved' = (unsaved \/ listed # {} \/ table' # table)
  /\ forgotten' = [forgotten EXCEPT ![s] = [a \in Account |-> IF a \in listed THEN {} ELSE @[a]]]
  /\ UNCHANGED <<tracking, playing, met, events>>

\* on_server_session_started
SessionStarted(s) ==
  /\ table' = IF s = current THEN AllOffline ELSE table
  /\ unsaved' = (unsaved \/ table' # table)
  /\ UNCHANGED <<deleted, tracking, playing, met, forgotten>>

\* "Server process exited"
PlayersGone(s) ==
  /\ playing' = [playing EXCEPT ![s] = {}]
  /\ IF s = current
     THEN /\ table' = AllOffline /\ UNCHANGED deleted
          /\ PlayerStatesSave(s, unsaved \/ table' # table)
     ELSE UNCHANGED <<table, deleted, savedVars>>
  /\ UNCHANGED <<met, forgotten>>

-----------------------------------------------------------------------------
(* Timers and the user.                                                    *)

\* What the files of s say of accounts: a UUID, or a UUID and the name.
FilesOf(s) == [Account -> {{}, {"uuid"}, Id}]
InFiles(s, files) == \A a \in Account : files[a] # {} => a \in met[s]

\* ingest_players_from_disk, and the lists refresh_player_list reads.
Ingested(states, gone, files) ==
  [a \in Account |-> IF files[a] = {} THEN states[a]
                     ELSE Ensured(states[a], gone[a], files[a], TRUE)]

\* refresh_player_list, with states and gone as they are by then.
Relisted(states, gone, dirty) ==
  \E files \in FilesOf(current) :
    /\ InFiles(current, files)
    /\ table' = Ingested(states, gone, files)
    /\ unsaved' = (dirty \/ table' # states)

PlayerListRefreshed ==
  /\ Relisted(table, deleted, unsaved)
  /\ UNCHANGED <<deleted, tracking, playing, met, forgotten, events>>

\* update_stats_tick saves once in a while; nobody is online at a server at rest.
PlayersFlushed ==
  /\ table' = IF process[current] THEN table ELSE AllOffline
  /\ UNCHANGED <<deleted, playing, met, forgotten, events>>
  /\ PlayerStatesSave(current, unsaved \/ table' # table)

-----------------------------------------------------------------------------
(* The details of a player, and what is done from there.                   *)

OthersStay == UNCHANGED <<selectionVars, viewVars, serverVars, recordVars>>
TableStays == UNCHANGED <<table, deleted, unsaved, tracking, forgotten>>

\* The details, with the server they were opened for.
PlayerOpened(a, t) ==
  /\ OnPage("console") /\ t \in table[a]
  /\ Opens([kind |-> "player", server |-> current, account |-> a, ids |-> t.ids])
  /\ UNCHANGED playerVars /\ OthersStay

DetailsClosed ==
  /\ Answered("player") /\ Closes
  /\ UNCHANGED <<playerVars, events>> /\ OthersStay

\* The details close, and a question takes their place.
Asks(kind) ==
  /\ Answered("player")
  /\ dialogs' = <<[Head(dialogs) EXCEPT !.kind = kind]>> \o Tail(dialogs)
  /\ UNCHANGED <<playerVars, events>> /\ OthersStay

RemovalAsked == Asks("removal")

\* perform_player_action: nothing is done to a player of another server.
StillWanted(d) == d.server = current

\* A reason for a ban, or the address of a pardon.
ReasonAsked == Asks("reason") /\ StillWanted(Head(dialogs)) /\ process[current]

\* Any other command but a kick; the list is read again.
CommandSent ==
  /\ Answered("player") /\ Closes
  /\ StillWanted(Head(dialogs)) /\ process[current]
  /\ Relisted(table, deleted, unsaved)
  /\ UNCHANGED <<deleted, tracking, playing, met, forgotten, events>> /\ OthersStay

\* on_player_ban_reason_confirmed, on_player_pardon_ip_manual_confirmed: it is
\* the server selected by then that is told, and the address a ban has brought
\* to light is to be saved.
ReasonGiven(yes) ==
  /\ Answered("reason") /\ Closes
  /\ IF yes /\ process[current]
     THEN \E dirty \in {unsaved, unsaved \/ table[Head(dialogs).account] # {}} :
            Relisted(table, deleted, dirty) /\ UNCHANGED <<deleted, tracking, forgotten>>
     ELSE TableStays
  /\ UNCHANGED <<playing, met, events>> /\ OthersStay

\* delete_player_tracking saves at once, then the list is refreshed.
PlayerDeleted(d) ==
  LET same == {t \in table[d.account] : t.ids \cap d.ids # {}}
      kept == [table EXCEPT ![d.account] = @ \ same]
      ids == UNION {t.ids : t \in same}
  IN IF same = {} THEN TableStays
     ELSE /\ deleted' = [deleted EXCEPT ![d.account] = @ \cup ids]
          /\ \/ /\ tracking' = [tracking EXCEPT ![current] = Stored(kept, deleted')]
                /\ forgotten' = [forgotten EXCEPT ![current][d.account] = @ \cup ids]
                /\ Relisted(kept, deleted', FALSE)
             \/ UNCHANGED <<tracking, forgotten>> /\ Relisted(kept, deleted', TRUE)

\* on_player_history_removal_confirmed
RemovalAnswered(yes) ==
  /\ Answered("removal") /\ Closes
  /\ IF yes /\ StillWanted(Head(dialogs)) THEN PlayerDeleted(Head(dialogs)) ELSE TableStays
  /\ UNCHANGED <<playing, met, events>> /\ OthersStay

-----------------------------------------------------------------------------
(* The end of the program, and its next start.                             *)

PlayersFresh ==
  /\ PlayerStatesLoad(First)
  /\ unsaved' = FALSE
  /\ playing' = [s \in Server |-> {}]
  /\ UNCHANGED <<met, forgotten>>

PlayersLost == UNCHANGED tracking /\ PlayersFresh

\* pumpkin_window_dispose
PlayersClosed == SavedOnLeaving /\ PlayersFresh
=============================================================================
