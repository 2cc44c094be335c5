------------------------------- MODULE Plugins -------------------------------
(***************************************************************************)
(* The plugins of a server: their files, the lockfile that the program     *)
(* shares with ppm, and installation from the Marketplace                  *)
(* (src/src/plugin-store.c, src/src/window.c).                             *)
(*                                                                         *)
(* A file is a base name and whether it carries the suffix ".deactivated". *)
(* The main loop runs one callback at a time, but ppm is another process:  *)
(* "op" is a callback that has read the lockfile and has yet to write it.  *)
(* What else a callback does to files is taken as one step with the read   *)
(* before or the write after it.                                           *)
(***************************************************************************)
EXTENDS Marketplace

CONSTANTS
  Plugin,      \* Marketplace plugins
  OtherName,   \* base names of plugin files, beside each plugin's own
  NoPlugin,
  MaxEvents    \* bound: what users and ppm do

ASSUME PluginsAssumption ==
  /\ NoPlugin \notin Plugin \cup OtherName /\ Plugin \cap OtherName = {}
  /\ MaxEvents \in Nat

VARIABLES
  files,     \* the plugin files of the directory
  sidecar,   \* per base name, the plugin its ".marketplace" file names
  lock,      \* the lockfile
  install,   \* the MarketInstallContext and marketplace_install_in_flight
  op,        \* a callback between reading and writing the lockfile
  events

fileVars == <<files, sidecar, lock>>
vars == <<marketVars, fileVars, install, op, events>>

\* A plugin also stands for the name the program gives it, "market-<id>.wasm".
Name == Plugin \cup OtherName
Files == [name : Name, on : BOOLEAN]
NoFile == [name |-> NoPlugin, on |-> FALSE]
NoEntries == [p \in Plugin |-> NoFile]
Locks == [state : {"absent", "valid", "unsupported"}, entry : [Plugin -> Files \cup {NoFile}]]
NoInstall == [plugin |-> NoPlugin]
NoOp == [kind |-> "none"]
Idle == op = NoOp
Installing == install # NoInstall

\* The other spelling of a file.
Toggled(f) == [f EXCEPT !.on = ~@]

-----------------------------------------------------------------------------
(* The plugin store.                                                       *)

\* load_lock: anything that is not fully understood is refused.
Readable == lock.state # "unsupported"

\* The entries whose file is f, with or without its suffix (same_file).
EntriesOf(f) == {p \in Plugin : lock.entry[p].name = f.name}

\* lookup_with_lock: the lockfile first, then the sidecar.
Identity(f) ==
  IF EntriesOf(f) # {} THEN CHOOSE p \in EntriesOf(f) : TRUE ELSE sidecar[f.name]

\* pumpkin_plugin_store_find looks at every file of the directory; a file of
\* the old naming scheme needs no metadata.
Found(p) ==
  {f \in files : \/ Identity(f) = p
                 \/ Identity(f) = NoPlugin /\ f.name = p}

\* find_installed_plugin_version_for_market and update_marketplace_install_button:
\* what the button offers.  Whether there is a newer version is left open.
InstallOffered(p) == Readable /\ Cardinality(Found(p)) <= 1 /\ ~Installing

\* marketplace_install_destination: where the plugin is, or its own name if
\* that is free.
Destination(p) ==
  IF Found(p) # {} THEN CHOOSE f \in Found(p) : TRUE
  ELSE [name |-> p, on |-> TRUE]

\* What modify_lock would make of the lockfile it has read, or "refused".
Recorded(p, f) ==
  IF EntriesOf(f) \subseteq {p}
    THEN [state |-> "valid", entry |-> [lock.entry EXCEPT ![p] = f]]
    ELSE [state |-> "refused", entry |-> lock.entry]

WithFile(f, new) ==
  IF Cardinality(EntriesOf(f)) > 1 THEN [lock EXCEPT !.state = "refused"]
  ELSE [lock EXCEPT !.entry = [p \in Plugin |-> IF p \in EntriesOf(f) THEN new ELSE @[p]]]

\* The callback goes on to write "new"; it knows the etag of what it has read
\* unless there was no lockfile.
Begin(kind, file, plugin, new) ==
  op' = [kind |-> kind, file |-> file, plugin |-> plugin, new |-> new,
         tagged |-> lock.state # "absent", stale |-> FALSE]

\* Seeded fault: the write does not pass the etag on.
WriteAnyway == TRUE

\* g_file_replace_contents with the etag of the lockfile as it was read.
WriteSucceeds == ~(op.tagged /\ op.stale)

-----------------------------------------------------------------------------
(* Files of the user.                                                      *)

\* on_plugin_toggle_state: rename the file, then its entry.
Toggle(f) ==
  /\ ~Installing
  /\ f \in files /\ Toggled(f) \notin files
  /\ LET new == WithFile(f, Toggled(f)) IN
     IF ~Readable \/ new.state = "refused" THEN UNCHANGED <<files, op>>
     ELSE /\ files' = (files \ {f}) \cup {Toggled(f)}
          /\ IF lock.state = "absent" \/ EntriesOf(f) = {}
               THEN UNCHANGED op
               ELSE Begin("toggle", f, NoPlugin, new)
  /\ UNCHANGED <<sidecar, lock, install, marketVars>>

\* on_plugin_delete_clicked
DeleteClicked(f) ==
  /\ ~Installing /\ f \in files
  /\ dialog' = [kind |-> "delete", file |-> f]
  /\ UNCHANGED <<fileVars, install, op, pageVars, keyVars>>

\* on_plugin_delete_confirmed: put the file aside, remove its entry, then the
\* file and its sidecar.
DeleteConfirmed ==
  /\ dialog.kind = "delete" /\ dialog' = NoDialog
  /\ LET f == dialog.file
         new == WithFile(f, NoFile)
     IN IF Installing \/ f \notin files \/ ~Readable \/ new.state = "refused"
          THEN UNCHANGED <<fileVars, op>>
          ELSE /\ files' = files \ {f}
               /\ IF lock.state = "absent" \/ EntriesOf(f) = {}
                    THEN sidecar' = [sidecar EXCEPT ![f.name] = NoPlugin] /\ UNCHANGED op
                    ELSE Begin("delete", f, NoPlugin, new) /\ UNCHANGED sidecar
               /\ UNCHANGED lock
  /\ UNCHANGED <<install, pageVars, keyVars>>

\* The file of an installation has another content than when it began.
Touched(f) ==
  IF Installing /\ install.dest = f THEN [install EXCEPT !.changed = TRUE] ELSE install

\* import_plugin_files_to_dir: a new file is copied, an old one is asked about.
Import(n) ==
  LET f == [name |-> n, on |-> TRUE] IN
  /\ IF f \in files
       THEN dialog' = [kind |-> "overwrite", file |-> f] /\ UNCHANGED <<files, install>>
       ELSE files' = files \cup {f} /\ install' = Touched(f) /\ UNCHANGED dialog
  /\ UNCHANGED <<sidecar, lock, op, pageVars, keyVars>>

\* on_plugin_overwrite_confirmed copies without another look.
OverwriteConfirmed ==
  /\ dialog.kind = "overwrite" /\ dialog' = NoDialog
  /\ files' = files \cup {dialog.file}
  /\ install' = Touched(dialog.file)
  /\ UNCHANGED <<sidecar, lock, op, pageVars, keyVars>>

Cancel ==
  /\ dialog # NoDialog /\ dialog' = NoDialog
  /\ UNCHANGED <<fileVars, install, op, pageVars, keyVars>>

-----------------------------------------------------------------------------
(* Installation.                                                           *)

\* on_market_install_clicked: nothing if the destination is somebody else's.
InstallClicked(p) ==
  /\ InstallOffered(p)
  /\ LET f == Destination(p) IN
     IF Found(p) = {} /\ f \in files
       THEN UNCHANGED <<install, requests, loading, wanted, shown, cache>>
       ELSE /\ install' = [plugin |-> p, dest |-> f, seen |-> f \in files, changed |-> FALSE]
            /\ FetchPage(Here)
  /\ UNCHANGED <<fileVars, op, text, page, tab, keyVars, dialog>>

\* The checks of on_market_install_download_done: nobody has changed the file
\* or given the plugin another one.
DestinationUnchanged ==
  /\ ~install.changed /\ (install.seen <=> install.dest \in files)
  /\ Cardinality(Found(install.plugin)) <= 1
  /\ IF Found(install.plugin) = {} THEN install.dest \notin files
                                   ELSE install.dest \in Found(install.plugin)

\* The end of on_market_install_download_done; refresh_marketplace_view
InstallEnds ==
  /\ install' = NoInstall
  /\ FetchPage(Here)
  /\ UNCHANGED <<text, page, tab, keyVars, dialog>>

\* on_market_install_download_done when the download, a check or the
\* replacement of the file has failed.
InstallFails ==
  /\ Installing
  /\ InstallEnds
  /\ UNCHANGED <<fileVars, op>>

\* on_market_install_download_done with a WASM file in its place.
InstallReplaces ==
  /\ Installing /\ Readable /\ DestinationUnchanged /\ RoomFor(1)
  /\ files' = files \cup {install.dest}
  /\ LET new == Recorded(install.plugin, install.dest) IN
     IF new.state = "refused"
       THEN InstallEnds /\ UNCHANGED op
       ELSE /\ Begin("record", install.dest, install.plugin, new)
            /\ UNCHANGED <<install, marketVars>>
  /\ UNCHANGED <<sidecar, lock>>

-----------------------------------------------------------------------------
(* The second half of the callbacks above.                                 *)

\* Seeded fault: a file whose entry could not be changed keeps its new name.
KeepsNewName(f) == files

\* The rollback of on_plugin_toggle_state and on_plugin_delete_confirmed.
RolledBack(f) ==
  IF op.kind = "toggle" THEN (files \ {Toggled(f)}) \cup {f} ELSE files \cup {f}

WriteLock ==
  /\ ~Idle
  /\ op' = NoOp
  /\ IF WriteSucceeds
       THEN /\ lock' = op.new
            /\ sidecar' = CASE op.kind = "record" -> [sidecar EXCEPT ![op.file.name] = op.plugin]
                            [] op.kind = "delete" -> [sidecar EXCEPT ![op.file.name] = NoPlugin]
                            [] OTHER -> sidecar
            /\ UNCHANGED files
       ELSE /\ files' = IF op.kind = "record" THEN files ELSE RolledBack(op.file)
            /\ UNCHANGED <<lock, sidecar>>
  /\ IF op.kind = "record" THEN InstallEnds ELSE UNCHANGED <<install, marketVars>>

-----------------------------------------------------------------------------
(* ppm (external), at any time.                                            *)

Interferes == op' = IF Idle THEN op ELSE [op EXCEPT !.stale = TRUE]

PpmInstalls(p, n) ==
  LET f == [name |-> n, on |-> TRUE] IN
  /\ Readable /\ lock.entry[p] = NoFile
  /\ f \notin files /\ Toggled(f) \notin files /\ EntriesOf(f) = {}
  /\ files' = files \cup {f}
  /\ lock' = [state |-> "valid", entry |-> [lock.entry EXCEPT ![p] = f]]
  /\ install' = Touched(f) /\ Interferes
  /\ UNCHANGED <<sidecar, marketVars>>

PpmUpdates(p) ==
  /\ lock.state = "valid" /\ lock.entry[p] # NoFile
  /\ files' = files \cup {lock.entry[p]}
  /\ install' = Touched(lock.entry[p]) /\ Interferes
  /\ UNCHANGED <<sidecar, lock, marketVars>>

PpmRemoves(p) ==
  /\ lock.state = "valid" /\ lock.entry[p] # NoFile
  /\ files' = files \ {lock.entry[p]}
  /\ lock' = [lock EXCEPT !.entry[p] = NoFile]
  /\ install' = Touched(lock.entry[p]) /\ Interferes
  /\ UNCHANGED <<sidecar, marketVars>>

\* A later version of ppm changes the format.
PpmUpgrades ==
  /\ lock.state = "valid"
  /\ lock' = [lock EXCEPT !.state = "unsupported"]
  /\ Interferes
  /\ UNCHANGED <<files, sidecar, install, marketVars>>

-----------------------------------------------------------------------------
Init ==
  /\ MarketInit
  /\ files = {} /\ sidecar = [n \in Name |-> NoPlugin]
  /\ lock = [state |-> "absent", entry |-> NoEntries]
  /\ install = NoInstall /\ op = NoOp /\ events = 0

\* The installed files are listed on one tab and the catalogue on the other.
FileUser ==
  \/ /\ dialog = NoDialog /\ tab = "installed"
     /\ \/ \E f \in files : Toggle(f) \/ DeleteClicked(f)
        \/ \E n \in Name : Import(n)
  \/ /\ dialog = NoDialog /\ tab = "marketplace"
     /\ \E p \in Plugin : InstallClicked(p)
  \/ DeleteConfirmed \/ OverwriteConfirmed \/ Cancel

Ppm ==
  \/ \E p \in Plugin : PpmUpdates(p) \/ PpmRemoves(p) \/ \E n \in Name : PpmInstalls(p, n)
  \/ PpmUpgrades

\* What users and ppm do, bounded by MaxEvents.
Event ==
  /\ events < MaxEvents /\ events' = events + 1
  /\ \/ Idle /\ FileUser
     \/ Idle /\ MarketUser /\ UNCHANGED <<fileVars, install, op>>
     \/ Ppm

\* What goes on by itself.
Step ==
  /\ UNCHANGED events
  /\ \/ Idle /\ (InstallFails \/ InstallReplaces)
     \/ Idle /\ MarketStep /\ UNCHANGED <<fileVars, install, op>>
     \/ WriteLock

Next == Event \/ Step

\* The main loop dispatches the deadline of a request and ends its callbacks.
Fairness ==
  /\ WF_vars(WriteLock /\ UNCHANGED events)
  /\ \A i \in Requests :
       WF_vars(Idle /\ RequestTimedOut(i) /\ UNCHANGED <<fileVars, install, op, events>>)

Spec == Init /\ [][Next]_vars /\ Fairness

-----------------------------------------------------------------------------
TypeOK ==
  /\ MarketTypeOK
  /\ files \subseteq Files
  /\ sidecar \in [Name -> Plugin \cup {NoPlugin}]
  /\ lock \in Locks
  /\ install \in {NoInstall} \cup
       [plugin : Plugin, dest : Files, seen : BOOLEAN, changed : BOOLEAN]
  /\ op \in {NoOp} \cup [kind : {"toggle", "delete", "record"}, file : Files,
       plugin : Plugin \cup {NoPlugin}, new : Locks, tagged : BOOLEAN, stale : BOOLEAN]
  /\ dialog \in [kind : {"none", "connect", "disconnect"}]
                \cup [kind : {"delete", "overwrite"}, file : Files]
  /\ events \in 0 .. MaxEvents

\* Between callbacks, every entry of the lockfile names a file that is there,
\* under the name it has: also when ppm changed the lockfile at the wrong moment
\* and the renamed or removed file had to be put back.
LockNamesFiles ==
  Idle /\ lock.state = "valid" =>
    \A p \in Plugin : lock.entry[p] # NoFile => lock.entry[p] \in files

\* A write to the lockfile undoes nothing that ppm did after it was read.  The
\* code can only tell when there was a lockfile to read: a first entry written
\* while ppm creates the file replaces what ppm wrote.
ForeignChangesSurvive ==
  [][~Idle /\ Idle' /\ op.tagged /\ op.stale => lock' = lock]_vars

\* The spinner of the catalogue stops: replies and deadlines that come for
\* earlier searches never leave it running.
LoadingEnds == loading ~> ~loading
=============================================================================
