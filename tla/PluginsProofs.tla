---------------------------- MODULE PluginsProofs ----------------------------
(***************************************************************************)
(* Proofs about Plugins, for any set of plugins, names, keys and searches  *)
(* and any number of events.                                               *)
(***************************************************************************)
EXTENDS Plugins, TLAPS

USE PluginsAssumption

InstallRec == [plugin : Plugin, dest : Files, seen : BOOLEAN, changed : BOOLEAN]
OpRec == [kind : {"toggle", "delete", "record"}, file : Files, plugin : Plugin \cup {NoPlugin},
          new : Locks, tagged : BOOLEAN, stale : BOOLEAN]

Shapes ==
  /\ files \subseteq Files /\ lock \in Locks
  /\ install = NoInstall \/ install \in InstallRec
  /\ op = NoOp \/ op \in OpRec
  /\ dialog.kind = "overwrite" => dialog.file \in Files

\* The entries of a lockfile l name files of fs ...
Names(l, fs) ==
  l.state = "valid" => \A p \in Plugin : l.entry[p] # NoFile => l.entry[p] \in fs

\* ... and no two of them the same one: ppm removing one plugin takes no file
\* from under another's entry.
OneEntryEach(l) ==
  \A p, q \in Plugin : l.entry[p] # NoFile /\ l.entry[p].name = l.entry[q].name => p = q

\* What the files are if the write fails.
Undone == IF op.kind = "record" THEN files ELSE RolledBack(op.file)

\* The callback in the middle of its work is prepared for both outcomes, whatever
\* ppm has done since: what it is going to write names files that are there, if it
\* will be written; and if not, the lockfile fits the files once they are put back.
\* A first lockfile is written even over one that ppm has created meanwhile, but
\* its only entry is for a file that ppm does not know.
Prepared ==
  /\ op.new.state = "valid" /\ OneEntryEach(op.new)
  /\ WriteSucceeds => Names(op.new, files)
  /\ Names(lock, Undone)
  /\ op.kind = "toggle" => Toggled(op.file) \in files
  /\ ~op.tagged => /\ op.file \in files
                   /\ \A p \in Plugin : lock.entry[p] # op.file
                   /\ \A p \in Plugin : op.new.entry[p] \in {NoFile, op.file}

StoreInv ==
  /\ Shapes
  /\ OneEntryEach(lock)
  /\ lock.state = "absent" => \A p \in Plugin : lock.entry[p] = NoFile
  /\ Idle => Names(lock, files)
  /\ ~Idle => Prepared

LEMMA StoreInvImplies == StoreInv => LockNamesFiles
  BY DEF StoreInv, Names, LockNamesFiles

LEMMA InitStoreInv == Init => StoreInv
  <1> SUFFICES ASSUME Init PROVE StoreInv
    OBVIOUS
  <1>1. lock.state = "absent" /\ \A p \in Plugin : lock.entry[p] = NoFile
    BY DEF Init, NoEntries
  <1>2. Shapes
    BY DEF Init, MarketInit, Shapes, Locks, NoEntries, NoDialog
  <1> QED
    BY <1>1, <1>2 DEF Init, StoreInv, OneEntryEach, Names, Idle

-----------------------------------------------------------------------------
(* Files.                                                                  *)

LEMMA NoFileIsNone == NoFile \notin Files /\ \A f \in Files : f.name # NoFile.name
  BY DEF NoFile, Files, Name

LEMMA FileMade ==
  ASSUME NEW n \in Name, NEW b \in BOOLEAN, NEW f, f = [name |-> n, on |-> b]
  PROVE  f \in Files /\ f.name = n /\ f.on = b
  BY DEF Files

LEMMA ToggledIsOther ==
  ASSUME NEW f \in Files
  PROVE  Toggled(f) \in Files /\ Toggled(f) # f /\ Toggled(f).name = f.name
  <1>1. f.name \in Name /\ f.on \in BOOLEAN /\ f = [name |-> f.name, on |-> f.on]
    BY DEF Files
  <1>2. Toggled(f) = [name |-> f.name, on |-> ~f.on]
    BY <1>1 DEF Toggled
  <1>3. (~f.on) \in BOOLEAN
    OBVIOUS
  <1>4. Toggled(f) \in Files /\ Toggled(f).name = f.name /\ Toggled(f).on = ~f.on
    BY <1>1, <1>2, <1>3, FileMade, Zenon
  <1>5. Toggled(f) # f
    BY <1>1, <1>4, Zenon
  <1> QED
    BY <1>4, <1>5

LEMMA NoOpIsNone == NoOp \notin OpRec /\ \A o \in OpRec : o # NoOp
  BY DEF NoOp, OpRec

-----------------------------------------------------------------------------
(* Parts of steps.                                                         *)

\* The store is left alone.
LEMMA Untouched ==
  ASSUME StoreInv, UNCHANGED <<files, lock, op>>, install' = install \/ install' = NoInstall,
         dialog' = dialog \/ dialog'.kind # "overwrite"
  PROVE  StoreInv'
  <1>1. UNCHANGED <<Undone, WriteSucceeds>>
    BY DEF Undone, RolledBack, WriteSucceeds
  <1>2. Prepared => Prepared'
    BY <1>1 DEF Prepared, Names, OneEntryEach
  <1> QED
    BY <1>2 DEF StoreInv, Shapes, Idle, Names, OneEntryEach

\* Files are added between callbacks.
LEMMA Added ==
  ASSUME StoreInv, Idle, NEW f \in Files, files' = files \cup {f}, UNCHANGED <<lock, op>>,
         install' = NoInstall \/ install' \in InstallRec,
         dialog' = dialog \/ dialog'.kind # "overwrite"
  PROVE  StoreInv'
  BY DEF StoreInv, Shapes, Idle, Names, OneEntryEach

LEMMA TouchedIsInstall ==
  ASSUME Shapes, NEW f PROVE Touched(f) = NoInstall \/ Touched(f) \in InstallRec
  BY DEF Shapes, Touched, Installing, InstallRec

\* What Begin makes of a lockfile that was read.
LEMMA Begun ==
  ASSUME StoreInv, Idle, Readable, NEW kind \in {"toggle", "delete", "record"}, NEW f \in Files,
         NEW p \in Plugin \cup {NoPlugin}, NEW new \in Locks, Begin(kind, f, p, new)
  PROVE  /\ op' \in OpRec /\ op'.kind = kind /\ op'.file = f /\ op'.new = new
         /\ (op'.tagged <=> lock.state # "absent") /\ ~op'.stale
  BY DEF Begin, OpRec

\* Changing the entry of one file: no other entry is for it.
LEMMA WithFileChanges ==
  ASSUME StoreInv, NEW f \in Files, NEW g \in Files \cup {NoFile}, g # NoFile => g.name = f.name,
         WithFile(f, g).state # "refused"
  PROVE  /\ WithFile(f, g) \in Locks /\ WithFile(f, g).state = lock.state
         /\ \A p \in Plugin :
              WithFile(f, g).entry[p] = IF p \in EntriesOf(f) THEN g ELSE lock.entry[p]
         /\ OneEntryEach(WithFile(f, g))
  <1> DEFINE l == WithFile(f, g)
             entry == [p \in Plugin |-> IF p \in EntriesOf(f) THEN g ELSE lock.entry[p]]
  <1>1. lock \in Locks /\ f.name # NoFile.name
    BY NoFileIsNone DEF StoreInv, Shapes
  <1>2. l = [lock EXCEPT !.entry = entry]
    <2>1. l = IF Cardinality(EntriesOf(f)) > 1 THEN [lock EXCEPT !.state = "refused"]
                                               ELSE [lock EXCEPT !.entry = entry]
      BY <1>1 DEF WithFile, Locks
    <2>2. [lock EXCEPT !.state = "refused"].state = "refused"
      BY <1>1 DEF Locks
    <2> QED
      BY <2>1, <2>2
  <1>3. l.state = lock.state /\ l.entry = entry
    BY <1>1, <1>2 DEF Locks
  <1>4. l \in Locks
    BY <1>1, <1>2 DEF Locks
  <1>5. OneEntryEach(l)
    BY <1>1, <1>3, NoFileIsNone DEF OneEntryEach, StoreInv, EntriesOf, Locks
  <1> QED
    BY <1>3, <1>4, <1>5

\* A file goes by another spelling, or goes: the other entries keep theirs.
LEMMA OthersStay ==
  ASSUME StoreInv, Idle, lock.state = "valid", NEW f, NEW p \in Plugin, p \notin EntriesOf(f),
         lock.entry[p] # NoFile
  PROVE  lock.entry[p] \in files \ {f}
  BY DEF StoreInv, Names, EntriesOf

-----------------------------------------------------------------------------
(* Files of the user.                                                      *)

LEMMA TogglePrepared ==
  ASSUME StoreInv, Idle, Readable, lock.state # "absent", NEW f \in files, Toggled(f) \notin files,
         files' = (files \ {f}) \cup {Toggled(f)}, UNCHANGED <<lock, install, dialog>>,
         WithFile(f, Toggled(f)).state # "refused",
         Begin("toggle", f, NoPlugin, WithFile(f, Toggled(f)))
  PROVE  StoreInv'
  <1> DEFINE l == WithFile(f, Toggled(f))
  <1>1. f \in Files /\ Toggled(f) \in Files /\ Toggled(f).name = f.name /\ Toggled(f) # f
    BY ToggledIsOther DEF StoreInv, Shapes
  <1>2. lock.state = "valid"
    BY DEF Readable, StoreInv, Shapes, Locks
  <1>3. /\ l \in Locks /\ l.state = "valid" /\ OneEntryEach(l)
        /\ \A p \in Plugin : l.entry[p] = IF p \in EntriesOf(f) THEN Toggled(f) ELSE lock.entry[p]
    BY <1>1, <1>2, WithFileChanges
  <1>4. /\ op' \in OpRec /\ op'.kind = "toggle" /\ op'.file = f /\ op'.new = l
        /\ op'.tagged /\ ~op'.stale
    BY <1>1, <1>3, Begun
  <1> HIDE DEF l
  <1>5. Names(l, files')
    BY <1>2, <1>3, OthersStay DEF Names
  <1>6. Undone' = files
    BY <1>1, <1>4 DEF Undone, RolledBack
  <1>7. Names(lock, files)
    BY DEF StoreInv
  <1>8. Prepared'
    BY <1>3, <1>4, <1>5, <1>6, <1>7 DEF Prepared
  <1> QED
    BY <1>1, <1>4, <1>8, NoOpIsNone DEF StoreInv, Shapes, OneEntryEach, Idle

LEMMA ToggleStep == ASSUME StoreInv, Idle, NEW f \in files, Toggle(f) PROVE StoreInv'
  <1>1. CASE UNCHANGED <<files, op>>
    BY <1>1, Untouched DEF Toggle, marketVars
  <1>2. CASE /\ Readable /\ WithFile(f, Toggled(f)).state # "refused"
             /\ files' = (files \ {f}) \cup {Toggled(f)}
    <2>1. CASE lock.state = "absent" \/ EntriesOf(f) = {}
      <3>1. UNCHANGED <<lock, op, install, dialog>>
        BY <1>2, <2>1 DEF Toggle, marketVars
      <3>2. \A p \in Plugin : p \notin EntriesOf(f) \/ lock.state = "absent"
        BY <2>1
      <3>3. Names(lock, files')
        BY <1>2, <3>2, OthersStay DEF Names
      <3>4. Toggled(f) \in Files
        BY ToggledIsOther DEF StoreInv, Shapes
      <3> QED
        BY <1>2, <3>1, <3>3, <3>4 DEF StoreInv, Shapes, Idle, OneEntryEach, Names
    <2>2. CASE lock.state # "absent" /\ EntriesOf(f) # {}
      BY <1>2, <2>2, TogglePrepared DEF Toggle, marketVars
    <2> QED
      BY <2>1, <2>2
  <1> QED
    BY <1>1, <1>2 DEF Toggle

LEMMA DeletePrepared ==
  ASSUME StoreInv, Idle, Readable, lock.state # "absent", NEW f \in files,
         files' = files \ {f}, UNCHANGED <<lock, install>>, dialog' = NoDialog,
         WithFile(f, NoFile).state # "refused",
         Begin("delete", f, NoPlugin, WithFile(f, NoFile))
  PROVE  StoreInv'
  <1> DEFINE l == WithFile(f, NoFile)
  <1>1. f \in Files
    BY DEF StoreInv, Shapes
  <1>2. lock.state = "valid"
    BY DEF Readable, StoreInv, Shapes, Locks
  <1>3. /\ l \in Locks /\ l.state = "valid" /\ OneEntryEach(l)
        /\ \A p \in Plugin : l.entry[p] = IF p \in EntriesOf(f) THEN NoFile ELSE lock.entry[p]
    BY <1>1, <1>2, WithFileChanges
  <1>4. /\ op' \in OpRec /\ op'.kind = "delete" /\ op'.file = f /\ op'.new = l
        /\ op'.tagged /\ ~op'.stale
    BY <1>1, <1>3, Begun
  <1> HIDE DEF l
  <1>5. Names(l, files')
    BY <1>2, <1>3, OthersStay DEF Names
  <1>6. Undone' = files
    BY <1>4 DEF Undone, RolledBack
  <1>7. Names(lock, files)
    BY DEF StoreInv
  <1>8. Prepared'
    BY <1>3, <1>4, <1>5, <1>6, <1>7 DEF Prepared
  <1> QED
    BY <1>1, <1>4, <1>8, NoOpIsNone DEF StoreInv, Shapes, OneEntryEach, Idle, NoDialog

LEMMA DeleteStep == ASSUME StoreInv, Idle, DeleteConfirmed PROVE StoreInv'
  <1> DEFINE f == dialog.file
  <1>1. dialog' = NoDialog /\ UNCHANGED <<lock, install>>
    BY DEF DeleteConfirmed, fileVars
  <1>2. CASE UNCHANGED <<files, op>>
    BY <1>1, <1>2, Untouched DEF NoDialog
  <1>3. CASE /\ f \in files /\ Readable /\ WithFile(f, NoFile).state # "refused"
             /\ files' = files \ {f}
    <2>1. CASE lock.state = "absent" \/ EntriesOf(f) = {}
      <3>1. UNCHANGED op
        BY <1>3, <2>1 DEF DeleteConfirmed, fileVars
      <3>2. \A p \in Plugin : p \notin EntriesOf(f) \/ lock.state = "absent"
        BY <2>1
      <3>3. Names(lock, files')
        BY <1>3, <3>2, OthersStay DEF Names
      <3> QED
        BY <1>1, <1>3, <3>1, <3>3 DEF StoreInv, Shapes, Idle, OneEntryEach, Names, NoDialog
    <2>2. CASE lock.state # "absent" /\ EntriesOf(f) # {}
      <3>1. Begin("delete", f, NoPlugin, WithFile(f, NoFile))
        BY <1>2, <1>3, <2>2 DEF DeleteConfirmed, fileVars
      <3> QED
        BY <1>1, <1>3, <2>2, <3>1, DeletePrepared
    <2> QED
      BY <2>1, <2>2
  <1> QED
    BY <1>2, <1>3 DEF DeleteConfirmed, fileVars

LEMMA ImportStep == ASSUME StoreInv, Idle, NEW n \in Name, Import(n) PROVE StoreInv'
  <1> DEFINE f == [name |-> n, on |-> TRUE]
  <1>1. f \in Files
    BY DEF Files
  <1>2. CASE f \in files
    <2>1. dialog' = [kind |-> "overwrite", file |-> f] /\ UNCHANGED <<files, lock, op, install>>
      BY <1>2 DEF Import
    <2> QED
      BY <1>1, <2>1 DEF StoreInv, Shapes, Idle, Names, OneEntryEach
  <1>3. CASE f \notin files
    BY <1>1, <1>3, Added, TouchedIsInstall DEF Import, StoreInv
  <1> QED
    BY <1>2, <1>3

LEMMA OverwriteStep == ASSUME StoreInv, Idle, OverwriteConfirmed PROVE StoreInv'
  <1>1. dialog.file \in Files
    BY DEF OverwriteConfirmed, StoreInv, Shapes
  <1> QED
    BY <1>1, Added, TouchedIsInstall DEF OverwriteConfirmed, StoreInv, NoDialog

LEMMA InstallMade ==
  ASSUME NEW p \in Plugin, NEW f \in Files, NEW seen \in BOOLEAN
  PROVE  [plugin |-> p, dest |-> f, seen |-> seen, changed |-> FALSE] \in InstallRec
  BY DEF InstallRec

LEMMA FileUserStep == ASSUME StoreInv, Idle, FileUser PROVE StoreInv'
  <1>1. ASSUME NEW f \in files, DeleteClicked(f) PROVE StoreInv'
    BY <1>1, Untouched DEF DeleteClicked, fileVars
  <1>2. ASSUME NEW p \in Plugin, InstallClicked(p) PROVE StoreInv'
    <2> DEFINE f == Destination(p)
    <2>1. f \in Files
      BY DEF Destination, Found, Files, Name, StoreInv, Shapes
    <2>2. UNCHANGED <<files, lock, op, dialog>>
      BY <1>2 DEF InstallClicked, fileVars
    <2>3. install' = install \/ install' \in InstallRec
      <3>1. \/ install' = install
            \/ install' = [plugin |-> p, dest |-> f, seen |-> f \in files, changed |-> FALSE]
        BY <1>2, Zenon DEF InstallClicked
      <3>2. (f \in files) \in BOOLEAN
        OBVIOUS
      <3> QED
        BY <2>1, <3>1, <3>2, InstallMade, Zenon
    <2> QED
      BY <2>2, <2>3 DEF StoreInv, Shapes, Idle, Names, OneEntryEach
  <1>3. CASE Cancel
    BY <1>3, Untouched DEF Cancel, fileVars, NoDialog
  <1> QED
    BY <1>1, <1>2, <1>3, ToggleStep, DeleteStep, ImportStep, OverwriteStep DEF FileUser

-----------------------------------------------------------------------------
(* Installation.                                                           *)

LEMMA InstallPrepared ==
  ASSUME StoreInv, Idle, Readable, install \in InstallRec, files' = files \cup {install.dest},
         UNCHANGED <<lock, install, dialog>>,
         EntriesOf(install.dest) \subseteq {install.plugin},
         Begin("record", install.dest, install.plugin, Recorded(install.plugin, install.dest))
  PROVE  StoreInv'
  <1> DEFINE f == install.dest
             l == Recorded(install.plugin, f)
  <1>1. f \in Files /\ install.plugin \in Plugin /\ lock \in Locks /\ f # NoFile
    BY NoFileIsNone DEF InstallRec, StoreInv, Shapes
  <1>2. l = [state |-> "valid", entry |-> [lock.entry EXCEPT ![install.plugin] = f]]
    BY DEF Recorded
  <1>3. /\ l \in Locks /\ l.state = "valid"
        /\ \A p \in Plugin : l.entry[p] = IF p = install.plugin THEN f ELSE lock.entry[p]
    BY <1>1, <1>2 DEF Locks
  <1>4. OneEntryEach(l)
    BY <1>1, <1>3, NoFileIsNone DEF OneEntryEach, StoreInv, EntriesOf
  <1>5. /\ op' \in OpRec /\ op'.kind = "record" /\ op'.file = f /\ op'.new = l
        /\ (op'.tagged <=> lock.state # "absent") /\ ~op'.stale
    BY <1>1, <1>3, Begun
  <1> HIDE DEF l
  <1>6. Names(lock, files)
    BY DEF StoreInv
  <1>7. Names(lock', files') /\ Undone' = files'
    BY <1>5, <1>6 DEF Names, Undone
  <1>8. WriteSucceeds' => Names(l, files')
    <2>1. CASE lock.state = "absent"
      BY <1>3, <2>1 DEF StoreInv, Names
    <2>2. CASE lock.state # "absent"
      BY <1>1, <1>3, <1>6, <2>2 DEF Names, Readable, Locks
    <2> QED
      BY <2>1, <2>2
  <1>9. Prepared'
    BY <1>1, <1>3, <1>4, <1>5, <1>7, <1>8 DEF Prepared, StoreInv
  <1> QED
    BY <1>1, <1>5, <1>9, NoOpIsNone DEF StoreInv, Shapes, OneEntryEach, Idle

LEMMA InstallStep == ASSUME StoreInv, Idle, InstallFails \/ InstallReplaces PROVE StoreInv'
  <1>1. CASE InstallFails
    BY <1>1, Untouched DEF InstallFails, InstallEnds, fileVars
  <1>2. CASE InstallReplaces
    <2>1. install \in InstallRec /\ install.dest \in Files
      BY <1>2 DEF InstallReplaces, Installing, StoreInv, Shapes, InstallRec
    <2>2. CASE EntriesOf(install.dest) \subseteq {install.plugin}
      <3>1. Recorded(install.plugin, install.dest).state # "refused"
        BY <2>2 DEF Recorded
      <3> QED
        BY <1>2, <2>1, <2>2, <3>1, InstallPrepared DEF InstallReplaces, marketVars
    <2>3. CASE ~(EntriesOf(install.dest) \subseteq {install.plugin})
      <3>1. Recorded(install.plugin, install.dest).state = "refused"
        BY <2>3 DEF Recorded
      <3> QED
        BY <1>2, <2>1, <3>1, Added DEF InstallReplaces, InstallEnds
    <2> QED
      BY <2>2, <2>3
  <1> QED
    BY <1>1, <1>2

\* Both ends of a callback: the lockfile is written, or the files are put back.
LEMMA WriteStep == ASSUME StoreInv, WriteLock PROVE StoreInv'
  <1>1. Prepared /\ op \in OpRec
    <2>1. ~Idle
      BY DEF WriteLock
    <2> QED
      BY <2>1 DEF StoreInv, Shapes, Idle
  <1>2. op.new \in Locks /\ op.file \in Files
    BY <1>1 DEF OpRec
  <1>3. (install' = install \/ install' = NoInstall) /\ UNCHANGED dialog /\ op' = NoOp
    BY DEF WriteLock, InstallEnds, marketVars
  <1>4. CASE WriteSucceeds
    <2>1. lock' = op.new /\ UNCHANGED files
      BY <1>4 DEF WriteLock
    <2> QED
      BY <1>1, <1>2, <1>3, <1>4, <2>1 DEF StoreInv, Shapes, Prepared, Idle, Names, OneEntryEach
  <1>5. CASE ~WriteSucceeds
    <2>1. UNCHANGED lock /\ files' = Undone
      BY <1>5 DEF WriteLock, Undone
    <2>2. files' \subseteq Files
      BY <1>2, <2>1 DEF StoreInv, Shapes, Undone, RolledBack
    <2> QED
      BY <1>1, <1>3, <2>1, <2>2 DEF StoreInv, Shapes, Prepared, Idle, Names, OneEntryEach
  <1> QED
    BY <1>4, <1>5

-----------------------------------------------------------------------------
(* ppm.                                                                    *)

\* ppm makes the read of a callback stale and touches nothing else of it.
LEMMA Interfered ==
  ASSUME StoreInv, Interferes
  PROVE  \/ Idle /\ Idle' /\ op' = op
         \/ /\ ~Idle /\ ~Idle' /\ op' \in OpRec /\ op'.stale
            /\ op'.kind = op.kind /\ op'.file = op.file /\ op'.new = op.new
            /\ op'.tagged = op.tagged
  <1>1. CASE Idle
    BY <1>1 DEF Interferes, Idle
  <1>2. CASE ~Idle
    <2>1. op \in OpRec /\ op' = [op EXCEPT !.stale = TRUE]
      BY <1>2 DEF Interferes, StoreInv, Shapes, Idle
    <2> QED
      BY <1>2, <2>1, NoOpIsNone DEF OpRec, Idle
  <1> QED
    BY <1>1, <1>2

\* What ppm may do to files and lockfile: entries name files, of which each is
\* another's than before or new, and the file of a callback is not one of them.
LEMMA PpmKeeps ==
  ASSUME StoreInv, Interferes, files' \subseteq Files, lock' \in Locks,
         install' = NoInstall \/ install' \in InstallRec, UNCHANGED dialog,
         OneEntryEach(lock'), lock'.state # "absent",
         Idle => Names(lock', files'),
         ~Idle => /\ Names(lock', Undone')
                  /\ op.kind = "toggle" => Toggled(op.file) \in files'
                  /\ ~op.tagged => /\ op.file \in files'
                                   /\ \A p \in Plugin : lock'.entry[p] # op.file
  PROVE  StoreInv'
  <1>1. CASE Idle
    BY <1>1, Interfered DEF StoreInv, Shapes, Idle, OneEntryEach, Names
  <1>2. CASE ~Idle
    <2>1. /\ ~Idle' /\ op' \in OpRec /\ op'.stale /\ op'.kind = op.kind /\ op'.file = op.file
          /\ op'.new = op.new /\ op'.tagged = op.tagged
      BY <1>2, Interfered
    <2>2. Prepared
      BY <1>2 DEF StoreInv
    <2>3. ~op.tagged => Names(op.new, files')
      BY <1>2, <2>2 DEF Prepared, Names
    <2>4. Prepared'
      BY <1>2, <2>1, <2>2, <2>3 DEF Prepared, WriteSucceeds, OneEntryEach, Names
    <2> QED
      BY <2>1, <2>4 DEF StoreInv, Shapes
  <1> QED
    BY <1>1, <1>2

LEMMA PpmInstallsStep ==
  ASSUME StoreInv, NEW p \in Plugin, NEW n \in Name, PpmInstalls(p, n) PROVE StoreInv'
  <1> DEFINE f == [name |-> n, on |-> TRUE]
  <1>1. f \in Files /\ f # NoFile /\ lock \in Locks
    BY NoFileIsNone DEF Files, StoreInv, Shapes
  <1>2. /\ files' = files \cup {f} /\ f \notin files /\ Toggled(f) \notin files
        /\ lock' = [state |-> "valid", entry |-> [lock.entry EXCEPT ![p] = f]]
        /\ lock.entry[p] = NoFile /\ lock.state # "unsupported" /\ EntriesOf(f) = {}
        /\ install' = Touched(f) /\ Interferes /\ UNCHANGED dialog
    BY DEF PpmInstalls, Readable, marketVars
  <1>3. /\ lock' \in Locks /\ lock'.state = "valid"
        /\ \A q \in Plugin : lock'.entry[q] = IF q = p THEN f ELSE lock.entry[q]
    BY <1>1, <1>2 DEF Locks
  <1>4. OneEntryEach(lock')
    BY <1>1, <1>2, <1>3 DEF OneEntryEach, StoreInv, EntriesOf
  <1>5. ASSUME NEW fs, Names(lock, fs) PROVE Names(lock', fs \cup {f})
    BY <1>1, <1>2, <1>3, <1>5 DEF Names, StoreInv, Locks
  <1>6. CASE Idle
    <2>1. Names(lock', files')
      BY <1>2, <1>5, <1>6 DEF StoreInv
    <2> QED
      BY <1>1, <1>2, <1>3, <1>4, <1>6, <2>1, PpmKeeps, TouchedIsInstall DEF StoreInv, Shapes
  <1>7. CASE ~Idle
    <2>1. Prepared /\ op.file \in Files
      BY <1>7 DEF StoreInv, Shapes, Idle, OpRec
    <2>2. op'.kind = op.kind /\ op'.file = op.file
      BY <1>2, <1>7, Interfered
    <2>3. Undone' = Undone \cup {f}
      BY <1>2, <2>1, <2>2 DEF Undone, RolledBack, Prepared
    <2>4. Names(lock', Undone')
      BY <1>5, <2>1, <2>3 DEF Prepared
    <2>5. ~op.tagged => op.file \in files' /\ \A q \in Plugin : lock'.entry[q] # op.file
      BY <1>2, <1>3, <2>1 DEF Prepared
    <2> QED
      BY <1>1, <1>2, <1>3, <1>4, <1>7, <2>1, <2>4, <2>5, PpmKeeps, TouchedIsInstall
         DEF StoreInv, Shapes, Prepared
  <1> QED
    BY <1>6, <1>7

LEMMA PpmUpdatesStep == ASSUME StoreInv, NEW p \in Plugin, PpmUpdates(p) PROVE StoreInv'
  <1> DEFINE f == lock.entry[p]
  <1>1. /\ files' = files \cup {f} /\ f # NoFile /\ lock.state = "valid"
        /\ install' = Touched(f) /\ Interferes /\ UNCHANGED <<lock, dialog>>
    BY DEF PpmUpdates, marketVars
  <1>2. f \in Files
    BY <1>1 DEF StoreInv, Shapes, Locks
  <1>3. CASE Idle
    <2>1. Names(lock, files')
      BY <1>1, <1>3 DEF StoreInv, Names
    <2> QED
      BY <1>1, <1>2, <1>3, <2>1, PpmKeeps, TouchedIsInstall DEF StoreInv, Shapes
  <1>4. CASE ~Idle
    <2>1. Prepared /\ op.file \in Files
      BY <1>4 DEF StoreInv, Shapes, Idle, OpRec
    <2>2. op'.kind = op.kind /\ op'.file = op.file
      BY <1>1, <1>4, Interfered
    <2>3. Undone \subseteq Undone'
      BY <1>1, <2>2 DEF Undone, RolledBack
    <2>4. Names(lock, Undone')
      BY <2>1, <2>3 DEF Prepared, Names
    <2> QED
      BY <1>1, <1>2, <1>4, <2>1, <2>4, PpmKeeps, TouchedIsInstall DEF StoreInv, Shapes, Prepared
  <1> QED
    BY <1>3, <1>4

\* The file that is removed is under no other entry, and not the new name of a
\* file that is being renamed.
LEMMA PpmRemovesStep == ASSUME StoreInv, NEW p \in Plugin, PpmRemoves(p) PROVE StoreInv'
  <1> DEFINE f == lock.entry[p]
  <1>1. /\ files' = files \ {f} /\ f # NoFile /\ lock.state = "valid"
        /\ lock' = [lock EXCEPT !.entry = [lock.entry EXCEPT ![p] = NoFile]]
        /\ install' = Touched(f) /\ Interferes /\ UNCHANGED dialog
    BY DEF PpmRemoves, marketVars, StoreInv, Shapes, Locks
  <1>2. /\ lock' \in Locks /\ lock'.state = "valid"
        /\ \A q \in Plugin : lock'.entry[q] = IF q = p THEN NoFile ELSE lock.entry[q]
    BY <1>1 DEF StoreInv, Shapes, Locks
  <1>3. OneEntryEach(lock')
    <2>1. \A q \in Plugin : lock.entry[q] \in Files \cup {NoFile}
      BY DEF StoreInv, Shapes, Locks
    <2> QED
      BY <1>2, <2>1, NoFileIsNone DEF OneEntryEach, StoreInv
  <1>4. ASSUME NEW fs, Names(lock, fs) PROVE Names(lock', fs \ {f})
    BY <1>1, <1>2, <1>4 DEF Names, StoreInv, OneEntryEach
  <1>5. CASE Idle
    <2>1. Names(lock', files')
      BY <1>1, <1>4, <1>5 DEF StoreInv
    <2> QED
      BY <1>1, <1>2, <1>3, <1>5, <2>1, PpmKeeps, TouchedIsInstall DEF StoreInv, Shapes
  <1>6. CASE ~Idle
    <2>1. Prepared /\ op.file \in Files
      BY <1>6 DEF StoreInv, Shapes, Idle, OpRec
    <2>2. op'.kind = op.kind /\ op'.file = op.file
      BY <1>1, <1>6, Interfered
    <2>3. Undone \ {f} \subseteq Undone'
      BY <1>1, <2>2 DEF Undone, RolledBack
    <2>4. Names(lock', Undone')
      BY <1>4, <2>1, <2>3 DEF Prepared, Names
    <2>5. op.kind = "toggle" => Toggled(op.file) \in files'
      BY <1>1, <2>1, ToggledIsOther DEF Prepared, Names, Undone, RolledBack
    <2>6. ~op.tagged => op.file \in files' /\ \A q \in Plugin : lock'.entry[q] # op.file
      BY <1>1, <1>2, <2>1, NoFileIsNone DEF Prepared
    <2> QED
      BY <1>1, <1>2, <1>3, <1>6, <2>4, <2>5, <2>6, PpmKeeps, TouchedIsInstall
         DEF StoreInv, Shapes
  <1> QED
    BY <1>5, <1>6

LEMMA PpmUpgradesStep == ASSUME StoreInv, PpmUpgrades PROVE StoreInv'
  <1>1. /\ lock' \in Locks /\ lock'.state = "unsupported" /\ lock'.entry = lock.entry
        /\ Interferes /\ UNCHANGED <<files, install, dialog>>
    BY DEF PpmUpgrades, marketVars, StoreInv, Shapes, Locks
  <1>2. OneEntryEach(lock')
    BY <1>1 DEF OneEntryEach, StoreInv
  <1>3. ~Idle => Prepared
    BY DEF StoreInv
  <1> QED
    BY <1>1, <1>2, <1>3, PpmKeeps DEF StoreInv, Shapes, Prepared, Names

-----------------------------------------------------------------------------
\* The catalogue and the account have no part in the files.
LEMMA MarketStays ==
  ASSUME MarketUser \/ MarketStep PROVE dialog' = dialog \/ dialog'.kind # "overwrite"
  <1>1. ASSUME MarketStep PROVE UNCHANGED dialog
    BY <1>1 DEF MarketStep, RequestTimedOut, RequestDone, CacheAges, ValidationDone, KeyTaskRuns,
       KeyTaskDone
  <1>2. CASE AccountClicked
    BY <1>2 DEF AccountClicked
  <1>3. CASE Disconnect \/ \E k \in Keys : Connect(k)
    BY <1>3 DEF Disconnect, Connect, NoDialog
  <1>4. CASE /\ dialog = NoDialog
             /\ \/ \E t \in Texts : TypeText(t) \/ ViewInMarketplace(t)
                \/ \E p \in 1 .. MaxPage : NewSearch(p)
                \/ ShowMarketplace \/ ShowInstalled \/ RefreshPage
    BY <1>4 DEF TypeText, ViewInMarketplace, NewSearch, ShowMarketplace, ShowInstalled, RefreshPage
  <1> QED
    BY <1>1, <1>2, <1>3, <1>4 DEF MarketUser

LEMMA NextStoreInv == StoreInv /\ [Next]_vars => StoreInv'
  <1> SUFFICES ASSUME StoreInv, [Next]_vars PROVE StoreInv'
    OBVIOUS
  <1>1. CASE UNCHANGED vars
    BY <1>1, Untouched DEF vars, marketVars, fileVars
  <1>2. CASE /\ MarketUser \/ MarketStep
             /\ UNCHANGED <<fileVars, install, op>>
    BY <1>2, MarketStays, Untouched DEF fileVars
  <1>3. CASE Ppm
    BY <1>3, PpmInstallsStep, PpmUpdatesStep, PpmRemovesStep, PpmUpgradesStep DEF Ppm
  <1>4. CASE Event
    BY <1>2, <1>3, <1>4, FileUserStep DEF Event
  <1>5. CASE Step
    BY <1>2, <1>5, InstallStep, WriteStep DEF Step
  <1> QED
    BY <1>1, <1>4, <1>5 DEF Next

\* Whenever ppm and whatever it does between the read and the write of a callback,
\* afterwards every entry of the lockfile names a file that is there.
THEOREM EntriesNameFiles == Spec => []LockNamesFiles
  <1>1. Spec => []StoreInv
    BY InitStoreInv, NextStoreInv, PTL DEF Spec
  <1> QED
    BY <1>1, StoreInvImplies, PTL

\* Once ppm has written, a callback that had a lockfile to read leaves it alone.
THEOREM ForeignWritesStand == Spec => ForeignChangesSurvive
  <1>1. ASSUME StoreInv, [Next]_vars, ~Idle, Idle', op.tagged, op.stale PROVE lock' = lock
    <2>1. CASE UNCHANGED vars
      BY <1>1, <2>1 DEF vars, Idle
    <2>2. CASE Event
      <3>1. Ppm
        BY <1>1, <2>2 DEF Event
      <3>2. Interferes
        BY <3>1 DEF Ppm, PpmInstalls, PpmUpdates, PpmRemoves, PpmUpgrades
      <3> QED
        BY <1>1, <3>2, Interfered
    <2>3. CASE Step
      <3>1. WriteLock
        BY <1>1, <2>3 DEF Step
      <3> QED
        BY <1>1, <3>1 DEF WriteLock, WriteSucceeds
    <2> QED
      BY <1>1, <2>1, <2>2, <2>3 DEF Next
  <1>2. StoreInv /\ [Next]_vars => [~Idle /\ Idle' /\ op.tagged /\ op.stale => lock' = lock]_vars
    BY <1>1
  <1>3. Spec => []StoreInv
    BY InitStoreInv, NextStoreInv, PTL DEF Spec
  <1> QED
    BY <1>2, <1>3, PTL DEF Spec, ForeignChangesSurvive

-----------------------------------------------------------------------------
(* The catalogue.                                                          *)

OpenRec == [phase : {"open", "completed"}, calls : 0 .. 1, cache : BOOLEAN,
            search : Search, fresh : BOOLEAN, cancelled : BOOLEAN]

\* A request whose answer would be shown is for the search of the page, and
\* has not been answered while it is open.
RequestOk(r, s) ==
  \/ r.phase = "ended" /\ r.calls \in 0 .. 1
  \/ /\ r \in OpenRec
     /\ r.phase = "open" => r.calls = 0
     /\ r.phase = "open" /\ ~r.cache /\ r.fresh => r.search = s

RequestsOk(rs, s) ==
  /\ DOMAIN rs = Requests /\ rs = [i \in Requests |-> rs[i]]
  /\ \A i \in Requests : RequestOk(rs[i], s)

PageInv ==
  /\ text \in Texts /\ page \in 1 .. MaxPage
  /\ RequestsOk(requests, wanted)
  /\ ~loading /\ shown.what = "plugins" => shown.search = wanted

LEMMA AbandonedOk ==
  ASSUME NEW rs, NEW s, NEW s2, RequestsOk(rs, s) PROVE RequestsOk(Abandoned(rs), s2)
  <1> DEFINE ab == Abandoned(rs)
  <1>1. DOMAIN ab = Requests /\ ab = [i \in Requests |-> ab[i]]
    BY DEF Abandoned
  <1>2. ASSUME NEW i \in Requests PROVE RequestOk(ab[i], s2)
    <2>1. RequestOk(rs[i], s)
      BY DEF RequestsOk
    <2>2. CASE rs[i].phase # "ended" /\ ~rs[i].cache
      <3>1. ab[i] = [rs[i] EXCEPT !.fresh = FALSE, !.cancelled = TRUE]
        BY <2>2 DEF Abandoned
      <3>2. rs[i] \in OpenRec
        BY <2>1, <2>2 DEF RequestOk
      <3>3. ab[i] \in OpenRec /\ ~ab[i].fresh /\ ab[i].phase = rs[i].phase /\ ab[i].calls = rs[i].calls
        BY <3>1, <3>2 DEF OpenRec
      <3> QED
        BY <2>1, <2>2, <3>3 DEF RequestOk
    <2>3. CASE ~(rs[i].phase # "ended" /\ ~rs[i].cache)
      <3>1. ab[i] = rs[i]
        BY <2>3 DEF Abandoned
      <3> QED
        BY <2>1, <2>3, <3>1 DEF RequestOk
    <2> QED
      BY <2>2, <2>3
  <1> QED
    BY <1>1, <1>2 DEF RequestsOk

LEMMA SentOk ==
  ASSUME NEW rs, NEW s \in Search, NEW forCache \in BOOLEAN, NEW w,
         RequestsOk(rs, w), forCache \/ s = w
  PROVE  RequestsOk(Sent(rs, s, forCache), w)
  <1> DEFINE i == CHOOSE j \in Requests : rs[j].phase = "ended"
             r == [phase |-> "open", calls |-> 0, cache |-> forCache, search |-> s,
                   fresh |-> TRUE, cancelled |-> FALSE]
  <1>1. Sent(rs, s, forCache) = [rs EXCEPT ![i] = r]
    BY DEF Sent
  <1>2. r \in OpenRec
    BY DEF OpenRec
  <1>3. RequestOk(r, w)
    BY <1>2 DEF RequestOk
  <1> HIDE DEF i, r
  <1> QED
    BY <1>1, <1>3 DEF RequestsOk

LEMMA SearchMade == ASSUME NEW t \in Texts, NEW p \in 1 .. MaxPage
                    PROVE  [text |-> t, page |-> p] \in Search
  BY DEF Search

LEMMA OneIsPage == 1 \in 1 .. MaxPage
  <1>1. MaxPage \in Nat \ {0}
    BY MarketplaceAssumption, Zenon
  <1> QED
    BY <1>1

LEMMA FirstPageIsSearch == FirstPage \in Search
  <1>1. "" \in Texts
    BY MarketplaceAssumption, Zenon
  <1> QED
    BY <1>1, OneIsPage, SearchMade, Zenon DEF FirstPage

LEMMA HereIsSearch == PageInv => Here \in Search
  BY DEF PageInv, Here, Search

LEMMA PageFetched ==
  ASSUME PageInv, NEW s \in Search, FetchPage(s), text' \in Texts, page' \in 1 .. MaxPage
  PROVE  PageInv'
  <1>1. requests' = Sent(Abandoned(requests), s, FALSE) /\ loading' = TRUE /\ wanted' = s
    BY DEF FetchPage
  <1>2. RequestsOk(Abandoned(requests), s)
    BY AbandonedOk DEF PageInv
  <1>3. RequestsOk(requests', wanted')
    BY <1>1, <1>2, SentOk
  <1> QED
    BY <1>1, <1>3 DEF PageInv

LEMMA PageKept == ASSUME PageInv, UNCHANGED <<text, page, loading, shown, wanted, requests>>
                  PROVE  PageInv'
  BY DEF PageInv

\* Only the answer to an open request changes what is shown.
LEMMA AnsweredPage ==
  ASSUME PageInv, NEW i \in Requests, requests[i].phase = "open", NEW ok \in BOOLEAN,
         FetchDone(requests[i], ok), RequestsOk(requests', wanted),
         UNCHANGED <<text, page, wanted>>
  PROVE  PageInv'
  <1>1. ~requests[i].cache /\ requests[i].fresh => requests[i].search = wanted
    BY DEF PageInv, RequestsOk, RequestOk
  <1>2. CASE UNCHANGED <<loading, shown>>
    BY <1>2 DEF PageInv
  <1>3. CASE /\ ~requests[i].cache /\ requests[i].fresh
             /\ shown' = IF ok THEN Listed(requests[i].search) ELSE LoadError
    BY <1>1, <1>3 DEF PageInv, Listed, LoadError
  <1> QED
    BY <1>2, <1>3 DEF FetchDone, Counts

LEMMA AnswerStep ==
  ASSUME PageInv, NEW i \in Requests, RequestTimedOut(i) \/ RequestDone(i) PROVE PageInv'
  <1> DEFINE r == requests[i]
  <1>1. RequestsOk(requests, wanted) /\ RequestOk(r, wanted)
    BY DEF PageInv, RequestsOk
  <1>2. ASSUME NEW q, requests' = [requests EXCEPT ![i] = q], RequestOk(q, wanted)
        PROVE  RequestsOk(requests', wanted)
    BY <1>1, <1>2 DEF RequestsOk
  <1>3. CASE RequestTimedOut(i)
    <2> DEFINE n == r.calls + 1
               q == [r EXCEPT !.phase = "completed", !.calls = n]
    <2>1. r.phase = "open" /\ requests' = [requests EXCEPT ![i] = q] /\ FetchDone(r, FALSE)
          /\ UNCHANGED <<text, page, wanted>>
      BY <1>3 DEF RequestTimedOut
    <2>2. r \in OpenRec /\ n \in 0 .. 1
      BY <1>1, <2>1 DEF RequestOk
    <2> HIDE DEF n
    <2>3. q \in OpenRec /\ q.phase = "completed"
      BY <2>2 DEF OpenRec
    <2>4. RequestOk(q, wanted)
      BY <2>3 DEF RequestOk
    <2> HIDE DEF q
    <2> QED
      BY <1>2, <2>1, <2>4, AnsweredPage
  <1>4. CASE RequestDone(i)
    <2> DEFINE q == Ended(IF StillOpen(r) THEN r.calls + 1 ELSE r.calls)
    <2>1. /\ requests' = [requests EXCEPT ![i] = q] /\ UNCHANGED <<text, page, wanted>>
          /\ IF r.phase = "open" THEN \E ok \in {FALSE, ~r.cancelled} : FetchDone(r, ok)
             ELSE UNCHANGED <<loading, shown, cache>>
      BY <1>4 DEF RequestDone, StillOpen
    <2>2. RequestOk(q, wanted)
      BY <1>1 DEF RequestOk, Ended, StillOpen, OpenRec
    <2> HIDE DEF q
    <2>3. RequestsOk(requests', wanted)
      BY <1>2, <2>1, <2>2
    <2>4. CASE r.phase = "open"
      <3>1. PICK ok \in {FALSE, ~r.cancelled} : FetchDone(r, ok)
        BY <2>1, <2>4
      <3>2. ok \in BOOLEAN
        BY <3>1, Zenon
      <3> QED
        BY <2>1, <2>3, <2>4, <3>1, <3>2, AnsweredPage
    <2>5. CASE r.phase # "open"
      BY <2>1, <2>3, <2>5 DEF PageInv
    <2> QED
      BY <2>4, <2>5
  <1> QED
    BY <1>3, <1>4

LEMMA ShowMarketplaceStep == ASSUME PageInv, ShowMarketplace PROVE PageInv'
  <1>1. UNCHANGED <<text, page>>
    BY DEF ShowMarketplace
  <1>2. CASE FetchPage(Here)
    BY <1>1, <1>2, HereIsSearch, PageFetched DEF PageInv
  <1>3. CASE requests' = Abandoned(requests) /\ shown' = Listed(FirstPage) /\ wanted' = FirstPage
    <2>1. RequestsOk(requests', wanted')
      BY <1>3, AbandonedOk DEF PageInv
    <2> QED
      BY <1>1, <1>3, <2>1 DEF PageInv, Listed
  <1>4. CASE shown' = LoadError /\ UNCHANGED <<requests, wanted>>
    BY <1>1, <1>4 DEF PageInv, LoadError
  <1> QED
    BY <1>2, <1>3, <1>4 DEF ShowMarketplace, ShowPage

LEMMA ShowInstalledStep == ASSUME PageInv, ShowInstalled PROVE PageInv'
  <1>1. requests' = requests \/ requests' = Sent(requests, FirstPage, TRUE)
    BY DEF ShowInstalled
  <1>2. RequestsOk(requests', wanted)
    BY <1>1, SentOk, FirstPageIsSearch DEF PageInv
  <1> QED
    BY <1>2 DEF ShowInstalled, PageInv

LEMMA ViewInMarketplaceStep ==
  ASSUME PageInv, NEW t \in Texts, ViewInMarketplace(t) PROVE PageInv'
  <1> DEFINE s == [text |-> t, page |-> 1]
  <1>1. 1 \in 1 .. MaxPage
    BY OneIsPage
  <1>2. s \in Search
    BY <1>1, SearchMade, Zenon
  <1>3. PICK first : /\ \/ first = Abandoned(requests) \/ first = requests
                        \/ first = Sent(Abandoned(requests), s, FALSE)
                     /\ requests' = Sent(Abandoned(first), s, FALSE)
                     /\ loading' = TRUE /\ wanted' = s /\ text' = t /\ page' = 1
    BY DEF ViewInMarketplace
  <1>4. RequestsOk(Abandoned(requests), s) /\ RequestsOk(requests, wanted)
    BY AbandonedOk DEF PageInv
  <1>5. RequestsOk(Abandoned(first), s)
    <2>1. RequestsOk(Sent(Abandoned(requests), s, FALSE), s)
      BY <1>2, <1>4, SentOk
    <2>2. RequestsOk(first, s) \/ RequestsOk(first, wanted)
      BY <1>3, <1>4, <2>1
    <2> QED
      BY <2>2, AbandonedOk
  <1>6. RequestsOk(requests', wanted')
    BY <1>2, <1>3, <1>5, SentOk
  <1> QED
    BY <1>1, <1>3, <1>6 DEF PageInv

LEMMA NewSearchStep == ASSUME PageInv, NEW p \in 1 .. MaxPage, NewSearch(p) PROVE PageInv'
  <1>1. [text |-> text, page |-> p] \in Search
    BY SearchMade DEF PageInv
  <1> QED
    BY <1>1, PageFetched DEF NewSearch, PageInv

\* The page is fetched again where it is.
LEMMA Refetched == ASSUME PageInv, FetchPage(Here), UNCHANGED <<text, page>> PROVE PageInv'
  BY HereIsSearch, PageFetched DEF PageInv

LEMMA NextPageInv == PageInv /\ [Next]_vars => PageInv'
  <1> SUFFICES ASSUME PageInv, [Next]_vars PROVE PageInv'
    OBVIOUS
  <1>1. CASE UNCHANGED vars
    BY <1>1, PageKept DEF vars, marketVars, pageVars
  <1>2. CASE UNCHANGED pageVars
    BY <1>2, PageKept DEF pageVars
  <1>3. CASE MarketUser
    <2>1. ASSUME NEW t \in Texts, TypeText(t) PROVE PageInv'
      BY <2>1 DEF TypeText, PageInv
    <2>2. CASE Disconnect
      BY <2>2, Refetched DEF Disconnect
    <2>3. CASE RefreshPage
      BY <2>3, Refetched DEF RefreshPage
    <2>4. CASE AccountClicked \/ \E k \in Keys : Connect(k)
      BY <1>2, <2>4 DEF AccountClicked, Connect
    <2> QED
      BY <1>3, <2>1, <2>2, <2>3, <2>4, ViewInMarketplaceStep, NewSearchStep, ShowMarketplaceStep,
         ShowInstalledStep DEF MarketUser
  <1>4. CASE MarketStep
    <2>1. ASSUME NEW v \in validations, ValidationDone(v) PROVE PageInv'
      <3>1. UNCHANGED <<text, page>>
            /\ (FetchPage(Here) \/ UNCHANGED <<loading, shown, wanted, requests, cache>>)
        BY <2>1 DEF ValidationDone
      <3> QED
        BY <3>1, Refetched, PageKept
    <2>2. CASE CacheAges
      BY <2>2, PageKept DEF CacheAges
    <2>3. CASE \E t \in keyTasks : KeyTaskRuns(t) \/ KeyTaskDone(t)
      BY <1>2, <2>3 DEF KeyTaskRuns, KeyTaskDone
    <2> QED
      BY <1>4, <2>1, <2>2, <2>3, AnswerStep DEF MarketStep
  <1>5. CASE FileUser
    <2>1. ASSUME NEW p \in Plugin, InstallClicked(p) PROVE PageInv'
      <3>1. UNCHANGED <<text, page>>
            /\ (FetchPage(Here) \/ UNCHANGED <<requests, loading, wanted, shown, cache>>)
        BY <2>1 DEF InstallClicked
      <3> QED
        BY <3>1, Refetched, PageKept
    <2>2. CASE \/ \E f \in files : Toggle(f) \/ DeleteClicked(f)
               \/ \E n \in Name : Import(n)
               \/ DeleteConfirmed \/ OverwriteConfirmed \/ Cancel
      BY <1>2, <2>2
         DEF Toggle, DeleteClicked, Import, DeleteConfirmed, OverwriteConfirmed, Cancel, marketVars
    <2> QED
      BY <1>5, <2>1, <2>2 DEF FileUser
  <1>6. CASE InstallFails \/ InstallReplaces \/ WriteLock
    <2>1. UNCHANGED marketVars \/ InstallEnds
      BY <1>6 DEF InstallFails, InstallReplaces, WriteLock
    <2> QED
      BY <1>2, <2>1, Refetched DEF marketVars, InstallEnds
  <1>7. CASE Ppm
    BY <1>2, <1>7 DEF Ppm, PpmInstalls, PpmUpdates, PpmRemoves, PpmUpgrades, marketVars
  <1> QED
    BY <1>1, <1>3, <1>4, <1>5, <1>6, <1>7 DEF Next, Event, Step

-----------------------------------------------------------------------------
(* The API key.                                                            *)

KeyContext == [key : Keys, fresh : BOOLEAN]
KeyTask == [op : {"load", "store", "clear"}, key : Keys \cup {NoKey}, fresh : BOOLEAN,
            done : BOOLEAN]

\* While the first load counts nothing else has been begun, so that the keyring
\* still holds the key the program started with.
LoadIsFirst ==
  \A t \in keyTasks : t.op = "load" /\ t.fresh =>
    /\ validations = {} /\ \A u \in keyTasks : u.op = "load"
    /\ keyring \in asked \cup {NoKey} /\ t.key \in asked \cup {NoKey}

KeyInv ==
  /\ key # NoKey => key \in asked
  /\ validations \subseteq KeyContext /\ keyTasks \subseteq KeyTask
  /\ keyring \in Keys \cup {NoKey}
  /\ \A v \in validations : v.fresh => v.key \in asked
  /\ LoadIsFirst

LEMMA OutdatedAreNot ==
  /\ \A cs \in SUBSET KeyContext :
       Outdated(cs) \subseteq KeyContext /\ \A c \in Outdated(cs) : ~c.fresh
  /\ \A cs \in SUBSET KeyTask :
       Outdated(cs) \subseteq KeyTask /\ \A c \in Outdated(cs) : ~c.fresh
  BY DEF Outdated, KeyContext, KeyTask

LEMMA KeyKept == ASSUME KeyInv, UNCHANGED keyVars PROVE KeyInv'
  BY DEF KeyInv, LoadIsFirst, keyVars

\* A validation begins, for a key that was asked for.
LEMMA Validated ==
  ASSUME KeyInv, NEW k \in Keys, NEW ts \in SUBSET keyTasks,
         validations' = Outdated(validations) \cup {[key |-> k, fresh |-> TRUE]},
         keyTasks' = Outdated(ts), k \in asked', asked \subseteq asked',
         UNCHANGED <<key, keyring>>
  PROVE  KeyInv'
  <1> DEFINE c == [key |-> k, fresh |-> TRUE]
  <1>1. ts \in SUBSET KeyTask /\ validations \in SUBSET KeyContext
    BY DEF KeyInv
  <1>2. /\ keyTasks' \subseteq KeyTask /\ \A t \in keyTasks' : ~t.fresh
        /\ Outdated(validations) \subseteq KeyContext /\ \A v \in Outdated(validations) : ~v.fresh
    BY <1>1, OutdatedAreNot
  <1>3. c \in KeyContext /\ c.key = k
    BY DEF KeyContext
  <1>4. validations' = Outdated(validations) \cup {c}
    OBVIOUS
  <1> HIDE DEF c
  <1>5. validations' \subseteq KeyContext /\ \A v \in validations' : v.fresh => v.key \in asked'
    BY <1>2, <1>3, <1>4
  <1>6. (key # NoKey => key \in asked') /\ keyring' \in Keys \cup {NoKey}
    BY DEF KeyInv
  <1> QED
    BY <1>2, <1>5, <1>6 DEF KeyInv, LoadIsFirst

LEMMA ConnectStep == ASSUME KeyInv, NEW k \in Keys, Connect(k) PROVE KeyInv'
  <1>1. asked' = asked \cup {k} /\ UNCHANGED <<key, keyring>> /\ Validate(k)
    BY DEF Connect
  <1>2. CASE Validating
    BY <1>1, <1>2 DEF Validate, KeyInv, LoadIsFirst
  <1>3. CASE ~Validating
    BY <1>1, <1>3, Validated DEF Validate
  <1> QED
    BY <1>2, <1>3

LEMMA DisconnectStep == ASSUME KeyInv, Disconnect PROVE KeyInv'
  <1> DEFINE t == [op |-> "clear", key |-> NoKey, fresh |-> TRUE, done |-> FALSE]
  <1>1. /\ key' = NoKey /\ validations' = Outdated(validations)
        /\ keyTasks' = Outdated(keyTasks) \cup {t} /\ UNCHANGED keyring
    BY DEF Disconnect
  <1>2. t \in KeyTask /\ t.op = "clear"
    BY DEF KeyTask
  <1>3. validations \in SUBSET KeyContext /\ keyTasks \in SUBSET KeyTask
    BY DEF KeyInv
  <1> HIDE DEF t
  <1> QED
    BY <1>1, <1>2, <1>3, OutdatedAreNot DEF KeyInv, LoadIsFirst

LEMMA ValidationStep == ASSUME KeyInv, NEW v \in validations, ValidationDone(v) PROVE KeyInv'
  <1> DEFINE t == [op |-> "store", key |-> v.key, fresh |-> TRUE, done |-> FALSE]
  <1>1. validations' = validations \ {v} /\ UNCHANGED <<keyring, asked>>
        /\ \/ v.fresh /\ key' = v.key /\ keyTasks' = keyTasks \cup {t}
           \/ UNCHANGED <<key, keyTasks>>
    BY DEF ValidationDone, Current
  <1>2. v \in KeyContext
    BY DEF KeyInv
  <1>3. t \in KeyTask /\ t.op = "store"
    BY <1>2 DEF KeyContext, KeyTask
  <1> HIDE DEF t
  <1>4. ~\E u \in keyTasks : u.op = "load" /\ u.fresh
    BY DEF KeyInv, LoadIsFirst
  <1> QED
    BY <1>1, <1>3, <1>4 DEF KeyInv, LoadIsFirst

LEMMA TaskRunsStep == ASSUME KeyInv, NEW t \in keyTasks, KeyTaskRuns(t) PROVE KeyInv'
  <1> DEFINE k == IF t.op = "load" THEN keyring ELSE t.key
             u == [t EXCEPT !.done = TRUE, !.key = k]
  <1>1. /\ keyTasks' = (keyTasks \ {t}) \cup {u} /\ UNCHANGED <<key, validations, asked>>
        /\ \/ keyring' = keyring
           \/ t.op # "load" /\ keyring' = t.key
    BY DEF KeyTaskRuns
  <1>2. t \in KeyTask /\ t.key \in Keys \cup {NoKey} /\ k \in Keys \cup {NoKey}
    BY DEF KeyInv, KeyTask
  <1>3. k = keyring \/ t.op # "load"
    OBVIOUS
  <1> HIDE DEF k
  <1>4. u \in KeyTask /\ u.op = t.op /\ u.fresh = t.fresh /\ u.key = k
    BY <1>2 DEF KeyTask
  <1> HIDE DEF u
  <1> QED
    BY <1>1, <1>2, <1>3, <1>4 DEF KeyInv, LoadIsFirst

LEMMA TaskDoneStep == ASSUME KeyInv, NEW t \in keyTasks, KeyTaskDone(t) PROVE KeyInv'
  <1>1. UNCHANGED <<key, keyring, asked>>
    BY DEF KeyTaskDone
  <1>2. CASE keyTasks' = keyTasks \ {t} /\ UNCHANGED validations
    BY <1>1, <1>2 DEF KeyInv, LoadIsFirst
  <1>3. CASE /\ t.op = "load" /\ t.fresh /\ t.key # NoKey
             /\ validations' = Outdated(validations) \cup {[key |-> t.key, fresh |-> TRUE]}
             /\ keyTasks' = Outdated(keyTasks \ {t})
    <2>1. t.key \in Keys /\ t.key \in asked
      BY <1>3 DEF KeyInv, LoadIsFirst, KeyTask
    <2> QED
      BY <1>1, <1>3, <2>1, Validated
  <1> QED
    BY <1>2, <1>3 DEF KeyTaskDone

LEMMA NextKeyInv == KeyInv /\ [Next]_vars => KeyInv'
  <1> SUFFICES ASSUME KeyInv, [Next]_vars PROVE KeyInv'
    OBVIOUS
  <1>1. CASE UNCHANGED keyVars
    BY <1>1, KeyKept
  <1>2. CASE UNCHANGED vars
    BY <1>1, <1>2 DEF vars, marketVars
  <1>3. CASE MarketUser
    <2>1. ASSUME NEW t \in Texts, TypeText(t) \/ ViewInMarketplace(t) PROVE UNCHANGED keyVars
      BY <2>1 DEF TypeText, ViewInMarketplace
    <2>2. ASSUME NEW p \in 1 .. MaxPage, NewSearch(p) PROVE UNCHANGED keyVars
      BY <2>2 DEF NewSearch
    <2>3. CASE ShowMarketplace \/ ShowInstalled \/ RefreshPage \/ AccountClicked
      BY <1>1, <2>3 DEF ShowMarketplace, ShowInstalled, RefreshPage, AccountClicked
    <2> QED
      BY <1>1, <1>3, <2>1, <2>2, <2>3, ConnectStep, DisconnectStep DEF MarketUser
  <1>4. CASE MarketStep
    <2>1. CASE (\E i \in Requests : RequestTimedOut(i) \/ RequestDone(i)) \/ CacheAges
      BY <1>1, <2>1 DEF RequestTimedOut, RequestDone, CacheAges
    <2> QED
      BY <1>4, <2>1, ValidationStep, TaskRunsStep, TaskDoneStep DEF MarketStep
  <1>5. CASE FileUser
    BY <1>1, <1>5 DEF FileUser, Toggle, DeleteClicked, Import, InstallClicked, DeleteConfirmed,
       OverwriteConfirmed, Cancel, marketVars
  <1>6. CASE InstallFails \/ InstallReplaces \/ WriteLock
    BY <1>1, <1>6 DEF InstallFails, InstallReplaces, WriteLock, InstallEnds, marketVars
  <1>7. CASE Ppm
    BY <1>1, <1>7 DEF Ppm, PpmInstalls, PpmUpdates, PpmRemoves, PpmUpgrades, marketVars
  <1> QED
    BY <1>2, <1>3, <1>4, <1>5, <1>6, <1>7 DEF Next, Event, Step

LEMMA InitMarketInv == Init => PageInv /\ KeyInv
  <1> SUFFICES ASSUME Init PROVE PageInv /\ KeyInv
    OBVIOUS
  <1>1. PageInv
    <2>1. "" \in Texts
      BY MarketplaceAssumption, Zenon
    <2>2. 1 \in 1 .. MaxPage
      BY OneIsPage
    <2>3. requests = [i \in Requests |-> Ended(0)]
      BY DEF Init, MarketInit
    <2>4. RequestsOk(requests, wanted)
      BY <2>3 DEF RequestsOk, RequestOk, Ended
    <2>5. text \in Texts /\ page \in 1 .. MaxPage
      BY <2>1, <2>2, Zenon DEF Init, MarketInit
    <2>6. shown.what # "plugins"
      BY DEF Init, MarketInit
    <2> QED
      BY <2>4, <2>5, <2>6, Zenon DEF PageInv
  <1>2. KeyInv
    <2> DEFINE t == [op |-> "load", key |-> NoKey, fresh |-> TRUE, done |-> FALSE]
    <2>1. /\ key = NoKey /\ validations = {} /\ keyring = SavedKey /\ keyTasks = {t}
          /\ asked = {SavedKey} \ {NoKey}
      BY DEF Init, MarketInit
    <2>2. SavedKey \in Keys \cup {NoKey}
      BY MarketplaceAssumption, Zenon
    <2>3. t \in KeyTask /\ t.op = "load" /\ t.key = NoKey
      BY DEF KeyTask
    <2> HIDE DEF t
    <2> QED
      BY <2>1, <2>2, <2>3 DEF KeyInv, LoadIsFirst
  <1> QED
    BY <1>1, <1>2

\* However late the answers to requests, validations and key tasks come, the page
\* shown is the one asked for last, the key is one that was asked for since the
\* last disconnect, and no request is answered twice.
THEOREM LateAnswersDoNothing == Spec => []LateAnswersAreIgnored
  <1>1. PageInv /\ KeyInv => LateAnswersAreIgnored
    <2> SUFFICES ASSUME PageInv, KeyInv PROVE LateAnswersAreIgnored
      OBVIOUS
    <2>1. ASSUME NEW i \in Requests PROVE requests[i].calls <= 1
      <3>1. requests[i].calls \in 0 .. 1
        BY DEF PageInv, RequestsOk, RequestOk, OpenRec
      <3> QED
        BY <3>1
    <2> QED
      BY <2>1 DEF PageInv, KeyInv, LateAnswersAreIgnored
  <1> QED
    BY <1>1, InitMarketInv, NextPageInv, NextKeyInv, PTL DEF Spec
=============================================================================
