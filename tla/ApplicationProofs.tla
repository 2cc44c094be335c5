-------------------------- MODULE ApplicationProofs --------------------------
(***************************************************************************)
(* Proofs about Application, for any set of servers, worlds, settings,     *)
(* domains and accounts and any bound on what the user does.               *)
(***************************************************************************)
EXTENDS Application, TLAPS

\* WorldsAreTouchedAtRest says nothing of maintenance taken by others, without
\* which a step of OthersMaintain, or a start, could not be judged: maintenance
\* of either kind keeps the process away.  Domains are needed for EXCEPT.
AtRest ==
  /\ DOMAIN process = Server /\ process = [s \in Server |-> process[s]]
  /\ DOMAIN maintenance = Server /\ maintenance = [s \in Server |-> maintenance[s]]
  /\ DOMAIN op = Server /\ op = [s \in Server |-> op[s]]
  /\ \A s \in Server : /\ op[s] # Idle => maintenance[s] = "worlds"
                       /\ maintenance[s] # "none" => ~process[s]

lockVars == <<process, maintenance, op>>

LEMMA AtRestImplies == AtRest => WorldsAreTouchedAtRest
  BY DEF AtRest, WorldsAreTouchedAtRest

LEMMA InitAtRest == Init => AtRest
  BY DEF Init, AtRest, SharedInit, WorldsInit

\* A step that touches neither processes, maintenance nor operations.
LEMMA Elsewhere == ASSUME AtRest, UNCHANGED lockVars PROVE AtRest'
  BY DEF AtRest, lockVars

-----------------------------------------------------------------------------
(* The servers.                                                            *)

LEMMA ServerSteps == ASSUME AtRest, ServerStep PROVE AtRest'
  <1>0. op' = op
    BY DEF ServerStep, worldVars
  <1>1. CASE \E s \in Server : ServerStarts(s)
    BY <1>0, <1>1 DEF ServerStarts, MayStart, AtRest
  <1>2. CASE \E s \in Server : ServerExits(s)
    BY <1>0, <1>2 DEF ServerExits, AtRest
  <1>3. CASE RestartEnds
    BY <1>0, <1>3, Elsewhere DEF RestartEnds, lockVars
  <1>4. CASE \E s \in Server : OthersMaintain(s)
    BY <1>0, <1>4 DEF OthersMaintain, MayMaintain, AtRest
  <1> QED
    BY <1>1, <1>2, <1>3, <1>4 DEF ServerStep

-----------------------------------------------------------------------------
(* The Worlds page.                                                        *)

\* start_operation takes the server into maintenance before the thread starts.
LEMMA Started ==
  ASSUME AtRest, NEW s, NEW operation, StartOperation(s, operation), process' = process
  PROVE  AtRest'
  <1>1. CASE CanModify(s) /\ MayMaintain(s)
    BY <1>1 DEF StartOperation, CanModify, AtRest
  <1>2. CASE ~(CanModify(s) /\ MayMaintain(s))
    BY <1>2, Elsewhere DEF StartOperation, lockVars
  <1> QED
    BY <1>1, <1>2

\* A thread that goes on was at work, so its server is in maintenance already.
LEMMA ThreadSteps ==
  ASSUME AtRest, NEW s \in Server,
         WorldCopied(s) \/ WorldMoved(s) \/ RemovalChecked(s) \/ WorldDeleted(s)
  PROVE  AtRest'
  <1>1. process' = process /\ maintenance' = maintenance
    BY DEF WorldCopied, WorldMoved, RemovalChecked, WorldDeleted, sharedVars, serverVars
  <1>2. op[s] # Idle
    BY DEF WorldCopied, WorldMoved, RemovalChecked, WorldDeleted, Idle
  <1>3. op' = op \/ \E step : op' = [op EXCEPT ![s].step = step]
    BY DEF WorldCopied, WorldMoved, RemovalChecked, WorldDeleted, Step
  <1>4. /\ DOMAIN op' = Server /\ op' = [t \in Server |-> op'[t]]
        /\ \A t \in Server : t # s => op'[t] = op[t]
    BY <1>3 DEF AtRest
  <1> QED
    BY <1>1, <1>2, <1>4 DEF AtRest

LEMMA Finished == ASSUME AtRest, NEW s \in Server, OperationFinished(s) PROVE AtRest'
  BY DEF OperationFinished, AtRest

LEMMA WorldsSteps == ASSUME AtRest, WorldsUser \/ WorldsThread PROVE AtRest'
  <1>1. CASE \/ WorldsRefreshed \/ MenuOpened \/ ImportClicked \/ ImportDismissed
             \/ \E r \in worldList.rows : RemoveClicked(r)
    BY <1>1, Elsewhere DEF WorldsRefreshed, MenuOpened, ImportClicked, ImportDismissed,
       RemoveClicked, worldVars, serverVars, lockVars
  <1>2. CASE \/ MenuClosed \/ RefreshAfterMenu \/ InventoryRead \/ InventoryFinished
    BY <1>2, Elsewhere DEF MenuClosed, RefreshAfterMenu, InventoryRead, InventoryFinished,
       sharedVars, serverVars, lockVars
  <1>3. ASSUME NEW yes \in BOOLEAN, RemoveConfirmed(yes) PROVE AtRest'
    <2> DEFINE r == Head(dialogs).of
    <2>0. process' = process
      BY <1>3 DEF RemoveConfirmed
    <2>1. \/ StartOperation(r.server, Remove(r.folder))
          \/ UNCHANGED <<maintenance, op>>
      BY <1>3 DEF RemoveConfirmed
    <2> QED
      BY <2>0, <2>1, Started, Elsewhere DEF lockVars
  <1>4. ASSUME NEW w \in World, ImportSelected(w) PROVE AtRest'
    <2>1. process' = process /\ StartOperation(Head(dialogs).server, Import(w))
      BY <1>4 DEF ImportSelected
    <2> QED
      BY <2>1, Started
  <1>5. ASSUME NEW w \in World, WorldDropped(w) PROVE AtRest'
    <2>1. process' = process /\ StartOperation(current, Import(w))
      BY <1>5 DEF WorldDropped
    <2> QED
      BY <2>1, Started
  <1> QED
    BY <1>1, <1>2, <1>3, <1>4, <1>5, ThreadSteps, Finished DEF WorldsUser, WorldsThread

-----------------------------------------------------------------------------
(* The other pages: none of them touches a process or a world.             *)

LEMMA DomainsSteps == ASSUME AtRest, DomainsStep PROVE AtRest'
  <1>1. op' = op
    BY DEF DomainsStep, worldVars
  <1>2. process' = process /\ maintenance' = maintenance
    BY DEF DomainsStep, DomainsUser, DomainsThread, SyncNow, DomainSaved, DomainEntered,
       DdnsTick, SyncDone, IntervalPasses, sharedVars, serverVars
  <1> QED
    BY <1>1, <1>2, Elsewhere DEF lockVars

LEMMA PlayersSteps == ASSUME AtRest, PlayersStep PROVE AtRest'
  <1>1. op' = op
    BY DEF PlayersStep, worldVars
  <1>2. process' = process /\ maintenance' = maintenance
    BY DEF PlayersStep, PlayersUser, PlayerOpened, DetailsClosed, RemovalAsked, ReasonAsked,
       Asks, CommandSent, ReasonGiven, RemovalAnswered, OthersStay, serverVars
  <1> QED
    BY <1>1, <1>2, Elsewhere DEF lockVars

\* Selecting a server reloads its list of worlds; threads go on where they are.
LEMMA SelectionKeepsOperations == ASSUME NEW s, SelectServer(s) PROVE op' = op
  BY DEF SelectServer

LEMMA PagesStayKeepOperations == ASSUME PagesStay PROVE op' = op
  BY DEF PagesStay, worldVars

LEMMA SavingKeepsOperations ==
  ASSUME NEW restart, NEW goOn, Save(restart, goOn) PROVE op' = op
  BY SelectionKeepsOperations, PagesStayKeepOperations
     DEF Save, NotSaved, Saved, Lands, StaysHere

LEMMA DiscardKeepsOperations == ASSUME Discard PROVE op' = op
  BY SelectionKeepsOperations DEF Discard, Lands, worldVars

LEMMA RowKeepsOperations == ASSUME NEW s, RowSelected(s) PROVE op' = op
  BY SelectionKeepsOperations DEF RowSelected

LEMMA ActivationKeepsAtRest ==
  ASSUME AtRest, NEW s \in Server, ServerActivated(s) PROVE AtRest'
  <1>1. op' = op
    BY RowKeepsOperations, PagesStayKeepOperations DEF ServerActivated
  <1> QED
    BY <1>1, Elsewhere DEF ServerActivated, serverVars, lockVars

LEMMA SettingsSteps == ASSUME AtRest, SettingsStep PROVE AtRest'
  <1>1. ASSUME NEW s \in Server, DetailsOpened(s) PROVE UNCHANGED lockVars
    BY <1>1, SelectionKeepsOperations DEF DetailsOpened, serverVars, lockVars
  <1>2. ASSUME NEW f, Edited(f) PROVE UNCHANGED lockVars
    BY <1>2 DEF Edited, worldVars, serverVars, lockVars
  <1>3. ASSUME BackClicked \/ \E page \in Page : PageChosen(page) PROVE UNCHANGED lockVars
    BY <1>3, PagesStayKeepOperations DEF BackClicked, PageChosen, serverVars, lockVars
  <1>4. ASSUME SaveClicked PROVE UNCHANGED lockVars
    BY <1>4, SavingKeepsOperations, PagesStayKeepOperations
       DEF SaveClicked, StaysHere, lockVars
  <1>5. ASSUME RestartDiscarded \/ LeaveDiscarded PROVE UNCHANGED lockVars
    BY <1>5, DiscardKeepsOperations DEF RestartDiscarded, LeaveDiscarded, lockVars
  <1>6. ASSUME RestartSaved \/ LeaveSaved \/ LeaveCancelled PROVE UNCHANGED lockVars
    BY <1>6, SavingKeepsOperations, PagesStayKeepOperations
       DEF RestartSaved, LeaveSaved, LeaveCancelled, StaysHere, lockVars
  <1>7. ASSUME GeneralSaved \/ ResetClicked \/ \E reset \in BOOLEAN : ResetAnswered(reset)
        PROVE  UNCHANGED lockVars
    BY <1>7, PagesStayKeepOperations
       DEF GeneralSaved, ResetClicked, ResetAnswered, worldVars, serverVars, lockVars
  <1>8. UNCHANGED lockVars
    BY <1>1, <1>2, <1>3, <1>4, <1>5, <1>6, <1>7
       DEF SettingsStep, NameEdited, PortEdited, SwitchFlipped
  <1> QED
    BY <1>8, Elsewhere

-----------------------------------------------------------------------------
(* The program as a whole.                                                 *)

LEMMA StartingAnew == ASSUME ProgramStartsAnew PROVE AtRest'
  BY DEF ProgramStartsAnew, WorldsLost, AtRest

LEMMA NextAtRest == AtRest /\ [Next]_vars => AtRest'
  <1> SUFFICES ASSUME AtRest, [Next]_vars PROVE AtRest'
    OBVIOUS
  <1>1. CASE UNCHANGED vars
    BY <1>1, Elsewhere DEF vars, sharedVars, serverVars, worldVars, lockVars
  <1>2. CASE WorldsStep
    BY <1>2, WorldsSteps DEF WorldsStep
  <1>3. CASE CommandLine \/ MachineStops
    BY <1>3, StartingAnew, ActivationKeepsAtRest DEF CommandLine, ProgramCloses, MachineStops
  <1> QED
    BY <1>1, <1>2, <1>3, ServerSteps, DomainsSteps, PlayersSteps, SettingsSteps DEF Next

\* No process runs on worlds that a thread copies or removes, for any number of
\* servers: nothing but start_operation begins an operation, it does so together
\* with maintenance, nobody else takes that maintenance back, and
\* pumpkin_server_start respects maintenance of either kind.
THEOREM WorldsRest == Spec => []WorldsAreTouchedAtRest
  <1>1. Init => AtRest
    BY InitAtRest
  <1>2. AtRest /\ [Next]_vars => AtRest'
    BY NextAtRest
  <1>3. AtRest => WorldsAreTouchedAtRest
    BY AtRestImplies
  <1> QED
    BY <1>1, <1>2, <1>3, PTL DEF Spec

-----------------------------------------------------------------------------
(* Settings and domains: what they say of a server, and what the forms     *)
(* hold for the selected one.                                              *)

Owned(r, s) ==
  /\ r = [name |-> r.name, port |-> r.port, domain |-> r.domain]
  /\ r.name.server = s /\ r.port.server = s /\ r.domain.server = s

Kept(rs) ==
  /\ DOMAIN rs = Server /\ rs = [s \in Server |-> rs[s]]
  /\ \A s \in Server : Owned(rs[s], s)

FormInv ==
  /\ current \in Server /\ pending.server \in Server \cup {NoServer}
  /\ pending = [server |-> pending.server, page |-> pending.page, view |-> pending.view]
  /\ Kept(record) /\ Kept(file)
  /\ form = [name |-> form.name, port |-> form.port, flag |-> form.flag]
  /\ form.name.server = current /\ form.port.server = current
  /\ domainForm.server = current
  /\ \A r \in request : r.server = r.domain.server

formVars == <<current, pending, recordVars, form, domainForm, request>>

LEMMA InitialIsOwned == \A s : Owned(Initial(s), s)
  BY DEF Owned, Initial, Entry

LEMMA InitFormInv == Init => FormInv
  <1> SUFFICES ASSUME Init PROVE FormInv
    OBVIOUS
  <1>1. Kept(record) /\ Kept(file)
    BY InitialIsOwned DEF Init, SharedInit, Kept
  <1>2. First \in Server
    BY SelectionAssumption
  <1>3. Owned(record[First], First)
    BY <1>1, <1>2 DEF Kept
  <1>4. current = First /\ form = Loaded(record[First], FALSE) /\ domainForm = record[First].domain
        /\ request = {} /\ pending = NoPending
    BY DEF Init, SharedInit, SettingsInit, DomainsInit
  <1> QED
    BY <1>1, <1>2, <1>3, <1>4 DEF FormInv, Owned, Loaded, NoPending

LEMMA FormsStay == ASSUME FormInv, UNCHANGED formVars PROVE FormInv'
  BY DEF FormInv, formVars, recordVars, Kept, Owned

\* Both forms are filled from what is stored about one server.
LEMMA FormsLoaded ==
  ASSUME FormInv, NEW s \in Server, NEW flag, current' = s, Kept(record'), Kept(file'),
         form' = Loaded(record'[s], flag), domainForm' = record'[s].domain,
         request' = request \/ request' = {},
         pending' \in {pending, NoPending}
         \/ \E t \in Server : \E page, v : pending' = [server |-> t, page |-> page, view |-> v]
  PROVE  FormInv'
  <1>1. Owned(record'[s], s)
    BY DEF Kept
  <1>2. /\ pending'.server \in Server \cup {NoServer}
        /\ pending' = [server |-> pending'.server, page |-> pending'.page, view |-> pending'.view]
    BY DEF FormInv, NoPending
  <1>3. \A r \in request' : r.server = r.domain.server
    BY DEF FormInv
  <1> QED
    BY <1>1, <1>2, <1>3 DEF FormInv, Loaded, Owned

LEMMA FormsSelected ==
  ASSUME FormInv, NEW s \in Server, SelectServer(s), Kept(record'), Kept(file'),
         pending' \in {pending, NoPending}
         \/ \E t \in Server : \E page, v : pending' = [server |-> t, page |-> page, view |-> v]
  PROVE  FormInv'
  <1>1. /\ current' = s /\ form' = Loaded(record'[s], form.flag)
        /\ domainForm' = record'[s].domain /\ request' = request
    BY DEF SelectServer, UpdateSettingsForm, UpdateDomainsForm
  <1> QED
    BY <1>1, FormsLoaded

LEMMA RecordsStay == ASSUME FormInv, UNCHANGED recordVars PROVE Kept(record') /\ Kept(file')
  BY DEF FormInv, recordVars, Kept, Owned

\* One server's part of the records is replaced by its own.
LEMMA OneRecord ==
  ASSUME NEW rs, Kept(rs), NEW s \in Server, NEW r, Owned(r, s)
  PROVE  Kept([rs EXCEPT ![s] = r])
  BY DEF Kept

LEMMA RowForms == ASSUME FormInv, NEW s \in Server, UNCHANGED recordVars, RowSelected(s)
                  PROVE  FormInv'
  <1>1. Kept(record') /\ Kept(file')
    BY RecordsStay
  <1>2. CASE /\ SelectServer(current)
             /\ pending' = [server |-> s, page |-> "settings", view |-> "none"]
    BY <1>1, <1>2, FormsSelected DEF FormInv
  <1>3. CASE SelectServer(s) /\ UNCHANGED pending
    BY <1>1, <1>3, FormsSelected
  <1> QED
    BY <1>2, <1>3 DEF RowSelected

LEMMA ActivationForms == ASSUME FormInv, NEW s \in Server, ServerActivated(s) PROVE FormInv'
  <1>1. UNCHANGED recordVars
    BY DEF ServerActivated
  <1>2. CASE PagesStay /\ UNCHANGED pending
    BY <1>1, <1>2, FormsStay DEF PagesStay, selectionVars, domainVars, formVars
  <1> QED
    BY <1>1, <1>2, RowForms DEF ServerActivated

-----------------------------------------------------------------------------
(* Saving and discarding.                                                  *)

LEMMA StoredIsKept ==
  ASSUME FormInv, record' = [record EXCEPT ![current].name = form.name, ![current].port = form.port]
  PROVE  Kept(record')
  <1> DEFINE named == [record[current] EXCEPT !.name = form.name]
             stored == [named EXCEPT !.port = form.port]
             rs == [record EXCEPT ![current] = named]
  <1>1. Owned(record[current], current) /\ current \in Server /\ Kept(record)
    BY DEF FormInv, Kept
  <1>2. form.name.server = current /\ form.port.server = current
    BY DEF FormInv
  <1>3. Owned(named, current)
    BY <1>1, <1>2 DEF Owned
  <1>4. Owned(stored, current)
    <2> HIDE DEF named
    <2> QED
      BY <1>2, <1>3 DEF Owned
  <1> HIDE DEF named
  <1>5. rs[current] = named
    BY <1>1 DEF Kept
  <1>6. Kept(rs)
    BY <1>1, <1>3, OneRecord
  <1>7. record' = [rs EXCEPT ![current] = stored]
    BY <1>5 DEF named
  <1> HIDE DEF rs, stored
  <1>8. Kept([rs EXCEPT ![current] = stored])
    BY <1>1, <1>4, <1>6, OneRecord
  <1> QED
    BY <1>7, <1>8 DEF Kept

LEMMA SavingKeeps ==
  ASSUME FormInv, SaveFails \/ \E restart \in BOOLEAN : SaveSucceeds(restart)
  PROVE  Kept(record') /\ Kept(file')
  <1>1. CASE UNCHANGED recordVars
    BY <1>1, RecordsStay
  <1>2. CASE RecordsStored /\ file' \in {record, record'}
    BY <1>2, StoredIsKept DEF RecordsStored, FormInv
  <1> QED
    BY <1>1, <1>2 DEF SaveFails, SaveSucceeds

\* A failed save may have changed the record behind the form, never its owner.
LEMMA PagesStayForms ==
  ASSUME FormInv, PagesStay, Kept(record'), Kept(file'), pending' \in {pending, NoPending}
  PROVE  FormInv'
  <1>1. UNCHANGED <<current, form, domainForm, request>>
    BY DEF PagesStay, selectionVars, domainVars
  <1>2. /\ pending'.server \in Server \cup {NoServer}
        /\ pending' = [server |-> pending'.server, page |-> pending'.page, view |-> pending'.view]
    BY DEF FormInv, NoPending
  <1> QED
    BY <1>1, <1>2 DEF FormInv

LEMMA LandsForms ==
  ASSUME FormInv, NEW s \in Server, Lands(s), Kept(record'), Kept(file'),
         pending' \in {pending, NoPending}
  PROVE  FormInv'
  BY FormsSelected DEF Lands

LEMMA SaveForms ==
  ASSUME FormInv, NEW restart \in BOOLEAN, NEW goOn \in BOOLEAN, Save(restart, goOn)
  PROVE  FormInv'
  <1>1. Kept(record') /\ Kept(file')
    BY SavingKeeps DEF Save
  <1>2. First \in Server
    BY SelectionAssumption
  <1>3. pending' \in {pending, NoPending}
    BY DEF Save, NotSaved, Saved, PendingPagesShown, StaysHere
  <1>4. PagesStay \/ \E s \in Server : Lands(s)
    BY <1>2 DEF Save, NotSaved, Saved, StaysHere, FormInv
  <1> QED
    BY <1>1, <1>3, <1>4, PagesStayForms, LandsForms

LEMMA DiscardForms == ASSUME FormInv, Discard PROVE FormInv'
  <1>1. Kept(record') /\ Kept(file') /\ pending' \in {pending, NoPending}
    BY RecordsStay DEF Discard, PendingPagesShown
  <1>2. CASE pending.server = NoServer
    <2>1. /\ form' = Loaded(record'[current], form.flag)
          /\ UNCHANGED <<current, domainForm, request, recordVars>>
      BY <1>2 DEF Discard, UpdateSettingsForm, selectionVars, domainVars
    <2>2. Owned(record'[current], current)
      BY <1>1 DEF Kept, FormInv
    <2>3. /\ pending'.server \in Server \cup {NoServer}
          /\ pending' = [server |-> pending'.server, page |-> pending'.page, view |-> pending'.view]
      BY <1>1 DEF FormInv, NoPending
    <2> QED
      BY <1>1, <2>1, <2>2, <2>3 DEF FormInv, Loaded, Owned
  <1>3. CASE pending.server # NoServer
    BY <1>1, <1>3, LandsForms DEF Discard, FormInv
  <1> QED
    BY <1>2, <1>3

-----------------------------------------------------------------------------
(* The steps of the pages.                                                 *)

LEMMA ServerForms == ASSUME FormInv, ServerStep PROVE FormInv'
  BY FormsStay DEF ServerStep, ServerStarts, ServerExits, RestartEnds, OthersMaintain,
     selectionVars, domainVars, settingsVars, formVars

LEMMA WorldsForms == ASSUME FormInv, WorldsStep PROVE FormInv'
  <1>1. UNCHANGED <<selectionVars, recordVars>>
    BY DEF WorldsStep, WorldsUser, WorldsThread, WorldsRefreshed, MenuOpened, ImportClicked,
       ImportDismissed, RemoveClicked, RemoveConfirmed, ImportSelected, WorldDropped, MenuClosed,
       RefreshAfterMenu, InventoryRead, InventoryFinished, WorldCopied, WorldMoved,
       RemovalChecked, WorldDeleted, OperationFinished, sharedVars
  <1> QED
    BY <1>1, FormsStay DEF WorldsStep, domainVars, settingsVars, selectionVars, formVars

LEMMA PlayersForms == ASSUME FormInv, PlayersStep PROVE FormInv'
  <1>1. UNCHANGED <<selectionVars, recordVars>>
    BY DEF PlayersStep, PlayersUser, PlayerOpened, DetailsClosed, RemovalAsked, ReasonAsked, Asks,
       CommandSent, ReasonGiven, RemovalAnswered, OthersStay
  <1> QED
    BY <1>1, FormsStay DEF PlayersStep, domainVars, settingsVars, selectionVars, formVars

\* The thread gets each server's own domain.
LEMMA SyncedOwn ==
  ASSUME FormInv, NEW chosen \in SUBSET Server, SyncStart(chosen), Kept(record')
  PROVE  \A r \in request' : r.server = r.domain.server
  BY DEF SyncStart, FormInv, Kept, Owned

LEMMA DomainsForms == ASSUME FormInv, DomainsStep PROVE FormInv'
  <1>0. UNCHANGED <<form, pending>>
    BY DEF DomainsStep, settingsVars
  <1>1. CASE DdnsTick \/ SyncNow
    <2>1. UNCHANGED <<current, recordVars, domainForm>>
      BY <1>1 DEF DdnsTick, SyncNow, sharedVars, selectionVars
    <2>2. Kept(record') /\ Kept(file')
      BY <2>1, RecordsStay
    <2>3. \E chosen \in SUBSET Server : SyncStart(chosen)
      BY <1>1 DEF DdnsTick, SyncNow, FormInv
    <2>4. \A r \in request' : r.server = r.domain.server
      BY <2>2, <2>3, SyncedOwn
    <2> QED
      BY <1>0, <2>1, <2>2, <2>4 DEF FormInv
  <1>2. CASE DomainSaved
    <2> DEFINE r == [record[current] EXCEPT !.domain = domainForm]
    <2>1. /\ record' = [record EXCEPT ![current] = r] /\ UNCHANGED current
          /\ \/ UNCHANGED <<file, domainForm, request>>
             \/ /\ file' = [file EXCEPT ![current] = record'[current]]
                /\ domainForm' = record'[current].domain
                /\ SyncStart({current})
      BY <1>2 DEF DomainSaved, UpdateDomainsForm, selectionVars
    <2>2. Owned(r, current)
      BY DEF FormInv, Kept, Owned
    <2> HIDE DEF r
    <2>3. Kept([record EXCEPT ![current] = r])
      BY <2>2, OneRecord DEF FormInv
    <2>4. Kept(record') /\ Owned(record'[current], current)
      BY <2>1, <2>3 DEF Kept, FormInv
    <2>5. CASE UNCHANGED <<file, domainForm, request>>
      BY <1>0, <2>1, <2>4, <2>5 DEF FormInv, Kept
    <2>6. CASE /\ file' = [file EXCEPT ![current] = record'[current]]
               /\ domainForm' = record'[current].domain
               /\ SyncStart({current})
      <3>1. Kept([file EXCEPT ![current] = record'[current]])
        BY <2>4, OneRecord DEF FormInv
      <3>2. Kept(file')
        BY <2>6, <3>1 DEF Kept
      <3>3. \A q \in request' : q.server = q.domain.server
        BY <2>4, <2>6, SyncedOwn DEF FormInv
      <3>4. domainForm'.server = current
        BY <2>4, <2>6 DEF Owned
      <3> QED
        BY <1>0, <2>1, <2>4, <3>2, <3>3, <3>4 DEF FormInv
    <2> QED
      BY <2>1, <2>5, <2>6
  <1>3. ASSUME NEW d \in Domain, DomainEntered(d) PROVE FormInv'
    BY <1>0, <1>3 DEF DomainEntered, Entry, FormInv, Kept, Owned, recordVars, selectionVars
  <1>4. ASSUME NEW ok \in BOOLEAN, SyncDone(ok) PROVE FormInv'
    <2>1. /\ UNCHANGED <<current, record>> /\ request' = {}
          /\ \E new : file' = [s \in Server |-> IF s \in new THEN record[s] ELSE file[s]]
          /\ domainForm' = record'[current].domain
      BY <1>4 DEF SyncDone, UpdateDomainsForm, selectionVars
    <2>2. Kept(file') /\ Kept(record')
      BY <2>1 DEF FormInv, Kept
    <2>3. domainForm'.server = current
      BY <2>1, <2>2 DEF FormInv, Kept, Owned
    <2> QED
      BY <1>0, <2>1, <2>2, <2>3 DEF FormInv
  <1>5. ASSUME NEW s \in Server, IntervalPasses(s) PROVE FormInv'
    BY <1>0, <1>5, FormsStay DEF IntervalPasses, sharedVars, selectionVars, formVars
  <1> QED
    BY <1>1, <1>2, <1>3, <1>4, <1>5 DEF DomainsStep, DomainsUser, DomainsThread

\* The user edits what he sees.
LEMMA EditedForms == ASSUME FormInv, NEW f, Edited(f),
                            f = [name |-> f.name, port |-> f.port, flag |-> f.flag],
                            f.name.server = current, f.port.server = current
                     PROVE  FormInv'
  BY DEF Edited, FormInv, Kept, Owned, recordVars, selectionVars, domainVars

LEMMA EditsForms ==
  ASSUME FormInv, \/ \E v \in Value : NameEdited(v)
                  \/ \E v \in Value \cup {Invalid} : PortEdited(v)
                  \/ SwitchFlipped
  PROVE  FormInv'
  <1> DEFINE Fits(f) == /\ f = [name |-> f.name, port |-> f.port, flag |-> f.flag]
                        /\ f.name.server = current /\ f.port.server = current
  <1>1. Fits(form)
    BY DEF FormInv
  <1>2. ASSUME NEW v, NameEdited(v) PROVE FormInv'
    <2>1. Fits([form EXCEPT !.name = Entry(current, v)])
      BY <1>1 DEF Entry
    <2> QED
      BY <1>2, <2>1, EditedForms DEF NameEdited
  <1>3. ASSUME NEW v, PortEdited(v) PROVE FormInv'
    <2>1. Fits([form EXCEPT !.port = Entry(current, v)])
      BY <1>1 DEF Entry
    <2> QED
      BY <1>3, <2>1, EditedForms DEF PortEdited
  <1>4. CASE SwitchFlipped
    <2>1. Fits([form EXCEPT !.flag = ~form.flag])
      BY <1>1
    <2> QED
      BY <1>4, <2>1, EditedForms DEF SwitchFlipped
  <1> QED
    BY <1>2, <1>3, <1>4

\* A question may be put in the way of leaving; then nothing else changes.
LEMMA LeaveForms ==
  ASSUME FormInv, BackClicked \/ \E page \in Page : PageChosen(page) PROVE FormInv'
  <1>1. UNCHANGED <<current, recordVars, form, domainForm, request>>
    BY DEF BackClicked, PageChosen, PagesStay, selectionVars, domainVars
  <1>2. \/ UNCHANGED pending
        \/ \E page, v : pending' = [pending EXCEPT !.page = page, !.view = v]
    BY DEF BackClicked, PageChosen, Leave
  <1>3. /\ pending'.server \in Server \cup {NoServer}
        /\ pending' = [server |-> pending'.server, page |-> pending'.page, view |-> pending'.view]
    BY <1>2 DEF FormInv
  <1> QED
    BY <1>1, <1>3 DEF FormInv, recordVars, Kept, Owned

LEMMA ResetForms == ASSUME FormInv, NEW reset \in BOOLEAN, ResetAnswered(reset) PROVE FormInv'
  <1>1. UNCHANGED <<current, file, pending, request>>
    BY DEF ResetAnswered, selectionVars, domainVars
  <1>2. CASE reset
    <2>1. /\ record' = [record EXCEPT ![current] = Initial(current)]
          /\ form' = Loaded(record'[current], form.flag)
          /\ domainForm' = record'[current].domain
      BY <1>2 DEF ResetAnswered, UpdateDomainsForm
    <2>2. Kept([record EXCEPT ![current] = Initial(current)])
      BY InitialIsOwned, OneRecord DEF FormInv
    <2>3. Kept(record') /\ Kept(file')
      BY <1>1, <2>1, <2>2 DEF Kept, FormInv
    <2> QED
      BY <1>1, <2>1, <2>3, FormsLoaded DEF FormInv
  <1>3. CASE ~reset
    BY <1>1, <1>3, FormsStay DEF ResetAnswered, domainVars, recordVars, formVars
  <1> QED
    BY <1>2, <1>3

LEMMA SettingsForms == ASSUME FormInv, SettingsStep PROVE FormInv'
  <1>1. ASSUME NEW s \in Server, DetailsOpened(s) PROVE FormInv'
    <2>1. UNCHANGED <<recordVars, pending>> /\ SelectServer(s)
      BY <1>1 DEF DetailsOpened
    <2> QED
      BY <2>1, RecordsStay, FormsSelected
  <1>2. ASSUME PagesStay, UNCHANGED <<recordVars, pending>> PROVE FormInv'
    BY <1>2, RecordsStay, PagesStayForms
  <1>3. CASE SaveClicked
    BY <1>2, <1>3, SaveForms DEF SaveClicked, StaysHere
  <1>4. CASE RestartDiscarded \/ LeaveDiscarded
    BY <1>4, DiscardForms DEF RestartDiscarded, LeaveDiscarded
  <1>5. CASE RestartSaved
    BY <1>5, SaveForms DEF RestartSaved
  <1>6. CASE LeaveSaved
    BY <1>2, <1>6, SaveForms DEF LeaveSaved, StaysHere
  <1>7. CASE LeaveCancelled \/ ResetClicked
    BY <1>2, <1>7 DEF LeaveCancelled, ResetClicked
  <1>8. CASE GeneralSaved
    BY <1>8 DEF GeneralSaved, FormInv, Kept, Owned, selectionVars, domainVars
  <1> QED
    BY <1>1, <1>3, <1>4, <1>5, <1>6, <1>7, <1>8, EditsForms, LeaveForms, ResetForms
       DEF SettingsStep

LEMMA StartingForms == ASSUME FormInv, ProgramStartsAnew PROVE FormInv'
  <1>1. /\ current' = First /\ record' = file /\ UNCHANGED file
        /\ form' = Loaded(record'[First], config) /\ domainForm' = record'[First].domain
        /\ request' = {} /\ pending' = NoPending
    BY DEF ProgramStartsAnew, SettingsLost, DomainsLost, UpdateDomainsForm
  <1>2. Kept(record') /\ Kept(file') /\ First \in Server
    BY <1>1, SelectionAssumption DEF FormInv, Kept
  <1> QED
    BY <1>1, <1>2, FormsLoaded

LEMMA NextFormInv == FormInv /\ [Next]_vars => FormInv'
  <1> SUFFICES ASSUME FormInv, [Next]_vars PROVE FormInv'
    OBVIOUS
  <1>1. CASE UNCHANGED vars
    BY <1>1, FormsStay DEF vars, sharedVars, selectionVars, domainVars, settingsVars, formVars
  <1>2. CASE CommandLine \/ MachineStops
    BY <1>2, StartingForms, ActivationForms DEF CommandLine, ProgramCloses, MachineStops
  <1> QED
    BY <1>1, <1>2, ServerForms, WorldsForms, DomainsForms, PlayersForms, SettingsForms DEF Next

-----------------------------------------------------------------------------
(* Players: the entries of one account, in the table and in a file.        *)

\* Entries share no id with each other or with what was deleted.  The log names
\* who is in the game, so an entry that is online has the name.
StatesOk(states, gone) ==
  /\ states \subseteq PlayerState /\ gone \subseteq Id
  /\ \A t \in states : t.ids \cap gone = {} /\ (t.online => "name" \in t.ids)
  /\ \A t, u \in states : t # u => t.ids \cap u.ids = {}

IdsOk(states, gone) ==
  /\ states \subseteq (SUBSET Id) \ {{}} /\ gone \subseteq Id
  /\ \A i \in states : i \cap gone = {}
  /\ \A i, j \in states : i # j => i \cap j = {}

Online(states) == \E t \in states : t.online

LEMMA EnsuredOk ==
  ASSUME NEW states, NEW gone, StatesOk(states, gone), NEW ids \in (SUBSET Id) \ {{}},
         NEW create \in BOOLEAN, NEW r, r = Ensured(states, gone, ids, create)
  PROVE  /\ StatesOk(r, gone) /\ (Online(r) => Online(states))
         /\ create /\ ids \cap gone = {} =>
              \A t \in r : t.ids \cap ids # {} => ids \subseteq t.ids
  <1> DEFINE same == {t \in states : t.ids \cap ids # {}}
             all == ids \cup UNION {t.ids : t \in same}
             on == \E t \in same : t.online
             new == [ids |-> all, online |-> on]
  <1>1. CASE ids \cap gone # {} \/ (same = {} /\ ~create)
    BY <1>1 DEF Ensured
  <1>2. CASE ~(ids \cap gone # {} \/ (same = {} /\ ~create))
    <2>1. r = (states \ same) \cup {new}
      BY <1>2 DEF Ensured
    <2>2. \A x : x \in all <=> x \in ids \/ \E t \in same : x \in t.ids
      OBVIOUS
    <2>3. \A t \in states : t \in PlayerState /\ t.ids \subseteq Id /\ t.ids # {}
      BY DEF StatesOk, PlayerState
    <2> HIDE DEF all
    <2>4. all \subseteq Id /\ all # {} /\ ids \subseteq all
      BY <2>2, <2>3
    <2>5. all \cap gone = {}
      BY <1>2, <2>2 DEF StatesOk
    <2>6. \A t \in states \ same : t.ids \cap all = {} /\ t.ids \cap ids = {}
      BY <2>2 DEF StatesOk
    <2>7. on => "name" \in all
      BY <2>2 DEF StatesOk
    <2>8. on \in BOOLEAN
      OBVIOUS
    <2> HIDE DEF on
    <2>9. new \in PlayerState /\ new.ids = all /\ (new.online <=> on)
      BY <2>4, <2>8 DEF PlayerState
    <2> HIDE DEF new
    <2>10. StatesOk(r, gone)
      BY <2>1, <2>4, <2>5, <2>6, <2>7, <2>9 DEF StatesOk
    <2>11. Online(r) => Online(states)
      BY <2>1, <2>9 DEF Online, on
    <2>12. \A t \in r : t.ids \cap ids # {} => ids \subseteq t.ids
      BY <2>1, <2>4, <2>6, <2>9
    <2> QED
      BY <2>10, <2>11, <2>12
  <1> QED
    BY <1>1, <1>2

LEMMA EnsuredFits ==
  ASSUME NEW states, NEW gone, StatesOk(states, gone), NEW ids \in {{"name"}, {"uuid"}, Id}
  PROVE  /\ StatesOk(Ensured(states, gone, ids, TRUE), gone)
         /\ Online(Ensured(states, gone, ids, TRUE)) => Online(states)
  <1> DEFINE r == Ensured(states, gone, ids, TRUE)
  <1>1. ids \in (SUBSET Id) \ {{}}
    BY DEF Id
  <1>2. StatesOk(r, gone) /\ (Online(r) => Online(states))
    BY <1>1, EnsuredOk
  <1> QED
    BY <1>2

LEMMA MarkedOk ==
  ASSUME NEW states, NEW gone, StatesOk(states, gone), NEW ids \in SUBSET Id,
         NEW online \in BOOLEAN,
         online => \A t \in states : t.ids \cap ids # {} => "name" \in t.ids,
         NEW r, r = Marked(states, ids, online)
  PROVE  /\ StatesOk(r, gone) /\ (Online(r) => online \/ Online(states))
         /\ (states = {} => r = {})
         /\ ~online => \A t \in r : t.online => t.ids \cap ids = {}
  <1> DEFINE image(t) == IF t.ids \cap ids # {} THEN [t EXCEPT !.online = online] ELSE t
  <1>1. r = {image(t) : t \in states}
    BY DEF Marked
  <1>2. \A t \in states : /\ image(t) \in PlayerState /\ image(t).ids = t.ids
                          /\ image(t).online => t.online \/ (online /\ t.ids \cap ids # {})
                          /\ ~online /\ t.ids \cap ids # {} => ~image(t).online
    BY DEF StatesOk, PlayerState
  <1> HIDE DEF image
  <1>3. StatesOk(r, gone)
    BY <1>1, <1>2 DEF StatesOk
  <1>4. Online(r) => online \/ Online(states)
    BY <1>1, <1>2 DEF Online
  <1>5. ~online => \A t \in r : t.online => t.ids \cap ids = {}
    BY <1>1, <1>2
  <1> QED
    BY <1>1, <1>3, <1>4, <1>5

LEMMA MarkedOffline ==
  ASSUME NEW states, NEW gone, StatesOk(states, gone)
  PROVE  LET r == Marked(states, {"name"}, FALSE)
         IN  /\ StatesOk(r, gone) /\ (states = {} => r = {})
             /\ \A t \in r : t.online => t.ids \cap {"name"} = {}
  <1> DEFINE ids == {"name"}
             r == Marked(states, ids, FALSE)
  <1>1. ids \in SUBSET Id
    BY DEF Id
  <1> HIDE DEF ids
  <1>2. r = Marked(states, ids, FALSE)
    OBVIOUS
  <1> HIDE DEF r
  <1>3. /\ StatesOk(r, gone) /\ (states = {} => r = {})
        /\ ~FALSE => \A t \in r : t.online => t.ids \cap ids = {}
    BY <1>1, <1>2, MarkedOk
  <1> QED
    BY <1>3 DEF r, ids

LEMMA PresentOk ==
  ASSUME NEW states, NEW gone, StatesOk(states, gone), NEW ids \in SUBSET Id, "name" \in ids
  PROVE  StatesOk(Present(states, gone, ids), gone \ ids)
  <1> DEFINE left == gone \ ids
             entries == Ensured(states, left, ids, TRUE)
             r == Marked(entries, ids, TRUE)
  <1>1. StatesOk(states, left) /\ ids \cap left = {} /\ ids \in (SUBSET Id) \ {{}}
    BY DEF StatesOk
  <1>2. Present(states, gone, ids) = r
    BY DEF Present
  <1> HIDE DEF left
  <1>3. StatesOk(entries, left) /\ \A t \in entries : t.ids \cap ids # {} => ids \subseteq t.ids
    BY <1>1, EnsuredOk
  <1> HIDE DEF entries
  <1>4. \A t \in entries : t.ids \cap ids # {} => "name" \in t.ids
    BY <1>3
  <1> HIDE DEF r
  <1>5. r = Marked(entries, ids, TRUE)
    BY DEF r
  <1>6. StatesOk(r, left)
    BY <1>3, <1>4, <1>5, MarkedOk
  <1> QED
    BY <1>2, <1>6 DEF left

LEMMA OfflineOk ==
  ASSUME NEW states, NEW gone, StatesOk(states, gone),
         NEW r, r = {[t EXCEPT !.online = FALSE] : t \in states}
  PROVE  StatesOk(r, gone) /\ ~Online(r) /\ (states = {} => r = {})
  <1> DEFINE image(t) == [t EXCEPT !.online = FALSE]
  <1>1. r = {image(t) : t \in states}
    OBVIOUS
  <1>2. \A t \in states : image(t) \in PlayerState /\ image(t).ids = t.ids /\ ~image(t).online
    BY DEF StatesOk, PlayerState
  <1> HIDE DEF image
  <1>3. StatesOk(r, gone)
    BY <1>1, <1>2 DEF StatesOk
  <1>4. ~Online(r)
    BY <1>1, <1>2 DEF Online
  <1> QED
    BY <1>1, <1>3, <1>4

LEMMA RemovedOk ==
  ASSUME NEW states, NEW gone, StatesOk(states, gone), NEW same \in SUBSET states
  PROVE  StatesOk(states \ same, gone \cup UNION {t.ids : t \in same})
  <1> DEFINE ids == UNION {t.ids : t \in same}
  <1>1. \A x : x \in ids <=> \E t \in same : x \in t.ids
    OBVIOUS
  <1>2. ids \subseteq Id
    BY <1>1 DEF StatesOk, PlayerState
  <1>3. \A t \in states \ same : t.ids \cap ids = {}
    BY <1>1 DEF StatesOk
  <1> HIDE DEF ids
  <1>4. StatesOk(states \ same, gone \cup ids)
    BY <1>2, <1>3 DEF StatesOk
  <1> QED
    BY <1>4 DEF ids

LEMMA StoredOk ==
  ASSUME NEW states, NEW gone, StatesOk(states, gone)
  PROVE  IdsOk({t.ids : t \in states}, gone)
  BY DEF StatesOk, IdsOk, PlayerState

LEMMA LoadedOk ==
  ASSUME NEW ids, NEW gone, IdsOk(ids, gone), NEW r, r = {[ids |-> i, online |-> FALSE] : i \in ids}
  PROVE  StatesOk(r, gone) /\ ~Online(r) /\ (ids = {} => r = {})
  <1> DEFINE image(i) == [ids |-> i, online |-> FALSE]
  <1>1. r = {image(i) : i \in ids}
    OBVIOUS
  <1>2. \A i \in ids : image(i) \in PlayerState /\ image(i).ids = i /\ ~image(i).online
    BY DEF IdsOk, PlayerState
  <1> HIDE DEF image
  <1>3. StatesOk(r, gone)
    BY <1>1, <1>2 DEF StatesOk, IdsOk
  <1>4. ~Online(r)
    BY <1>1, <1>2 DEF Online
  <1> QED
    BY <1>1, <1>3, <1>4

-----------------------------------------------------------------------------
(* Players: the table of the selected server, and the files of all.        *)

HistoryInv ==
  /\ playing \in [Server -> SUBSET Account] /\ met \in [Server -> SUBSET Account]
  /\ forgotten \in [Server -> [Account -> SUBSET Id]]
  /\ \A s \in Server : playing[s] \subseteq met[s]

\* The entries of a fit server s.
TableOk(s, a) ==
  /\ StatesOk(table[a], deleted[a]) /\ forgotten[s][a] \subseteq deleted[a]
  /\ table[a] # {} => a \in met[s]
  /\ Online(table[a]) => a \in playing[s]

TrackingOk(s, a) ==
  /\ IdsOk(tracking[s].states[a], tracking[s].deleted[a])
  /\ forgotten[s][a] \subseteq tracking[s].deleted[a]
  /\ tracking[s].states[a] # {} => a \in met[s]

TableInv ==
  /\ table \in [Account -> SUBSET PlayerState] /\ deleted \in [Account -> SUBSET Id]
  /\ \A a \in Account : TableOk(current, a)

TrackingInv ==
  /\ tracking = [s \in Server |-> tracking[s]]
  /\ \A s \in Server : tracking[s].deleted \in [Account -> SUBSET Id]
  /\ \A s \in Server, a \in Account : TrackingOk(s, a)

PlayerInv == current \in Server /\ HistoryInv /\ TableInv /\ TrackingInv

LEMMA InitPlayerInv == Init => PlayerInv
  <1> SUFFICES ASSUME Init PROVE PlayerInv
    OBVIOUS
  <1>1. current \in Server
    BY SelectionAssumption DEF Init, SharedInit
  <1>2. HistoryInv
    BY DEF Init, PlayersInit, HistoryInv, NoIds
  <1>3. TableInv
    BY <1>1 DEF Init, PlayersInit, TableInv, TableOk, StatesOk, Online, NoIds
  <1>4. TrackingInv
    BY DEF Init, PlayersInit, TrackingInv, TrackingOk, IdsOk, NoIds
  <1> QED
    BY <1>1, <1>2, <1>3, <1>4 DEF PlayerInv

LEMMA PlayersStay == ASSUME PlayerInv, UNCHANGED <<current, playerVars>> PROVE PlayerInv'
  BY DEF PlayerInv, HistoryInv, TableInv, TableOk, TrackingInv, TrackingOk, playerVars

MetGrows == \A s \in Server : met[s] \subseteq met'[s]

LEMMA TrackingStays ==
  ASSUME PlayerInv, UNCHANGED tracking, MetGrows,
         \A s \in Server, a \in Account : forgotten'[s][a] \subseteq forgotten[s][a]
  PROVE  TrackingInv'
  BY DEF PlayerInv, TrackingInv, TrackingOk, MetGrows

\* The file of the current server is written; it holds no id that is forgotten by then.
LEMMA TrackingSaved ==
  ASSUME PlayerInv, NEW states, NEW gone \in [Account -> SUBSET Id],
         tracking' = [tracking EXCEPT ![current] = Stored(states, gone)], MetGrows,
         \A s \in Server, a \in Account : s # current => forgotten'[s][a] \subseteq forgotten[s][a],
         \A a \in Account : /\ StatesOk(states[a], gone[a])
                            /\ forgotten'[current][a] \subseteq gone[a]
                            /\ states[a] # {} => a \in met'[current]
  PROVE  TrackingInv'
  <1>0. current \in Server /\ TrackingInv
    BY DEF PlayerInv
  <1>1. /\ tracking'[current] = Stored(states, gone)
        /\ \A s \in Server : s # current => tracking'[s] = tracking[s]
        /\ tracking' = [s \in Server |-> tracking'[s]]
    BY <1>0 DEF TrackingInv
  <1>2. /\ tracking'[current].deleted = gone
        /\ \A a \in Account : tracking'[current].states[a] = {t.ids : t \in states[a]}
    BY <1>1 DEF Stored
  <1>3. \A s \in Server, a \in Account : s = current => TrackingOk(s, a)'
    <2> SUFFICES ASSUME NEW a \in Account
                 PROVE  /\ IdsOk(tracking'[current].states[a], gone[a])
                        /\ tracking'[current].states[a] # {} => a \in met'[current]
      BY <1>2 DEF TrackingOk
    <2>1. IdsOk({t.ids : t \in states[a]}, gone[a])
      BY StoredOk
    <2> QED
      BY <1>2, <2>1
  <1>4. \A s \in Server, a \in Account : s # current => TrackingOk(s, a)'
    BY <1>0, <1>1 DEF TrackingInv, TrackingOk, MetGrows
  <1> QED
    BY <1>0, <1>1, <1>2, <1>3, <1>4 DEF TrackingInv, TrackingOk

LEMMA LeavingSaves ==
  ASSUME PlayerInv, SavedOnLeaving, UNCHANGED <<met, forgotten>> PROVE TrackingInv'
  <1>1. /\ deleted \in [Account -> SUBSET Id] /\ MetGrows /\ current \in Server
        /\ \A a \in Account : TableOk(current, a)
    BY DEF PlayerInv, TableInv, MetGrows
  <1>2. CASE UNCHANGED tracking
    BY <1>1, <1>2, TrackingStays
  <1>3. CASE tracking' = [tracking EXCEPT ![current] = Stored(table, deleted)]
    BY <1>1, <1>3, TrackingSaved DEF TableOk
  <1> QED
    BY <1>2, <1>3 DEF SavedOnLeaving

\* What is loaded is what the file of the server says, and nobody is online.
LEMMA LoadingFits ==
  ASSUME NEW s \in Server, current' = s, TrackingInv', PlayerStatesLoad(s) PROVE TableInv'
  <1>1. /\ deleted' = tracking'[s].deleted /\ deleted' \in [Account -> SUBSET Id]
        /\ table' = [a \in Account |-> {[ids |-> i, online |-> FALSE] : i \in tracking'[s].states[a]}]
    BY DEF TrackingInv, PlayerStatesLoad
  <1>2. \A a \in Account : TableOk(s, a)'
    <2> SUFFICES ASSUME NEW a \in Account PROVE TableOk(s, a)'
      OBVIOUS
    <2>1. TrackingOk(s, a)'
      BY DEF TrackingInv
    <2>2. table'[a] = {[ids |-> i, online |-> FALSE] : i \in tracking'[s].states[a]}
      BY <1>1
    <2>3. /\ StatesOk(table'[a], tracking'[s].deleted[a]) /\ ~Online(table'[a])
          /\ tracking'[s].states[a] = {} => table'[a] = {}
      BY <2>1, <2>2, LoadedOk DEF TrackingOk
    <2> QED
      BY <1>1, <2>1, <2>3 DEF TrackingOk, TableOk
  <1>3. table' \in [Account -> SUBSET PlayerState]
    BY <1>1, <1>2 DEF TableOk, StatesOk
  <1> QED
    BY <1>1, <1>2, <1>3 DEF TableInv

LEMMA SelectionPlayers == ASSUME PlayerInv, NEW s \in Server, SelectServer(s) PROVE PlayerInv'
  <1>1. /\ current' = s /\ SavedOnLeaving /\ PlayerStatesLoad(s)
        /\ UNCHANGED <<playing, met, forgotten>>
    BY DEF SelectServer, PlayersSelected
  <1>2. TrackingInv' /\ TableInv'
    BY <1>1, LeavingSaves, LoadingFits
  <1> QED
    BY <1>1, <1>2 DEF PlayerInv, HistoryInv

LEMMA StartingPlayers ==
  ASSUME PlayerInv, ProgramStartsAnew, PlayersLost \/ PlayersClosed PROVE PlayerInv'
  <1>1. /\ current' = First /\ First \in Server
        /\ UNCHANGED tracking \/ SavedOnLeaving
        /\ PlayerStatesLoad(First) /\ playing' = [s \in Server |-> {}]
        /\ UNCHANGED <<met, forgotten>>
    BY SelectionAssumption DEF ProgramStartsAnew, PlayersLost, PlayersClosed, PlayersFresh
  <1>2. TrackingInv' /\ TableInv'
    BY <1>1, LeavingSaves, LoadingFits DEF SavedOnLeaving
  <1> QED
    BY <1>1, <1>2 DEF PlayerInv, HistoryInv

\* The entries of the accounts change, each to some that fit.
LEMMA TableFits ==
  ASSUME PlayerInv, UNCHANGED current, table' = [a \in Account |-> table'[a]],
         deleted' \in [Account -> SUBSET Id],
         \A a \in Account : TableOk(current, a)'
  PROVE  TableInv'
  <1>1. \A a \in Account : table'[a] \subseteq PlayerState
    BY DEF TableOk, StatesOk
  <1>2. table' \in [Account -> SUBSET PlayerState]
    BY <1>1
  <1> QED
    BY <1>2 DEF TableInv

LEMMA TableKept ==
  ASSUME PlayerInv, UNCHANGED <<current, table, deleted>>, MetGrows,
         \A a \in Account : /\ a \in playing[current] => a \in playing'[current]
                            /\ forgotten'[current][a] \subseteq forgotten[current][a]
  PROVE  TableInv'
  BY DEF PlayerInv, TableInv, TableOk, MetGrows

-----------------------------------------------------------------------------
(* Players: lines of the log, timers and the user.                         *)

\* One account's entries change.
LEMMA OneTable ==
  ASSUME PlayerInv, UNCHANGED current, NEW a \in Account, NEW entries, NEW gone \in SUBSET Id,
         table' = [table EXCEPT ![a] = entries], deleted' = [deleted EXCEPT ![a] = gone],
         MetGrows, StatesOk(entries, gone), forgotten'[current][a] \subseteq gone,
         entries # {} => a \in met'[current], Online(entries) => a \in playing'[current],
         \A b \in Account : b # a => /\ b \in playing[current] => b \in playing'[current]
                                     /\ forgotten'[current][b] \subseteq forgotten[current][b]
  PROVE  TableInv'
  <1>1. /\ table' = [b \in Account |-> table'[b]] /\ deleted' \in [Account -> SUBSET Id]
        /\ table'[a] = entries /\ deleted'[a] = gone
        /\ \A b \in Account : b # a => table'[b] = table[b] /\ deleted'[b] = deleted[b]
    BY DEF PlayerInv, TableInv
  <1>2. \A b \in Account : b # a => TableOk(current, b)'
    BY <1>1 DEF PlayerInv, TableInv, TableOk, MetGrows
  <1>3. \A b \in Account : b = a => TableOk(current, b)'
    BY <1>1 DEF TableOk
  <1> QED
    BY <1>1, <1>2, <1>3, TableFits

\* Fewer ids are forgotten of one account.
LEMMA SeenFits ==
  ASSUME HistoryInv, NEW s \in Server, NEW a \in Account, NEW ids,
         forgotten' = [forgotten EXCEPT ![s][a] = forgotten[s][a] \ ids]
  PROVE  /\ forgotten' \in [Server -> [Account -> SUBSET Id]]
         /\ forgotten'[s][a] = forgotten[s][a] \ ids
         /\ \A t \in Server, b \in Account : forgotten'[t][b] \subseteq forgotten[t][b]
  <1> DEFINE seen == [forgotten[s] EXCEPT ![a] = forgotten[s][a] \ ids]
  <1>1. forgotten \in [Server -> [Account -> SUBSET Id]]
    BY DEF HistoryInv
  <1>2. /\ seen \in [Account -> SUBSET Id] /\ seen[a] = forgotten[s][a] \ ids
        /\ \A b \in Account : seen[b] \subseteq forgotten[s][b]
    BY <1>1
  <1>3. forgotten' = [forgotten EXCEPT ![s] = seen]
    OBVIOUS
  <1> HIDE DEF seen
  <1> QED
    BY <1>1, <1>2, <1>3

LEMMA ConnectPlayers ==
  ASSUME PlayerInv, UNCHANGED current, NEW s \in Server, NEW a \in Account,
         NEW ids \in {{"name"}, Id}, PlayerConnects(s, a, ids)
  PROVE  PlayerInv'
  <1>1. /\ HistoryInv' /\ MetGrows /\ a \in met'[s]
        /\ UNCHANGED <<deleted, tracking, playing, forgotten>>
    BY DEF PlayerConnects, Named, PlayerInv, HistoryInv, MetGrows
  <1>2. TrackingInv'
    BY <1>1, TrackingStays
  <1>3. CASE s = current
    <2> DEFINE entries == Ensured(table[a], deleted[a], ids, TRUE)
    <2>1. table' = [table EXCEPT ![a] = entries] /\ deleted' = [deleted EXCEPT ![a] = deleted[a]]
      BY <1>1, <1>3 DEF PlayerConnects, Heard, PlayerInv, TableInv
    <2>2. TableOk(current, a) /\ deleted[a] \in SUBSET Id
      BY DEF PlayerInv, TableInv
    <2>3. StatesOk(entries, deleted[a]) /\ (Online(entries) => Online(table[a]))
      BY <2>2, EnsuredFits DEF TableOk
    <2> HIDE DEF entries
    <2> QED
      BY <1>1, <1>2, <1>3, <2>1, <2>2, <2>3, OneTable DEF PlayerInv, TableOk
  <1>4. CASE s # current
    <2>1. UNCHANGED table
      BY <1>4 DEF PlayerConnects, Heard
    <2> QED
      BY <1>1, <1>2, <2>1, TableKept DEF PlayerInv
  <1> QED
    BY <1>3, <1>4

LEMMA JoinPlayers ==
  ASSUME PlayerInv, UNCHANGED current, NEW s \in Server, NEW a \in Account, PlayerJoins(s, a)
  PROVE  PlayerInv'
  <1>0. PlayerInv /\ HistoryInv
    BY DEF PlayerInv
  <1>1. /\ met' = [met EXCEPT ![s] = met[s] \cup {a}]
        /\ playing' = [playing EXCEPT ![s] = playing[s] \cup {a}]
        /\ UNCHANGED tracking
        /\ IF s = current
           THEN /\ deleted' = [deleted EXCEPT ![a] = deleted[a] \ {"name"}]
                /\ table' = [table EXCEPT ![a] = Present(table[a], deleted[a], {"name"})]
                /\ forgotten' = [forgotten EXCEPT ![s][a] = forgotten[s][a] \ {"name"}]
           ELSE UNCHANGED <<deleted, table, forgotten>>
    BY DEF PlayerJoins, Named, Heard, SeenAgain
  <1>2. /\ MetGrows /\ a \in met'[s] /\ a \in playing'[s]
        /\ \A t \in Server : playing[t] \subseteq playing'[t]
    BY <1>0, <1>1 DEF HistoryInv, MetGrows
  <1>3. /\ forgotten' \in [Server -> [Account -> SUBSET Id]]
        /\ \A t \in Server, b \in Account : forgotten'[t][b] \subseteq forgotten[t][b]
        /\ s = current => forgotten'[s][a] = forgotten[s][a] \ {"name"}
    <2>1. CASE s = current
      <3>1. forgotten' = [forgotten EXCEPT ![s][a] = forgotten[s][a] \ {"name"}]
        BY <1>1, <2>1
      <3> QED
        BY <1>0, <3>1, SeenFits
    <2>2. CASE s # current
      BY <1>0, <1>1, <2>2 DEF HistoryInv
    <2> QED
      BY <2>1, <2>2
  <1>4. HistoryInv'
    <2>1. playing' \in [Server -> SUBSET Account] /\ met' \in [Server -> SUBSET Account]
      BY <1>0, <1>1 DEF HistoryInv
    <2>2. \A t \in Server : playing'[t] \subseteq met'[t]
      BY <1>0, <1>1 DEF HistoryInv
    <2> QED
      BY <1>3, <2>1, <2>2 DEF HistoryInv
  <1>5. TrackingInv'
    BY <1>1, <1>2, <1>3, TrackingStays
  <1>6. CASE s = current
    <2> DEFINE entries == Present(table[a], deleted[a], {"name"})
               gone == deleted[a] \ {"name"}
    <2>1. TableOk(current, a) /\ gone \in SUBSET Id
      BY DEF PlayerInv, TableInv
    <2>2. StatesOk(entries, gone)
      BY <2>1, PresentOk DEF TableOk, Id
    <2>3. forgotten'[current][a] \subseteq gone
      BY <1>3, <1>6, <2>1 DEF TableOk
    <2>4. table' = [table EXCEPT ![a] = entries] /\ deleted' = [deleted EXCEPT ![a] = gone]
      BY <1>1, <1>6
    <2> HIDE DEF entries, gone
    <2>5. TableInv'
      BY <1>2, <1>3, <1>6, <2>1, <2>2, <2>3, <2>4, OneTable
    <2> QED
      BY <1>4, <1>5, <2>5 DEF PlayerInv
  <1>7. CASE s # current
    <2>1. UNCHANGED <<table, deleted>>
      BY <1>1, <1>7
    <2>2. TableInv'
      BY <1>0, <1>2, <1>3, <2>1, TableKept DEF PlayerInv
    <2> QED
      BY <1>4, <1>5, <2>2 DEF PlayerInv
  <1> QED
    BY <1>6, <1>7

\* An entry that is online has the name, by which it is taken offline.
LEMMA LeavePlayers ==
  ASSUME PlayerInv, UNCHANGED current, NEW s \in Server, NEW a \in Account, PlayerLeaves(s, a)
  PROVE  PlayerInv'
  <1>1. /\ HistoryInv' /\ MetGrows
        /\ \A b \in Account : b # a /\ b \in playing[current] => b \in playing'[current]
        /\ s # current => playing'[current] = playing[current]
        /\ UNCHANGED <<deleted, tracking, met, forgotten>>
    BY DEF PlayerLeaves, PlayerInv, HistoryInv, MetGrows
  <1>2. TrackingInv'
    BY <1>1, TrackingStays
  <1>3. CASE s = current
    <2> DEFINE entries == IF "name" \in deleted[a] THEN table[a]
                          ELSE Marked(table[a], {"name"}, FALSE)
    <2>1. table' = [table EXCEPT ![a] = entries] /\ deleted' = [deleted EXCEPT ![a] = deleted[a]]
      BY <1>1, <1>3 DEF PlayerLeaves, Heard, PlayerInv, TableInv
    <2>2. TableOk(current, a) /\ deleted[a] \in SUBSET Id
      BY DEF PlayerInv, TableInv
    <2>3. StatesOk(entries, deleted[a]) /\ ~Online(entries) /\ (table[a] = {} => entries = {})
      <3>1. CASE "name" \in deleted[a]
        BY <2>2, <3>1 DEF TableOk, StatesOk, Online
      <3>2. CASE "name" \notin deleted[a]
        <4> DEFINE r == Marked(table[a], {"name"}, FALSE)
        <4>1. /\ StatesOk(r, deleted[a]) /\ (table[a] = {} => r = {})
              /\ \A t \in r : t.online => t.ids \cap {"name"} = {}
          BY <2>2, MarkedOffline DEF TableOk
        <4>2. entries = r
          BY <3>2
        <4> HIDE DEF r, entries
        <4>3. ~Online(r)
          BY <4>1 DEF StatesOk, Online
        <4> QED
          BY <4>1, <4>2, <4>3
      <3> QED
        BY <3>1, <3>2
    <2> HIDE DEF entries
    <2>4. TableInv'
      BY <1>1, <2>1, <2>2, <2>3, OneTable DEF TableOk
    <2> QED
      BY <1>1, <1>2, <2>4 DEF PlayerInv
  <1>4. CASE s # current
    <2>1. UNCHANGED table
      BY <1>4 DEF PlayerLeaves, Heard
    <2> QED
      BY <1>1, <1>2, <1>4, <2>1, TableKept DEF PlayerInv
  <1> QED
    BY <1>3, <1>4

LEMMA OfflineFits ==
  ASSUME PlayerInv, NEW a \in Account
  PROVE  /\ StatesOk(AllOffline[a], deleted[a]) /\ ~Online(AllOffline[a])
         /\ table[a] = {} => AllOffline[a] = {}
  <1>1. AllOffline[a] = {[t EXCEPT !.online = FALSE] : t \in table[a]}
    BY DEF AllOffline
  <1>2. StatesOk(table[a], deleted[a])
    BY DEF PlayerInv, TableInv, TableOk
  <1> QED
    BY <1>1, <1>2, OfflineOk

LEMMA OfflinePlayers ==
  ASSUME PlayerInv, UNCHANGED <<current, deleted, met, forgotten>>, table' = AllOffline
  PROVE  TableInv'
  <1>1. \A a \in Account : TableOk(current, a)
    BY DEF PlayerInv, TableInv
  <1>2. \A a \in Account : TableOk(current, a)'
    BY <1>1, OfflineFits DEF TableOk
  <1>3. table' = [a \in Account |-> table'[a]] /\ deleted' \in [Account -> SUBSET Id]
    BY DEF AllOffline, PlayerInv, TableInv
  <1> QED
    BY <1>2, <1>3, TableFits

\* A reply names only who is in the game.
LEMMA ReplyPlayers ==
  ASSUME PlayerInv, UNCHANGED current, NEW s \in Server, NEW listed \in SUBSET playing[s],
         PlayerListReply(s, listed)
  PROVE  PlayerInv'
  <1>1. /\ s = current /\ UNCHANGED <<tracking, playing, met>>
        /\ deleted' = [a \in Account |-> IF a \in listed THEN {} ELSE deleted[a]]
        /\ table' = [a \in Account |->
                       IF a \in listed THEN Present(table[a], deleted[a], Id)
                       ELSE IF listed = playing[s] THEN AllOffline[a] ELSE table[a]]
        /\ forgotten' = [forgotten EXCEPT ![s] =
                           [a \in Account |-> IF a \in listed THEN {} ELSE forgotten[s][a]]]
    BY DEF PlayerListReply, Heard
  <1>2. /\ HistoryInv' /\ MetGrows
        /\ \A t \in Server, a \in Account : forgotten'[t][a] \subseteq forgotten[t][a]
        /\ \A a \in Account : a \in listed => forgotten'[s][a] = {}
    BY <1>1 DEF PlayerInv, HistoryInv, MetGrows
  <1>3. TrackingInv'
    BY <1>1, <1>2, TrackingStays
  <1>4. ASSUME NEW a \in Account, a \in listed PROVE TableOk(s, a)'
    <2>1. table'[a] = Present(table[a], deleted[a], Id) /\ deleted'[a] = {}
      BY <1>1, <1>4
    <2>2. StatesOk(table[a], deleted[a]) /\ deleted[a] \ Id = {}
      BY DEF PlayerInv, TableInv, TableOk
    <2>3. StatesOk(table'[a], {})
      <3>1. StatesOk(Present(table[a], deleted[a], Id), deleted[a] \ Id)
        BY <2>2, PresentOk DEF Id
      <3> QED
        BY <2>1, <2>2, <3>1
    <2>4. a \in playing[s] /\ a \in met[s]
      BY <1>4 DEF PlayerInv, HistoryInv
    <2> QED
      BY <1>1, <1>2, <1>4, <2>1, <2>3, <2>4 DEF TableOk
  <1>5. ASSUME NEW a \in Account, a \notin listed PROVE TableOk(s, a)'
    <2>1. table'[a] \in {table[a], AllOffline[a]} /\ deleted'[a] = deleted[a]
      BY <1>1, <1>5
    <2>2. TableOk(s, a)
      BY <1>1 DEF PlayerInv, TableInv
    <2>3. /\ StatesOk(table'[a], deleted[a]) /\ (Online(table'[a]) => Online(table[a]))
          /\ table[a] = {} => table'[a] = {}
      BY <2>1, <2>2, OfflineFits DEF TableOk
    <2> QED
      BY <1>1, <1>2, <2>1, <2>2, <2>3 DEF TableOk
  <1>6. TableInv'
    <2>1. table' = [a \in Account |-> table'[a]] /\ deleted' \in [Account -> SUBSET Id]
      BY <1>1 DEF PlayerInv, TableInv
    <2>2. \A a \in Account : TableOk(current, a)'
      BY <1>1, <1>4, <1>5 DEF TableOk
    <2> QED
      BY <2>1, <2>2, TableFits
  <1> QED
    BY <1>2, <1>3, <1>6 DEF PlayerInv

LEMMA SessionPlayers ==
  ASSUME PlayerInv, UNCHANGED current, NEW s \in Server, SessionStarted(s) PROVE PlayerInv'
  <1>1. UNCHANGED <<deleted, tracking, playing, met, forgotten>>
    BY DEF SessionStarted
  <1>2. TrackingInv' /\ HistoryInv' /\ MetGrows
    BY <1>1 DEF PlayerInv, TrackingInv, TrackingOk, HistoryInv, MetGrows
  <1>3. CASE table' = AllOffline
    BY <1>1, <1>2, <1>3, OfflinePlayers DEF PlayerInv
  <1>4. CASE table' = table
    BY <1>1, <1>2, <1>4, TableKept DEF PlayerInv
  <1> QED
    BY <1>3, <1>4 DEF SessionStarted

\* What is saved is the table as it is by then.
LEMMA SavingTracks ==
  ASSUME PlayerInv, UNCHANGED <<current, met, forgotten>>, TableInv', NEW toSave,
         PlayerStatesSave(current, toSave)
  PROVE  TrackingInv'
  <1>1. MetGrows
    BY DEF MetGrows
  <1>2. CASE UNCHANGED tracking
    BY <1>1, <1>2, TrackingStays
  <1>3. CASE tracking' = [tracking EXCEPT ![current] = Stored(table', deleted')]
    BY <1>1, <1>3, TrackingSaved DEF TableInv, TableOk
  <1> QED
    BY <1>2, <1>3 DEF PlayerStatesSave

LEMMA GonePlayers ==
  ASSUME PlayerInv, UNCHANGED current, NEW s \in Server, PlayersGone(s) PROVE PlayerInv'
  <1>1. /\ UNCHANGED <<deleted, met, forgotten>>
        /\ HistoryInv' /\ MetGrows
        /\ s # current => playing'[current] = playing[current]
    BY DEF PlayersGone, PlayerInv, HistoryInv, MetGrows
  <1>2. CASE s = current
    <2>1. table' = AllOffline /\ PlayerStatesSave(current, unsaved \/ table' # table)
      BY <1>2 DEF PlayersGone
    <2>2. TableInv'
      BY <1>1, <2>1, OfflinePlayers
    <2>3. TrackingInv'
      BY <1>1, <2>1, <2>2, SavingTracks
    <2> QED
      BY <1>1, <2>2, <2>3 DEF PlayerInv
  <1>3. CASE s # current
    <2>1. UNCHANGED <<table, tracking>>
      BY <1>3 DEF PlayersGone, savedVars
    <2> QED
      BY <1>1, <1>3, <2>1, TableKept, TrackingStays DEF PlayerInv
  <1> QED
    BY <1>2, <1>3

LEMMA FlushedPlayers == ASSUME PlayerInv, UNCHANGED current, PlayersFlushed PROVE PlayerInv'
  <1>1. /\ UNCHANGED <<deleted, playing, met, forgotten>>
        /\ table' = table \/ table' = AllOffline
        /\ PlayerStatesSave(current, unsaved \/ table' # table)
    BY DEF PlayersFlushed
  <1>2. HistoryInv' /\ MetGrows
    BY <1>1 DEF PlayerInv, HistoryInv, MetGrows
  <1>3. TableInv'
    BY <1>1, <1>2, TableKept, OfflinePlayers
  <1>4. TrackingInv'
    BY <1>1, <1>3, SavingTracks
  <1> QED
    BY <1>2, <1>3, <1>4 DEF PlayerInv

\* Files add entries of accounts they know, and none that is online.
LEMMA IngestedFits ==
  ASSUME PlayerInv, NEW states, NEW gone, NEW toSave, Relisted(states, gone, toSave),
         \A a \in Account : StatesOk(states[a], gone[a])
  PROVE  /\ table' = [a \in Account |-> table'[a]]
         /\ \A a \in Account : /\ StatesOk(table'[a], gone[a])
                               /\ Online(table'[a]) => Online(states[a])
                               /\ table'[a] # {} => states[a] # {} \/ a \in met[current]
  <1>1. PICK files \in FilesOf(current) : /\ InFiles(current, files)
                                          /\ table' = Ingested(states, gone, files)
    BY DEF Relisted
  <1>2. table' = [a \in Account |-> table'[a]]
    BY <1>1 DEF Ingested
  <1>3. ASSUME NEW a \in Account
        PROVE  /\ StatesOk(table'[a], gone[a])
               /\ Online(table'[a]) => Online(states[a])
               /\ table'[a] # {} => states[a] # {} \/ a \in met[current]
    <2>1. files[a] \in {{}, {"uuid"}, Id} /\ (files[a] # {} => a \in met[current])
      BY <1>1 DEF FilesOf, InFiles
    <2>2. table'[a] = IF files[a] = {} THEN states[a]
                      ELSE Ensured(states[a], gone[a], files[a], TRUE)
      BY <1>1 DEF Ingested
    <2>3. CASE files[a] = {}
      BY <2>2, <2>3
    <2>4. CASE files[a] # {}
      BY <2>1, <2>2, <2>4, EnsuredFits
    <2> QED
      BY <2>3, <2>4
  <1> QED
    BY <1>2, <1>3

LEMMA RelistedPlayers ==
  ASSUME PlayerInv, UNCHANGED <<current, deleted, tracking, playing, met, forgotten>>,
         NEW toSave, Relisted(table, deleted, toSave)
  PROVE  PlayerInv'
  <1>1. \A a \in Account : TableOk(current, a)
    BY DEF PlayerInv, TableInv
  <1>2. HistoryInv' /\ TrackingInv'
    BY DEF PlayerInv, HistoryInv, TrackingInv, TrackingOk
  <1>3. /\ table' = [a \in Account |-> table'[a]]
        /\ \A a \in Account : /\ StatesOk(table'[a], deleted[a])
                              /\ Online(table'[a]) => Online(table[a])
                              /\ table'[a] # {} => table[a] # {} \/ a \in met[current]
    BY <1>1, IngestedFits DEF TableOk
  <1>4. \A a \in Account : TableOk(current, a)'
    BY <1>1, <1>3 DEF TableOk
  <1>5. TableInv'
    BY <1>3, <1>4, TableFits DEF PlayerInv, TableInv
  <1> QED
    BY <1>2, <1>5 DEF PlayerInv

\* Removed ids are deleted ones from then on, and so are those of a saved removal.
LEMMA DeletionPlayers ==
  ASSUME PlayerInv, UNCHANGED <<current, playing, met>>, NEW d, PlayerDeleted(d)
  PROVE  PlayerInv'
  <1> DEFINE a == d.account
             same == {t \in table[a] : t.ids \cap d.ids # {}}
             kept == [table EXCEPT ![a] = table[a] \ same]
             ids == UNION {t.ids : t \in same}
  <1>1. CASE same = {}
    <2>1. UNCHANGED <<table, deleted, unsaved, tracking, forgotten>>
      BY <1>1 DEF PlayerDeleted, TableStays
    <2> QED
      BY <2>1, PlayersStay DEF playerVars
  <1>2. CASE same # {}
    <2>1. /\ deleted' = [deleted EXCEPT ![a] = deleted[a] \cup ids]
          /\ \/ /\ tracking' = [tracking EXCEPT ![current] = Stored(kept, deleted')]
                /\ forgotten' = [forgotten EXCEPT ![current][a] = forgotten[current][a] \cup ids]
                /\ Relisted(kept, deleted', FALSE)
             \/ UNCHANGED <<tracking, forgotten>> /\ Relisted(kept, deleted', TRUE)
      BY <1>2 DEF PlayerDeleted
    <2>2. /\ current \in Server /\ MetGrows
          /\ HistoryInv /\ \A b \in Account : TableOk(current, b)
          /\ table \in [Account -> SUBSET PlayerState] /\ deleted \in [Account -> SUBSET Id]
      BY DEF PlayerInv, TableInv, MetGrows
    <2>3. a \in Account => StatesOk(table[a] \ same, deleted[a] \cup ids)
      BY <2>2, RemovedOk DEF TableOk
    <2> HIDE DEF same, ids, a
    <2>4. /\ \A b \in Account : b # a => kept[b] = table[b] /\ deleted'[b] = deleted[b]
          /\ a \in Account => kept[a] = table[a] \ same /\ deleted'[a] = deleted[a] \cup ids
          /\ kept = [b \in Account |-> kept[b]] /\ deleted' = [b \in Account |-> deleted'[b]]
      BY <2>1, <2>2
    <2> HIDE DEF kept
    <2>5. \A b \in Account : /\ StatesOk(kept[b], deleted'[b]) /\ kept[b] \subseteq table[b]
                             /\ deleted[b] \subseteq deleted'[b]
      BY <2>2, <2>3, <2>4 DEF TableOk
    <2>6. deleted' \in [Account -> SUBSET Id]
      BY <2>4, <2>5 DEF StatesOk
    <2>7. /\ forgotten' \in [Server -> [Account -> SUBSET Id]]
          /\ \A s \in Server : s # current => forgotten'[s] = forgotten[s]
          /\ \A b \in Account : forgotten'[current][b] \subseteq deleted'[b]
      <3>1. CASE UNCHANGED forgotten
        BY <2>2, <2>5, <3>1 DEF TableOk, HistoryInv
      <3>2. CASE forgotten' = [forgotten EXCEPT ![current][a] = forgotten[current][a] \cup ids]
        <4> DEFINE more == [forgotten[current] EXCEPT ![a] = forgotten[current][a] \cup ids]
        <4>1. /\ more = [b \in Account |-> more[b]]
              /\ \A b \in Account : more[b] \subseteq deleted'[b]
          BY <2>2, <2>4, <2>5 DEF TableOk, HistoryInv
        <4>2. forgotten' = [forgotten EXCEPT ![current] = more]
          BY <3>2
        <4> HIDE DEF more
        <4>3. more \in [Account -> SUBSET Id]
          BY <2>6, <4>1
        <4> QED
          BY <2>2, <4>1, <4>2, <4>3 DEF HistoryInv
      <3> QED
        BY <2>1, <3>1, <3>2
    <2>8. HistoryInv'
      BY <2>2, <2>7 DEF HistoryInv
    <2>9. /\ table' = [b \in Account |-> table'[b]]
          /\ \A b \in Account : /\ StatesOk(table'[b], deleted'[b])
                                /\ Online(table'[b]) => Online(kept[b])
                                /\ table'[b] # {} => kept[b] # {} \/ b \in met[current]
      BY <2>1, <2>5, IngestedFits
    <2>10. \A b \in Account : TableOk(current, b)'
      BY <2>2, <2>5, <2>7, <2>9 DEF TableOk, Online
    <2>11. TableInv'
      BY <2>6, <2>9, <2>10, TableFits
    <2>12. TrackingInv'
      <3>1. \A b \in Account : /\ StatesOk(kept[b], deleted'[b])
                               /\ kept[b] # {} => b \in met'[current]
        BY <2>2, <2>5 DEF TableOk
      <3>2. CASE tracking' = [tracking EXCEPT ![current] = Stored(kept, deleted')]
        BY <2>2, <2>6, <2>7, <3>1, <3>2, TrackingSaved
      <3>3. CASE UNCHANGED <<tracking, forgotten>>
        BY <2>2, <3>3, TrackingStays
      <3> QED
        BY <2>1, <3>2, <3>3
    <2> QED
      BY <2>2, <2>8, <2>11, <2>12 DEF PlayerInv
  <1> QED
    BY <1>1, <1>2

LEMMA UserPlayers == ASSUME PlayerInv, UNCHANGED current, PlayersUser PROVE PlayerInv'
  <1>1. ASSUME NEW a \in Account, NEW t \in table[a], PlayerOpened(a, t) PROVE PlayerInv'
    BY <1>1, PlayersStay DEF PlayerOpened
  <1>2. CASE DetailsClosed \/ RemovalAsked \/ ReasonAsked
    BY <1>2, PlayersStay DEF DetailsClosed, RemovalAsked, ReasonAsked, Asks
  <1>3. CASE CommandSent
    BY <1>3, RelistedPlayers DEF CommandSent
  <1>4. ASSUME NEW yes \in BOOLEAN, ReasonGiven(yes) PROVE PlayerInv'
    <2>1. UNCHANGED <<deleted, tracking, forgotten, playing, met>>
      BY <1>4 DEF ReasonGiven, TableStays
    <2>2. UNCHANGED <<table, unsaved>> \/ \E toSave : Relisted(table, deleted, toSave)
      BY <1>4 DEF ReasonGiven, TableStays
    <2> QED
      BY <2>1, <2>2, PlayersStay, RelistedPlayers DEF playerVars
  <1>5. ASSUME NEW yes \in BOOLEAN, RemovalAnswered(yes) PROVE PlayerInv'
    <2>1. UNCHANGED <<playing, met>>
      BY <1>5 DEF RemovalAnswered
    <2>2. UNCHANGED <<table, deleted, unsaved, tracking, forgotten>> \/ PlayerDeleted(Head(dialogs))
      BY <1>5 DEF RemovalAnswered, TableStays
    <2> QED
      BY <2>1, <2>2, PlayersStay, DeletionPlayers DEF playerVars
  <1> QED
    BY <1>1, <1>2, <1>3, <1>4, <1>5 DEF PlayersUser

LEMMA ToldPlayers == ASSUME PlayerInv, UNCHANGED current, PlayersTold PROVE PlayerInv'
  <1>1. CASE PlayerListRefreshed
    BY <1>1, RelistedPlayers DEF PlayerListRefreshed
  <1> QED
    BY <1>1, ConnectPlayers, JoinPlayers, LeavePlayers, ReplyPlayers, FlushedPlayers DEF PlayersTold

LEMMA PageKeepsServer == ASSUME PlayersStep PROVE UNCHANGED current
  BY DEF PlayersStep, PlayersUser, PlayerOpened, DetailsClosed, RemovalAsked, ReasonAsked, Asks,
     CommandSent, ReasonGiven, RemovalAnswered, OthersStay, selectionVars

LEMMA ServerPlayers == ASSUME PlayerInv, ServerStep PROVE PlayerInv'
  <1>1. UNCHANGED current
    BY DEF ServerStep, ServerStarts, ServerExits, RestartEnds, OthersMaintain, selectionVars
  <1> QED
    BY <1>1, SessionPlayers, GonePlayers, PlayersStay DEF ServerStep

LEMMA OtherPagesPlayers == ASSUME PlayerInv, WorldsStep \/ DomainsStep PROVE PlayerInv'
  <1>1. CASE WorldsStep
    <2>1. UNCHANGED current
      BY <1>1 DEF WorldsStep, WorldsUser, WorldsThread, WorldsRefreshed, MenuOpened,
         ImportClicked, ImportDismissed, RemoveClicked, RemoveConfirmed, ImportSelected,
         WorldDropped, MenuClosed, RefreshAfterMenu, InventoryRead, InventoryFinished,
         WorldCopied, WorldMoved, RemovalChecked, WorldDeleted, OperationFinished,
         sharedVars, selectionVars
    <2> QED
      BY <1>1, <2>1, PlayersStay DEF WorldsStep
  <1>2. CASE DomainsStep
    <2>1. UNCHANGED current
      BY <1>2 DEF DomainsStep, DomainsUser, DomainsThread, DdnsTick, SyncNow, DomainSaved,
         DomainEntered, SyncDone, IntervalPasses, sharedVars, selectionVars
    <2> QED
      BY <1>2, <2>1, PlayersStay DEF DomainsStep
  <1> QED
    BY <1>1, <1>2

\* The settings page saves and discards, and may go on to another server.
LEMMA SettingsPlayers == ASSUME PlayerInv, FormInv, SettingsStep PROVE PlayerInv'
  <1>0. First \in Server /\ current \in Server /\ pending.server \in Server \cup {NoServer}
    BY SelectionAssumption DEF FormInv
  <1>1. ASSUME PagesStay PROVE PlayerInv'
    BY <1>1, PlayersStay DEF PagesStay, selectionVars
  <1>2. ASSUME NEW s \in Server, Lands(s) PROVE PlayerInv'
    BY <1>2, SelectionPlayers DEF Lands
  <1>3. ASSUME NEW restart, NEW goOn, Save(restart, goOn) PROVE PlayerInv'
    <2>1. PagesStay \/ \E s \in Server : Lands(s)
      BY <1>0, <1>3 DEF Save, NotSaved, Saved, StaysHere
    <2> QED
      BY <1>1, <1>2, <2>1
  <1>4. ASSUME Discard PROVE PlayerInv'
    <2>1. UNCHANGED <<current, playerVars>> \/ \E s \in Server : Lands(s)
      BY <1>0, <1>4 DEF Discard, selectionVars
    <2> QED
      BY <1>2, <2>1, PlayersStay
  <1>5. ASSUME NEW s \in Server, DetailsOpened(s) PROVE PlayerInv'
    BY <1>5, SelectionPlayers DEF DetailsOpened
  <1>6. ASSUME NEW f, Edited(f) PROVE PlayerInv'
    BY <1>6, PlayersStay DEF Edited, selectionVars
  <1>7. CASE \/ \E v \in Value : NameEdited(v)
             \/ \E v \in Value \cup {Invalid} : PortEdited(v)
             \/ SwitchFlipped
    BY <1>6, <1>7 DEF NameEdited, PortEdited, SwitchFlipped
  <1>8. CASE BackClicked \/ LeaveCancelled \/ ResetClicked \/ \E page \in Page : PageChosen(page)
    BY <1>1, <1>8 DEF BackClicked, LeaveCancelled, ResetClicked, PageChosen
  <1>9. CASE SaveClicked \/ RestartSaved \/ LeaveSaved
    BY <1>1, <1>3, <1>9 DEF SaveClicked, RestartSaved, LeaveSaved, StaysHere
  <1>10. CASE RestartDiscarded \/ LeaveDiscarded
    BY <1>4, <1>10 DEF RestartDiscarded, LeaveDiscarded
  <1>11. CASE GeneralSaved \/ \E reset \in BOOLEAN : ResetAnswered(reset)
    BY <1>11, PlayersStay DEF GeneralSaved, ResetAnswered, selectionVars
  <1> QED
    BY <1>5, <1>7, <1>8, <1>9, <1>10, <1>11 DEF SettingsStep

LEMMA ActivationPlayers ==
  ASSUME PlayerInv, FormInv, NEW s \in Server, ServerActivated(s) PROVE PlayerInv'
  <1>1. PagesStay \/ \E t \in Server : SelectServer(t)
    BY DEF ServerActivated, RowSelected, FormInv
  <1> QED
    BY <1>1, SelectionPlayers, PlayersStay DEF PagesStay, selectionVars

LEMMA NextPlayerInv == FormInv /\ PlayerInv /\ [Next]_vars => PlayerInv'
  <1> SUFFICES ASSUME FormInv, PlayerInv, [Next]_vars PROVE PlayerInv'
    OBVIOUS
  <1>1. CASE UNCHANGED vars
    BY <1>1, PlayersStay DEF vars, sharedVars, selectionVars
  <1>2. CASE CommandLine \/ MachineStops
    BY <1>2, StartingPlayers, ActivationPlayers DEF CommandLine, ProgramCloses, MachineStops
  <1>3. CASE PlayersStep
    BY <1>3, PageKeepsServer, UserPlayers, ToldPlayers DEF PlayersStep
  <1> QED
    BY <1>1, <1>2, <1>3, ServerPlayers, OtherPagesPlayers, SettingsPlayers DEF Next

LEMMA DataInv == Spec => [](FormInv /\ PlayerInv)
  <1>1. Init => FormInv /\ PlayerInv
    BY InitFormInv, InitPlayerInv
  <1>2. FormInv /\ PlayerInv /\ [Next]_vars => (FormInv /\ PlayerInv)'
    BY NextFormInv, NextPlayerInv
  <1> QED
    BY <1>1, <1>2, PTL DEF Spec

\* What belongs to one server never gets to another, for any number of servers
\* and accounts: forms, dialogs of unsaved changes and the thread's requests say
\* for which server they are, the table is saved before another is selected and
\* loaded from the file of that one, and lines of others are not heard.
THEOREM DataStays == Spec => []DataStaysWithServer
  <1>1. FormInv /\ PlayerInv => DataStaysWithServer
    <2> SUFFICES ASSUME FormInv, PlayerInv PROVE DataStaysWithServer
      OBVIOUS
    <2>1. \A s \in Server : \A r \in {record[s], file[s]} :
            r.name.server = s /\ r.port.server = s /\ r.domain.server = s
      BY DEF FormInv, Kept, Owned
    <2>2. \A s \in Server, a \in Account : tracking[s].states[a] # {} => a \in met[s]
      BY DEF PlayerInv, TrackingInv, TrackingOk
    <2>3. \A r \in request : r.server = r.domain.server
      BY DEF FormInv
    <2>4. \A a \in Account : \A t \in table[a] :
            a \in met[current] /\ (t.online => a \in playing[current])
      BY DEF PlayerInv, TableInv, TableOk, Online
    <2> QED
      BY <2>1, <2>2, <2>3, <2>4 DEF DataStaysWithServer
  <1> QED
    BY <1>1, DataInv, PTL

\* A deletion stands, for any number of accounts: the ids that are forgotten are
\* among the deleted ones in memory and in the file, with which no entry shares
\* an id, and only what the log says of a player in the game takes them back.
THEOREM DeletionStands == Spec => []DeletedStaysDeleted
  <1>1. PlayerInv => DeletedStaysDeleted
    <2> SUFFICES ASSUME PlayerInv, NEW a \in Account
                 PROVE  /\ \A t \in table[a] : t.ids \cap forgotten[current][a] = {}
                        /\ \A t, u \in table[a] : t # u => t.ids \cap u.ids = {}
                        /\ \A s \in Server : \A ids \in tracking[s].states[a] :
                             ids \cap forgotten[s][a] = {}
      BY DEF DeletedStaysDeleted
    <2>1. TableOk(current, a) /\ \A s \in Server : TrackingOk(s, a)
      BY DEF PlayerInv, TableInv, TrackingInv
    <2>2. /\ \A t \in table[a] : t.ids \cap forgotten[current][a] = {}
          /\ \A t, u \in table[a] : t # u => t.ids \cap u.ids = {}
      BY <2>1 DEF TableOk, StatesOk
    <2>3. \A s \in Server : \A ids \in tracking[s].states[a] : ids \cap forgotten[s][a] = {}
      BY <2>1 DEF TrackingOk, IdsOk
    <2> QED
      BY <2>2, <2>3
  <1> QED
    BY <1>1, DataInv, PTL

-----------------------------------------------------------------------------
(* Dialogs: one of the Worlds page is the first that was opened, since it  *)
(* is opened from the window itself.                                       *)

Row == [server : Server, folder : Folder, world : World]
PageDialog ==
  [kind : {"leave", "restart", "reset"}]
    \cup [kind : {"player", "removal", "reason"}, server : Server, account : Account,
          ids : SUBSET Id]
WorldsDialog == [kind : {"import"}, server : Server] \cup [kind : {"remove"}, of : Row]
Dialog == PageDialog \cup WorldsDialog

DialogsOk(ds) ==
  /\ ds \in Seq(Dialog)
  /\ \A i \in 1..Len(ds) : ds[i] \in PageDialog \/ i = Len(ds)

Contents(ds) == {ds[i] : i \in 1..Len(ds)}

LEMMA NoDialogs == DialogsOk(<<>>) /\ Contents(<<>>) = {}
  BY DEF DialogsOk, Contents

LEMMA Pushed ==
  ASSUME NEW ds, DialogsOk(ds), NEW d \in Dialog, d \in PageDialog \/ ds = <<>>,
         NEW n, n = <<d>> \o ds
  PROVE  DialogsOk(n) /\ Contents(n) \subseteq Contents(ds) \cup {d}
  <1>1. n \in Seq(Dialog) /\ Len(n) = Len(ds) + 1 /\ Len(ds) \in Nat
    BY DEF DialogsOk
  <1>2. n[1] = d /\ \A i \in 1..Len(n) : i # 1 => n[i] = ds[i - 1] /\ i - 1 \in 1..Len(ds)
    BY <1>1 DEF DialogsOk
  <1>3. DialogsOk(n)
    <2> SUFFICES ASSUME NEW i \in 1..Len(n) PROVE n[i] \in PageDialog \/ i = Len(n)
      BY <1>1 DEF DialogsOk
    <2>1. CASE i = 1
      BY <1>1, <1>2, <2>1
    <2>2. CASE i # 1
      BY <1>1, <1>2, <2>2 DEF DialogsOk
    <2> QED
      BY <2>1, <2>2
  <1>4. \A x \in Contents(n) : x = d \/ x \in Contents(ds)
    BY <1>1, <1>2 DEF Contents
  <1> QED
    BY <1>3, <1>4

LEMMA Popped ==
  ASSUME NEW ds, DialogsOk(ds), ds # <<>>
  PROVE  /\ DialogsOk(Tail(ds)) /\ Contents(Tail(ds)) \subseteq Contents(ds)
         /\ Head(ds) \in Contents(ds) /\ Head(ds) \in Dialog
         /\ Head(ds) \in PageDialog \/ ds = <<Head(ds)>>
  <1> DEFINE n == Tail(ds)
  <1>1. /\ Len(ds) \in Nat \ {0} /\ Head(ds) = ds[1] /\ 1 \in 1..Len(ds) /\ ds[1] \in Dialog
        /\ n \in Seq(Dialog) /\ Len(n) = Len(ds) - 1
    BY DEF DialogsOk
  <1>2. \A i \in 1..Len(n) : n[i] = ds[i + 1] /\ i + 1 \in 1..Len(ds)
    <2>1. ds \in Seq(Dialog)
      BY DEF DialogsOk
    <2>2. ASSUME NEW i \in 1..Len(n) PROVE n[i] = ds[i + 1]
      BY <2>1, <2>2
    <2> QED
      BY <1>1, <2>2
  <1> HIDE DEF n
  <1>3. DialogsOk(n)
    BY <1>1, <1>2 DEF DialogsOk
  <1>4. \A x \in Contents(n) : x \in Contents(ds)
    BY <1>1, <1>2 DEF Contents
  <1>5. Head(ds) \in Contents(ds)
    BY <1>1 DEF Contents
  <1>6. ds[1] \in PageDialog \/ Len(ds) = 1
    BY <1>1 DEF DialogsOk
  <1>7. Len(ds) = 1 => ds = <<ds[1]>>
    BY <1>1 DEF DialogsOk
  <1> QED
    BY <1>1, <1>3, <1>4, <1>5, <1>6, <1>7 DEF n

LEMMA Replaced ==
  ASSUME NEW ds, DialogsOk(ds), ds # <<>>, NEW d \in PageDialog
  PROVE  /\ DialogsOk(<<d>> \o Tail(ds))
         /\ Contents(<<d>> \o Tail(ds)) \subseteq Contents(ds) \cup {d}
  <1>1. DialogsOk(Tail(ds)) /\ Contents(Tail(ds)) \subseteq Contents(ds)
    BY Popped
  <1>2. d \in Dialog
    BY DEF Dialog
  <1> QED
    BY <1>1, <1>2, Pushed

-----------------------------------------------------------------------------
(* Worlds: what is on disk, and what the list and the dialogs say of it.   *)

Place == {Nothing} \cup [world : World, whole : BOOLEAN]
Operation ==
  {Idle} \cup [kind : {"import"}, world : World, step : {"copy", "move", "done"}]
         \cup [kind : {"remove"}, folder : Folder, step : {"check", "delete", "done"}]
ListState == [rows : SUBSET Row, shown : {"loading", "list", "error"},
              menu : BOOLEAN, pending : BOOLEAN, timer : BOOLEAN]
Scan == [server : Server, read : BOOLEAN, found : SUBSET Row]

\* A removal at work is of a world the user has given up.
DiskInv ==
  /\ disk \in [Server -> [Folder -> Place]]
  /\ expected \in [Server -> [Folder -> World \cup {"none", "gone"}]]
  /\ op \in [Server -> Operation]
  /\ WorldsAreWhole
  /\ \A s \in Server : op[s].kind = "remove" =>
       /\ expected[s][op[s].folder] \notin World
       /\ op[s].step = "delete" => disk[s][op[s].folder] # Nothing

There(r) == disk[r.server][r.folder] # Nothing /\ disk[r.server][r.folder].world = r.world
Gone(r) == disk[r.server][r.folder] = Nothing

\* A row tells what is there.  One whose world is gone stays while its removal is
\* at work, or a refresh is put off by a menu, under which no import begins; and
\* while the timer of a closed menu runs it cannot be clicked.
RowOk(r) ==
  /\ worldList.pending \/ r.server = current
  /\ \/ There(r)
     \/ worldList.pending /\ worldList.timer
     \/ Gone(r) /\ op[r.server].kind = "remove"
     \/ Gone(r) /\ worldList.pending /\ op[r.server].kind # "import"

ListInv ==
  /\ worldList \in ListState
  /\ scan = NoScan \/ scan \in Scan
  /\ ~(worldList.menu /\ worldList.timer)
  /\ worldList.pending => worldList.menu \/ worldList.timer
  /\ \A r \in worldList.rows \cup scan.found : RowOk(r)

ShownInv ==
  /\ \A r, q \in worldList.rows : r.server = q.server
  /\ scan # NoScan => /\ \A r \in scan.found : r.server = scan.server
                      /\ worldList.pending \/ scan.server = current
                      /\ ~scan.read => scan.found = {}
  /\ ~worldList.pending /\ op[current] = Idle =>
       /\ worldList.shown = "list" => worldList.rows = Inventory(current)
       /\ scan # NoScan /\ scan.read => scan.found = Inventory(current)

\* While a removal is asked about, nothing is at work on its server.
DialogOk(d) ==
  /\ d.kind = "import" => ~worldList.menu
  /\ d.kind = "remove" => op[d.of.server] = Idle /\ (There(d.of) \/ Gone(d.of))

DialogInv == DialogsOk(dialogs) /\ \A d \in Contents(dialogs) : DialogOk(d)

WorldInv == DiskInv /\ ListInv /\ ShownInv /\ DialogInv

LEMMA NewScanShape ==
  ASSUME NEW s \in Server
  PROVE  /\ NewScan(s) \in Scan /\ NewScan(s).server = s /\ NewScan(s).found = {}
         /\ ~NewScan(s).read
  BY DEF NewScan, Scan

LEMMA NewPageShape ==
  /\ NewPage \in ListState /\ NewPage.rows = {} /\ NewPage.shown = "loading"
  /\ ~NewPage.menu /\ ~NewPage.pending /\ ~NewPage.timer
  BY DEF NewPage, ListState

\* Nothing is shown, asked or at work after a start.
LEMMA StartingWorlds ==
  ASSUME DiskInv, WorldsLost, current' = First, dialogs' = <<>>
  PROVE  WorldInv'
  <1>1. /\ op' = [s \in Server |-> Idle] /\ worldList' = NewPage /\ scan' = NewScan(First)
        /\ UNCHANGED <<disk, expected>> /\ First \in Server
    BY SelectionAssumption DEF WorldsLost
  <1>2. DiskInv'
    <2>1. op' \in [Server -> Operation] /\ \A s \in Server : op'[s].kind = "idle"
      BY <1>1 DEF Operation, Idle
    <2> QED
      BY <1>1, <2>1 DEF DiskInv, WorldsAreWhole
  <1>3. ListInv' /\ ShownInv'
    BY <1>1, NewScanShape, NewPageShape DEF ListInv, ShownInv
  <1>4. DialogInv'
    BY NoDialogs DEF DialogInv
  <1> QED
    BY <1>2, <1>3, <1>4 DEF WorldInv

LEMMA InitWorldInv == Init => WorldInv
  <1> SUFFICES ASSUME Init PROVE WorldInv
    OBVIOUS
  <1>1. /\ op = [s \in Server |-> Idle] /\ worldList = NewPage /\ scan = NewScan(First)
        /\ disk = [s \in Server |-> [f \in Folder |-> IF f = Name THEN Whole(Old) ELSE Nothing]]
        /\ expected = [s \in Server |-> [f \in Folder |-> IF f = Name THEN Old ELSE "none"]]
        /\ dialogs = <<>> /\ current = First /\ First \in Server
    BY SelectionAssumption DEF Init, WorldsInit, SharedInit
  <1>2. Old \in World /\ "none" \notin World /\ Whole(Old) \in Place /\ Nothing \in Place
    BY WorldsAssumption DEF Whole, Place
  <1>3. DiskInv
    <2>1. op \in [Server -> Operation] /\ \A s \in Server : op[s].kind = "idle"
      BY <1>1 DEF Operation, Idle
    <2>2. disk \in [Server -> [Folder -> Place]]
      BY <1>1, <1>2
    <2>3. expected \in [Server -> [Folder -> World \cup {"none", "gone"}]]
      BY <1>1, <1>2
    <2>4. WorldsAreWhole
      BY <1>1, <1>2 DEF WorldsAreWhole
    <2> QED
      BY <2>1, <2>2, <2>3, <2>4 DEF DiskInv
  <1>4. ListInv /\ ShownInv
    BY <1>1, NewScanShape, NewPageShape DEF ListInv, ShownInv
  <1>5. DialogInv
    BY <1>1, NoDialogs DEF DialogInv
  <1> QED
    BY <1>3, <1>4, <1>5 DEF WorldInv

\* The list is read anew, or once the menu is closed; operations may have ended.
LEMMA ListRefreshed ==
  ASSUME ListInv, ShownInv, NEW s \in Server, current' = s, RefreshWorldList(s), UNCHANGED disk,
         \A t \in Server : op'[t] = op[t] \/ op'[t] = Idle,
         \A r \in Row : r.server \in Server
  PROVE  ListInv' /\ ShownInv'
  <1>1. CASE worldList.menu
    <2>1. UNCHANGED scan /\ worldList' = [worldList EXCEPT !.pending = TRUE]
      BY <1>1 DEF RefreshWorldList
    <2>2. /\ worldList' \in ListState /\ worldList'.rows = worldList.rows /\ worldList'.pending
          /\ worldList'.menu /\ worldList'.timer = worldList.timer
      BY <1>1, <2>1 DEF ListInv, ListState
    <2>3. \A r \in worldList.rows \cup scan.found : r \in Row /\ r.server \in Server
      BY <2>1 DEF ListInv, ListState, Scan, NoScan
    <2>4. Idle.kind = "idle"
      BY DEF Idle
    <2>5. \A r \in worldList.rows \cup scan.found : RowOk(r)'
      BY <2>1, <2>2, <2>3, <2>4 DEF ListInv, RowOk, There, Gone
    <2>6. ListInv'
      BY <1>1, <2>1, <2>2, <2>5 DEF ListInv
    <2> QED
      BY <2>1, <2>2, <2>6 DEF ShownInv
  <1>2. CASE ~worldList.menu
    <2>1. /\ worldList' = [worldList EXCEPT !.rows = {}, !.shown = "loading", !.pending = FALSE]
          /\ scan' = NewScan(s)
      BY <1>2 DEF RefreshWorldList
    <2>2. /\ worldList' \in ListState /\ worldList'.rows = {} /\ ~worldList'.pending
          /\ worldList'.shown = "loading" /\ ~worldList'.menu
      BY <1>2, <2>1 DEF ListInv, ListState
    <2> QED
      BY <2>1, <2>2, NewScanShape DEF ListInv, ShownInv
  <1> QED
    BY <1>1, <1>2

LEMMA RowShape == \A r \in Row : r.server \in Server /\ r.folder \in Folder /\ r.world \in World
  BY DEF Row

LEMMA ListKept ==
  ASSUME ListInv, ShownInv, UNCHANGED <<current, worldList, scan, disk, op>>
  PROVE  ListInv' /\ ShownInv'
  <1>1. ListInv'
    BY DEF ListInv, RowOk, There, Gone
  <1>2. Inventory(current)' = Inventory(current)
    BY DEF Inventory, Listed
  <1> QED
    BY <1>1, <1>2 DEF ShownInv

LEMMA DiskKept == ASSUME DiskInv, UNCHANGED <<disk, op, expected>> PROVE DiskInv'
  BY DEF DiskInv, WorldsAreWhole

\* What other pages do with dialogs: open one, answer one, answer with another.
DialogStep ==
  \/ UNCHANGED dialogs
  \/ \E d \in PageDialog : dialogs' = <<d>> \o dialogs
  \/ dialogs # <<>> /\ dialogs' = Tail(dialogs)
  \/ dialogs # <<>> /\ \E d \in PageDialog : dialogs' = <<d>> \o Tail(dialogs)

LEMMA PageDialogsOk == ASSUME NEW d \in PageDialog PROVE d \in Dialog /\ d.kind \notin {"import", "remove"}
  BY DEF PageDialog, Dialog

LEMMA DialogsMove ==
  ASSUME DialogInv, DialogStep, UNCHANGED <<disk, op>>, worldList'.menu => worldList.menu
  PROVE  DialogInv'
  <1>1. /\ DialogsOk(dialogs')
        /\ \A d \in Contents(dialogs') : d \in Contents(dialogs) \/ d \in PageDialog
    <2>1. ASSUME NEW d \in PageDialog, dialogs' = <<d>> \o dialogs
          PROVE  /\ DialogsOk(dialogs')
                 /\ \A e \in Contents(dialogs') : e \in Contents(dialogs) \/ e \in PageDialog
      <3>1. d \in Dialog /\ DialogsOk(dialogs)
        BY PageDialogsOk DEF DialogInv
      <3>2. DialogsOk(dialogs') /\ Contents(dialogs') \subseteq Contents(dialogs) \cup {d}
        BY <2>1, <3>1, Pushed
      <3> QED
        BY <3>2
    <2>2. CASE dialogs # <<>> /\ dialogs' = Tail(dialogs)
      BY <2>2, Popped DEF DialogInv
    <2>3. CASE dialogs # <<>> /\ \E d \in PageDialog : dialogs' = <<d>> \o Tail(dialogs)
      BY <2>3, Replaced DEF DialogInv
    <2> QED
      BY <2>1, <2>2, <2>3 DEF DialogStep, DialogInv
  <1>2. \A d \in PageDialog : DialogOk(d)'
    BY PageDialogsOk DEF DialogOk
  <1>3. \A d \in Contents(dialogs) : DialogOk(d)'
    BY DEF DialogInv, DialogOk, There, Gone
  <1> QED
    BY <1>1, <1>2, <1>3 DEF DialogInv

\* A step of another page, which may select another server.
LEMMA OtherWorlds ==
  ASSUME WorldInv, UNCHANGED <<disk, op, expected>>, DialogStep,
         \/ UNCHANGED <<current, worldList, scan>>
         \/ \E s \in Server : current' = s /\ RefreshWorldList(s)
  PROVE  WorldInv'
  <1>1. DiskInv'
    BY DiskKept DEF WorldInv
  <1>2. CASE UNCHANGED <<current, worldList, scan>>
    <2>1. ListInv' /\ ShownInv'
      BY <1>2, ListKept DEF WorldInv
    <2>2. DialogInv'
      BY <1>2, DialogsMove DEF WorldInv
    <2> QED
      BY <1>1, <2>1, <2>2 DEF WorldInv
  <1>3. ASSUME NEW s \in Server, current' = s, RefreshWorldList(s) PROVE WorldInv'
    <2>1. ListInv' /\ ShownInv'
      BY <1>3, ListRefreshed, RowShape DEF WorldInv
    <2>2. worldList'.menu = worldList.menu
      BY <1>3 DEF RefreshWorldList, WorldInv, ListInv, ListState
    <2>3. DialogInv'
      BY <2>2, DialogsMove DEF WorldInv
    <2> QED
      BY <1>1, <2>1, <2>3 DEF WorldInv
  <1> QED
    BY <1>2, <1>3

LEMMA ServerWorlds == ASSUME WorldInv, ServerStep PROVE WorldInv'
  <1>1. UNCHANGED <<worldVars, current, dialogs>>
    BY DEF ServerStep, ServerStarts, ServerExits, RestartEnds, OthersMaintain, selectionVars
  <1> QED
    BY <1>1, OtherWorlds DEF worldVars, DialogStep

LEMMA DomainsWorlds == ASSUME WorldInv, DomainsStep PROVE WorldInv'
  <1>1. UNCHANGED <<worldVars, current, dialogs>>
    BY DEF DomainsStep, DomainsUser, DomainsThread, DdnsTick, SyncNow, DomainSaved,
       DomainEntered, SyncDone, IntervalPasses, sharedVars, selectionVars
  <1> QED
    BY <1>1, OtherWorlds DEF worldVars, DialogStep

\* The dialogs of the details of a player.
LEMMA PlayerAsks ==
  ASSUME DialogInv, NEW kind \in {"removal", "reason"}, Asks(kind) PROVE DialogStep
  <1> DEFINE d == Head(dialogs)
             e == [d EXCEPT !.kind = kind]
  <1>1. dialogs # <<>> /\ d.kind = "player" /\ dialogs' = <<e>> \o Tail(dialogs)
    BY DEF Asks, Answered
  <1>2. d \in Dialog
    BY <1>1, Popped DEF DialogInv
  <1> HIDE DEF d
  <1>3. d \in [kind : {"player", "removal", "reason"}, server : Server, account : Account,
               ids : SUBSET Id]
    BY <1>1, <1>2 DEF Dialog, PageDialog, WorldsDialog
  <1>4. e \in PageDialog
    BY <1>3 DEF PageDialog
  <1> QED
    BY <1>1, <1>4 DEF DialogStep

LEMMA PlayersWorlds ==
  ASSUME WorldInv, PlayerInv, PlayersStep PROVE WorldInv'
  <1>1. UNCHANGED <<worldVars, current>>
    BY PageKeepsServer DEF PlayersStep
  <1>2. DialogStep
    <2>1. ASSUME NEW a \in Account, NEW t \in table[a], PlayerOpened(a, t) PROVE DialogStep
      <3> DEFINE d == [kind |-> "player", server |-> current, account |-> a, ids |-> t.ids]
      <3>1. t \in PlayerState /\ current \in Server
        BY DEF PlayerInv, TableInv
      <3>2. d \in PageDialog
        BY <3>1 DEF PageDialog, PlayerState
      <3>3. dialogs' = <<d>> \o dialogs
        BY <2>1 DEF PlayerOpened, Opens
      <3> QED
        BY <3>2, <3>3 DEF DialogStep
    <2>2. CASE RemovalAsked \/ ReasonAsked
      BY <2>2, PlayerAsks DEF RemovalAsked, ReasonAsked, WorldInv
    <2>3. CASE \/ DetailsClosed \/ CommandSent
               \/ \E yes \in BOOLEAN : ReasonGiven(yes) \/ RemovalAnswered(yes)
      BY <2>3 DEF DetailsClosed, CommandSent, ReasonGiven, RemovalAnswered, Answered, Closes,
         DialogStep
    <2>4. CASE UNCHANGED dialogs
      BY <2>4 DEF DialogStep
    <2> QED
      BY <2>1, <2>2, <2>3, <2>4 DEF PlayersStep, PlayersUser
  <1> QED
    BY <1>1, <1>2, OtherWorlds DEF worldVars

LEMMA Questions ==
  \A kind \in {"leave", "restart", "reset"} : [kind |-> kind] \in PageDialog
  BY DEF PageDialog

LEMMA SettingsWorlds == ASSUME WorldInv, FormInv, SettingsStep PROVE WorldInv'
  <1>0. First \in Server /\ current \in Server /\ pending.server \in Server \cup {NoServer}
    BY SelectionAssumption DEF FormInv
  <1> DEFINE Staying == UNCHANGED <<current, worldVars>>
             Selecting == \E s \in Server : SelectServer(s)
  <1>1. ASSUME Staying \/ Selecting, DialogStep PROVE WorldInv'
    BY <1>1, OtherWorlds DEF worldVars, SelectServer
  <1>2. PagesStay => Staying
    BY DEF PagesStay, selectionVars
  <1>3. \A s \in Server : Lands(s) => Selecting
    BY DEF Lands
  <1>4. ASSUME NEW restart, NEW goOn, Save(restart, goOn) PROVE Staying \/ Selecting
    BY <1>0, <1>2, <1>3, <1>4 DEF Save, NotSaved, Saved, StaysHere
  <1>5. ASSUME Discard PROVE Staying \/ Selecting
    BY <1>0, <1>3, <1>5 DEF Discard, selectionVars
  <1>6. CASE \E s \in Server : DetailsOpened(s)
    BY <1>1, <1>6 DEF DetailsOpened, DialogStep
  <1>7. CASE \/ \E v \in Value : NameEdited(v)
             \/ \E v \in Value \cup {Invalid} : PortEdited(v)
             \/ SwitchFlipped
    BY <1>1, <1>7 DEF NameEdited, PortEdited, SwitchFlipped, Edited, selectionVars, DialogStep
  <1>8. CASE BackClicked \/ \E page \in Page : PageChosen(page)
    <2>1. DialogStep
      BY <1>8, Questions DEF BackClicked, PageChosen, Leave, Opens, DialogStep
    <2> QED
      BY <1>1, <1>2, <1>8, <2>1 DEF BackClicked, PageChosen
  <1>9. CASE SaveClicked
    <2>1. DialogStep
      BY <1>9, Questions DEF SaveClicked, Opens, DialogStep
    <2> QED
      BY <1>1, <1>2, <1>4, <1>9, <2>1 DEF SaveClicked, StaysHere
  <1>10. CASE RestartDiscarded \/ LeaveDiscarded
    <2>1. DialogStep
      BY <1>10 DEF RestartDiscarded, LeaveDiscarded, Answered, Closes, DialogStep
    <2> QED
      BY <1>1, <1>5, <1>10, <2>1 DEF RestartDiscarded, LeaveDiscarded
  <1>11. CASE RestartSaved \/ LeaveSaved
    <2>1. DialogStep
      BY <1>11, Questions DEF RestartSaved, LeaveSaved, Answered, Closes, DialogStep
    <2> QED
      BY <1>1, <1>2, <1>4, <1>11, <2>1 DEF RestartSaved, LeaveSaved, StaysHere
  <1>12. CASE LeaveCancelled \/ ResetClicked
    <2>1. DialogStep
      BY <1>12, Questions DEF LeaveCancelled, ResetClicked, Opens, Answered, Closes, DialogStep
    <2> QED
      BY <1>1, <1>2, <1>12, <2>1 DEF LeaveCancelled, ResetClicked
  <1>13. CASE GeneralSaved \/ \E reset \in BOOLEAN : ResetAnswered(reset)
    <2>1. DialogStep
      BY <1>13 DEF GeneralSaved, ResetAnswered, Answered, Closes, DialogStep
    <2> QED
      BY <1>1, <1>13, <2>1 DEF GeneralSaved, ResetAnswered, selectionVars
  <1> QED
    BY <1>6, <1>7, <1>8, <1>9, <1>10, <1>11, <1>12, <1>13 DEF SettingsStep

LEMMA ActivationWorlds ==
  ASSUME WorldInv, FormInv, NEW s \in Server, ServerActivated(s) PROVE WorldInv'
  <1>1. DialogStep
    BY Questions DEF ServerActivated, RowSelected, Opens, DialogStep
  <1>2. PagesStay \/ \E t \in Server : SelectServer(t)
    BY DEF ServerActivated, RowSelected, FormInv
  <1>3. \/ UNCHANGED <<disk, op, expected, current, worldList, scan>>
        \/ /\ UNCHANGED <<disk, op, expected>>
           /\ \E t \in Server : current' = t /\ RefreshWorldList(t)
    BY <1>2 DEF PagesStay, SelectServer, selectionVars, worldVars
  <1> QED
    BY <1>1, <1>3, OtherWorlds

-----------------------------------------------------------------------------
(* Worlds: the list.                                                       *)

LEMMA ListStep ==
  ASSUME WorldInv, UNCHANGED <<disk, op, expected, dialogs>>, worldList'.menu => worldList.menu,
         ListInv', ShownInv'
  PROVE  WorldInv'
  BY DiskKept, DialogsMove DEF WorldInv, DialogStep

\* The rows are those that were, and nothing is put off anew.
LEMMA RowsStay ==
  ASSUME ListInv, ShownInv, UNCHANGED <<disk, op, current, scan>>, worldList' \in ListState,
         worldList'.rows = worldList.rows, worldList'.shown = worldList.shown,
         worldList'.pending = worldList.pending, ~(worldList'.menu /\ worldList'.timer),
         worldList.timer => worldList'.timer,
         worldList.pending => worldList'.menu \/ worldList'.timer
  PROVE  ListInv' /\ ShownInv'
  <1>1. \A r \in worldList.rows \cup scan.found : RowOk(r)'
    BY DEF ListInv, RowOk, There, Gone
  <1>2. ListInv'
    BY <1>1 DEF ListInv
  <1>3. Inventory(current)' = Inventory(current)
    BY DEF Inventory, Listed
  <1> QED
    BY <1>2, <1>3 DEF ShownInv

LEMMA ClosedShape ==
  ASSUME ListInv, worldList.menu
  PROVE  /\ Closed \in ListState /\ Closed.rows = worldList.rows /\ Closed.shown = worldList.shown
         /\ Closed.pending = worldList.pending /\ ~Closed.menu
         /\ Closed.timer = (worldList.timer \/ worldList.pending)
  BY DEF Closed, ListInv, ListState

LEMMA MenuWorlds == ASSUME WorldInv, MenuOpened \/ MenuClosed \/ RefreshAfterMenu,
                           current \in Server
                    PROVE  WorldInv'
  <1>0. ListInv /\ ShownInv /\ DiskInv
    BY DEF WorldInv
  <1>1. CASE MenuOpened
    <2>1. /\ ~worldList.menu /\ ~worldList.timer /\ dialogs = <<>>
          /\ worldList' = [worldList EXCEPT !.menu = TRUE]
          /\ UNCHANGED <<disk, op, expected, current, scan, dialogs>>
      BY <1>1 DEF MenuOpened, OnWorlds, OnPage, InWindow, selectionVars
    <2>2. /\ worldList' \in ListState /\ worldList'.menu /\ ~worldList'.timer
          /\ worldList'.rows = worldList.rows /\ worldList'.shown = worldList.shown
          /\ worldList'.pending = worldList.pending
      BY <1>0, <2>1 DEF ListInv, ListState
    <2>3. ListInv' /\ ShownInv'
      BY <1>0, <2>1, <2>2, RowsStay
    <2>4. DialogInv'
      BY <2>1, NoDialogs DEF DialogInv
    <2> QED
      BY <1>0, <2>1, <2>3, <2>4, DiskKept DEF WorldInv
  <1>2. CASE MenuClosed
    <2>1. /\ worldList.menu /\ worldList' = Closed
          /\ UNCHANGED <<disk, op, expected, current, scan, dialogs>>
      BY <1>2 DEF MenuClosed, sharedVars, selectionVars
    <2>2. ListInv' /\ ShownInv' /\ ~worldList'.menu
      BY <1>0, <2>1, ClosedShape, RowsStay
    <2> QED
      BY <2>1, <2>2, ListStep
  <1>3. CASE RefreshAfterMenu
    <2>1. worldList.timer /\ ~worldList.menu /\ UNCHANGED <<disk, op, expected, current, dialogs>>
      BY <1>3 DEF RefreshAfterMenu, sharedVars, selectionVars
    <2>2. ListInv' /\ ShownInv' /\ ~worldList'.menu
      <3>1. CASE worldList.pending
        <4>1. /\ scan' = NewScan(current)
              /\ worldList' = [worldList EXCEPT !.timer = FALSE, !.pending = FALSE, !.rows = {},
                                                !.shown = "loading"]
          BY <1>3, <3>1 DEF RefreshAfterMenu
        <4>2. /\ worldList' \in ListState /\ worldList'.rows = {} /\ worldList'.shown = "loading"
              /\ ~worldList'.pending /\ ~worldList'.timer /\ ~worldList'.menu
          BY <1>0, <2>1, <4>1 DEF ListInv, ListState
        <4> QED
          BY <2>1, <4>1, <4>2, NewScanShape DEF ListInv, ShownInv
      <3>2. CASE ~worldList.pending
        <4>1. UNCHANGED scan /\ worldList' = [worldList EXCEPT !.timer = FALSE]
          BY <1>3, <3>2 DEF RefreshAfterMenu
        <4>2. /\ worldList' \in ListState /\ worldList'.rows = worldList.rows
              /\ worldList'.shown = worldList.shown /\ ~worldList'.pending
              /\ ~worldList'.timer /\ ~worldList'.menu
          BY <1>0, <2>1, <3>2, <4>1 DEF ListInv, ListState
        <4>3. \A r \in worldList.rows \cup scan.found : RowOk(r)'
          BY <1>0, <2>1, <3>2, <4>1, <4>2 DEF ListInv, RowOk, There, Gone
        <4>4. ListInv'
          BY <1>0, <3>2, <4>1, <4>2, <4>3 DEF ListInv
        <4>5. Inventory(current)' = Inventory(current)
          BY <2>1 DEF Inventory, Listed
        <4> QED
          BY <1>0, <2>1, <3>2, <4>1, <4>2, <4>4, <4>5 DEF ShownInv
      <3> QED
        BY <3>1, <3>2
    <2> QED
      BY <2>1, <2>2, ListStep
  <1> QED
    BY <1>1, <1>2, <1>3

\* What is read is there.
LEMMA InventoryFits ==
  ASSUME DiskInv, NEW s \in Server
  PROVE  /\ Inventory(s) \in SUBSET Row
         /\ \A r \in Inventory(s) : There(r) /\ r.server = s
  <1>1. ASSUME NEW f \in Listed(s)
        PROVE  LET r == [server |-> s, folder |-> f, world |-> disk[s][f].world]
               IN  r \in Row /\ There(r)
    <2>1. f \in Folder /\ disk[s][f] # Nothing
      BY DEF Listed
    <2>2. disk[s][f] \in [world : World, whole : BOOLEAN]
      BY <2>1 DEF DiskInv, Place
    <2> QED
      BY <2>1, <2>2 DEF Row, There
  <1> QED
    BY <1>1 DEF Inventory

LEMMA ReadingWorlds == ASSUME WorldInv, InventoryRead \/ InventoryFinished PROVE WorldInv'
  <1>0. ListInv /\ ShownInv /\ DiskInv
    BY DEF WorldInv
  <1>1. CASE InventoryRead
    <2>1. /\ scan \in Scan /\ ~scan.read /\ scan # NoScan
          /\ scan' = [scan EXCEPT !.read = TRUE, !.found = Inventory(scan.server)]
          /\ UNCHANGED <<disk, op, expected, current, worldList, dialogs>>
      BY <1>0, <1>1 DEF InventoryRead, ListInv, sharedVars, selectionVars
    <2>2. scan.server \in Server /\ (worldList.pending \/ scan.server = current)
      BY <1>0, <2>1 DEF Scan, ShownInv
    <2>3. /\ scan' \in Scan /\ scan'.found = Inventory(scan.server) /\ scan'.read
          /\ scan'.server = scan.server
      BY <1>0, <2>1, <2>2, InventoryFits DEF Scan
    <2>4. \A r \in scan'.found : There(r) /\ r.server = scan.server
      BY <1>0, <2>2, <2>3, InventoryFits
    <2>5. \A r \in worldList'.rows \cup scan'.found : RowOk(r)'
      BY <1>0, <2>1, <2>2, <2>4 DEF ListInv, RowOk, There, Gone
    <2>6. ListInv'
      BY <1>0, <2>1, <2>3, <2>5 DEF ListInv
    <2>7. Inventory(current)' = Inventory(current)
      BY <2>1 DEF Inventory, Listed
    <2>8. ShownInv'
      BY <1>0, <2>1, <2>2, <2>3, <2>4, <2>7 DEF ShownInv
    <2> QED
      BY <2>1, <2>6, <2>8, ListStep
  <1>2. CASE InventoryFinished
    <2>1. /\ scan # NoScan /\ scan.read /\ scan' = NoScan /\ scan \in Scan
          /\ \/ worldList' = [worldList EXCEPT !.rows = scan.found, !.shown = "list"]
             \/ worldList' = [worldList EXCEPT !.shown = "error"]
          /\ UNCHANGED <<disk, op, expected, current, dialogs>>
      BY <1>0, <1>2 DEF InventoryFinished, ListInv, sharedVars, selectionVars
    <2>2. /\ worldList' \in ListState /\ worldList'.menu = worldList.menu
          /\ worldList'.pending = worldList.pending /\ worldList'.timer = worldList.timer
          /\ \/ worldList'.rows = scan.found /\ worldList'.shown = "list"
             \/ worldList'.rows = worldList.rows /\ worldList'.shown = "error"
      BY <1>0, <2>1 DEF ListInv, ListState, Scan
    <2>3. scan'.found = {}
      BY <2>1 DEF NoScan
    <2>4. \A r \in worldList'.rows \cup scan'.found : RowOk(r)'
      BY <1>0, <2>1, <2>2, <2>3 DEF ListInv, RowOk, There, Gone
    <2>5. ListInv'
      BY <1>0, <2>1, <2>2, <2>4 DEF ListInv
    <2>6. Inventory(current)' = Inventory(current)
      BY <2>1 DEF Inventory, Listed
    <2>7. ShownInv'
      BY <1>0, <2>1, <2>2, <2>6 DEF ShownInv
    <2> QED
      BY <2>1, <2>2, <2>5, <2>7, ListStep
  <1> QED
    BY <1>1, <1>2

-----------------------------------------------------------------------------
(* Worlds: what begins an operation.                                       *)

LEMMA StartingShape ==
  ASSUME AtRest, NEW s \in Server, NEW operation, StartOperation(s, operation)
  PROVE  UNCHANGED op \/ (op[s] = Idle /\ op' = [op EXCEPT ![s] = operation])
  BY DEF StartOperation, CanModify, AtRest

LEMMA OperationShape ==
  /\ \A w \in World : Import(w) \in Operation /\ Import(w).kind = "import"
  /\ \A f \in Folder : /\ Remove(f) \in Operation /\ Remove(f).kind = "remove"
                       /\ Remove(f).folder = f /\ Remove(f).step = "check"
  /\ Idle.kind = "idle" /\ Idle \in Operation
  BY DEF Import, Remove, Operation, Idle

\* A row whose refresh is put off cannot be seen while an import begins, but for
\* the time of a timer.
LEMMA OperationBegins ==
  ASSUME WorldInv, NEW s \in Server, NEW operation \in Operation,
         operation.kind = "import" => ~worldList.menu,
         UNCHANGED op \/ (op[s] = Idle /\ op' = [op EXCEPT ![s] = operation]),
         operation.kind \in {"import", "remove"},
         UNCHANGED <<disk, worldList, scan, current>>, dialogs' = <<>>, DiskInv', current \in Server
  PROVE  WorldInv'
  <1>0. ListInv /\ ShownInv /\ DiskInv
    BY DEF WorldInv
  <1>1. DialogInv'
    BY NoDialogs DEF DialogInv
  <1>2. CASE UNCHANGED op
    BY <1>0, <1>1, <1>2, ListKept DEF WorldInv
  <1>3. CASE op[s] = Idle /\ op' = [op EXCEPT ![s] = operation]
    <2>1. /\ op'[s] = operation /\ \A t \in Server : t # s => op'[t] = op[t]
          /\ operation # Idle /\ op[s].kind = "idle"
      BY <1>0, <1>3 DEF DiskInv, Idle
    <2>2. \A r \in worldList.rows \cup scan.found : r.server \in Server
      BY <1>0, RowShape DEF ListInv, ListState, Scan, NoScan
    <2>3. \A r \in worldList.rows \cup scan.found : RowOk(r)'
      BY <1>0, <1>3, <2>1, <2>2 DEF ListInv, RowOk, There, Gone
    <2>4. ListInv'
      BY <1>0, <2>3 DEF ListInv
    <2>5. Inventory(current)' = Inventory(current)
      BY DEF Inventory, Listed
    <2>6. op'[current] = Idle => op[current] = Idle
      BY <1>3, <2>1
    <2>7. ShownInv'
      BY <1>0, <2>5, <2>6 DEF ShownInv
    <2> QED
      BY <1>1, <2>4, <2>7 DEF WorldInv
  <1> QED
    BY <1>2, <1>3

LEMMA ImportBegins ==
  ASSUME WorldInv, AtRest, NEW s \in Server, NEW w \in World, StartOperation(s, Import(w)),
         ~worldList.menu, UNCHANGED <<disk, expected, worldList, scan, current>>,
         dialogs' = <<>>, current \in Server
  PROVE  WorldInv'
  <1>1. UNCHANGED op \/ (op[s] = Idle /\ op' = [op EXCEPT ![s] = Import(w)])
    BY StartingShape
  <1>2. DiskInv
    BY DEF WorldInv
  <1>3. DiskInv'
    <2>1. CASE UNCHANGED op
      BY <1>2, <2>1, DiskKept
    <2>2. CASE op' = [op EXCEPT ![s] = Import(w)]
      <3>1. /\ op' \in [Server -> Operation]
            /\ \A t \in Server : op'[t].kind = "remove" => op'[t] = op[t]
        BY <1>2, <2>2, OperationShape DEF DiskInv
      <3> QED
        BY <1>2, <3>1 DEF DiskInv, WorldsAreWhole
    <2> QED
      BY <1>1, <2>1, <2>2
  <1> QED
    BY <1>1, <1>3, OperationBegins, OperationShape

\* The dialog on top, when it is one of the Worlds page.
LEMMA WorldsAnswer ==
  ASSUME DialogInv, NEW kind \in {"import", "remove"}, Answered(kind), Closes
  PROVE  LET d == Head(dialogs)
         IN  /\ dialogs' = <<>> /\ DialogOk(d) /\ d.kind = kind
             /\ kind = "import" => d.server \in Server
             /\ kind = "remove" => d.of \in Row
  <1> DEFINE d == Head(dialogs)
  <1>1. dialogs # <<>> /\ d.kind = kind /\ dialogs' = Tail(dialogs)
    BY DEF Answered, Closes
  <1>2. /\ d \in Dialog /\ d \in Contents(dialogs)
        /\ d \in PageDialog \/ dialogs = <<d>>
    BY <1>1, Popped DEF DialogInv
  <1> HIDE DEF d
  <1>3. d \notin PageDialog
    BY <1>1, PageDialogsOk
  <1>4. /\ kind = "import" => d.server \in Server
        /\ kind = "remove" => d.of \in Row
    BY <1>1, <1>2, <1>3 DEF Dialog, WorldsDialog
  <1>5. dialogs' = <<>>
    <2>1. dialogs = <<d>>
      BY <1>2, <1>3
    <2>2. Tail(<<d>>) = <<>>
      OBVIOUS
    <2> QED
      BY <1>1, <2>1, <2>2
  <1>6. DialogOk(d)
    BY <1>2 DEF DialogInv
  <1> QED
    BY <1>1, <1>4, <1>5, <1>6 DEF d

\* The user gives up the world he was shown; it is that one which is there, if any.
LEMMA RemovalBegins ==
  ASSUME WorldInv, AtRest, RemoveConfirmed(TRUE), CanModify(Head(dialogs).of.server),
         current \in Server
  PROVE  WorldInv'
  <1> DEFINE r == Head(dialogs).of
             s == r.server
             f == r.folder
  <1>0. DiskInv
    BY DEF WorldInv
  <1>1. /\ StartOperation(s, Remove(f))
        /\ expected' = [expected EXCEPT ![s] = Without(expected[s], r)]
        /\ Answered("remove") /\ Closes
        /\ UNCHANGED <<disk, worldList, scan, current>>
    BY DEF RemoveConfirmed, selectionVars
  <1>2. /\ dialogs' = <<>> /\ r \in Row /\ op[s] = Idle /\ (There(r) \/ Gone(r))
    <2>1. Head(dialogs).kind = "remove"
      BY <1>1 DEF Answered
    <2> QED
      BY <1>1, <2>1, WorldsAnswer DEF WorldInv, DialogOk
  <1>3. s \in Server /\ f \in Folder /\ r.world \in World
    BY <1>2, RowShape
  <1>4. UNCHANGED op \/ op' = [op EXCEPT ![s] = Remove(f)]
    BY <1>1, <1>3, StartingShape
  <1> HIDE DEF r, s, f
  <1>5. /\ expected' \in [Server -> [Folder -> World \cup {"none", "gone"}]]
        /\ \A t \in Server, g \in Folder :
             expected'[t][g] = IF t = s /\ g = f /\ expected[s][f] = r.world THEN "gone"
                               ELSE expected[t][g]
    BY <1>0, <1>1, <1>3 DEF DiskInv, Without, f, s
  <1>6. expected'[s][f] \notin World
    <2>1. CASE expected[s][f] = r.world
      BY <1>3, <1>5, <2>1, WorldsAssumption
    <2>2. CASE expected[s][f] # r.world
      <3>1. expected'[s][f] = expected[s][f]
        BY <1>3, <1>5, <2>2
      <3>2. SUFFICES ASSUME expected[s][f] \in World PROVE FALSE
        BY <3>1
      <3>3. disk[s][f] = Whole(expected[s][f])
        BY <1>0, <1>3, <3>2 DEF DiskInv, WorldsAreWhole
      <3>4. disk[s][f].world = expected[s][f] /\ disk[s][f] # Nothing
        BY <3>2, <3>3, WorldsAssumption DEF Whole, Nothing
      <3>5. There(r)
        BY <1>2, <3>4 DEF Gone, s, f
      <3> QED
        BY <2>2, <3>4, <3>5 DEF There, s, f
    <2> QED
      BY <2>1, <2>2
  <1>7. WorldsAreWhole'
    BY <1>0, <1>1, <1>5, WorldsAssumption DEF DiskInv, WorldsAreWhole
  <1>8. DiskInv'
    <2>1. op' \in [Server -> Operation]
      BY <1>0, <1>3, <1>4, OperationShape DEF DiskInv
    <2>2. ASSUME NEW t \in Server, op'[t].kind = "remove"
          PROVE  /\ expected'[t][op'[t].folder] \notin World
                 /\ op'[t].step = "delete" => disk'[t][op'[t].folder] # Nothing
      <3>1. CASE op'[t] = op[t]
        <4>1. op[t].folder \in Folder
          BY <1>0, <2>2, <3>1 DEF DiskInv, Operation, Idle
        <4> QED
          BY <1>0, <1>1, <1>5, <2>2, <3>1, <4>1, WorldsAssumption DEF DiskInv
      <3>2. CASE t = s /\ op'[t] = Remove(f)
        BY <1>3, <1>6, <3>2, OperationShape
      <3> QED
        BY <1>0, <1>3, <1>4, <3>1, <3>2 DEF DiskInv
    <2> QED
      BY <1>0, <1>1, <1>5, <1>7, <2>1, <2>2 DEF DiskInv
  <1>9. UNCHANGED op \/ (op[s] = Idle /\ op' = [op EXCEPT ![s] = Remove(f)])
    BY <1>2, <1>4
  <1> QED
    BY <1>1, <1>2, <1>3, <1>8, <1>9, OperationBegins, OperationShape

-----------------------------------------------------------------------------
(* Worlds: what the user does.                                             *)

\* A dialog of the Worlds page, which opens in front of the window itself.
LEMMA DialogOpens ==
  ASSUME UNCHANGED op, NEW d \in WorldsDialog, dialogs = <<>>, dialogs' = <<d>>,
         \A e : e = d => DialogOk(e)'
  PROVE  DialogInv'
  <1>1. d \in Dialog /\ <<d>> = <<d>> \o <<>>
    BY DEF Dialog
  <1>2. DialogsOk(<<d>>) /\ Contents(<<d>>) \subseteq {d}
    BY <1>1, NoDialogs, Pushed
  <1>3. DialogsOk(dialogs') /\ \A e \in Contents(dialogs') : e = d
    BY <1>2
  <1> QED
    BY <1>3 DEF DialogInv

LEMMA AskedWorlds ==
  ASSUME WorldInv, current \in Server, WorldsRefreshed \/ ImportClicked
  PROVE  WorldInv'
  <1>1. CASE WorldsRefreshed
    <2>1. /\ UNCHANGED <<disk, op, expected>> /\ DialogStep
          /\ current' = current /\ RefreshWorldList(current)
      BY <1>1 DEF WorldsRefreshed, selectionVars, DialogStep
    <2> QED
      BY <2>1, OtherWorlds
  <1>2. CASE ImportClicked
    <2>1. /\ dialogs = <<>> /\ ~worldList.menu
          /\ UNCHANGED <<disk, op, expected, current, worldList, scan>>
          /\ \/ UNCHANGED dialogs
             \/ Opens([kind |-> "import", server |-> current])
      BY <1>2 DEF ImportClicked, OnWorlds, OnPage, InWindow, worldVars, selectionVars
    <2>2. CASE UNCHANGED dialogs
      BY <2>1, <2>2, OtherWorlds DEF DialogStep
    <2>3. CASE Opens([kind |-> "import", server |-> current])
      <3> DEFINE d == [kind |-> "import", server |-> current]
      <3>1. d \in WorldsDialog /\ d.kind = "import"
        BY DEF WorldsDialog
      <3>2. dialogs' = <<d>>
        BY <2>1, <2>3 DEF Opens
      <3> HIDE DEF d
      <3>3. \A e : e = d => DialogOk(e)'
        BY <2>1, <3>1 DEF DialogOk
      <3>4. DialogInv'
        BY <2>1, <3>1, <3>2, <3>3, DialogOpens
      <3>5. ListInv' /\ ShownInv' /\ DiskInv'
        BY <2>1, ListKept, DiskKept DEF WorldInv
      <3> QED
        BY <3>4, <3>5 DEF WorldInv
    <2> QED
      BY <2>1, <2>2, <2>3
  <1> QED
    BY <1>1, <1>2

LEMMA RemovalClickWorlds ==
  ASSUME WorldInv, AtRest, NEW r \in worldList.rows, RemoveClicked(r)
  PROVE  WorldInv'
  <1>0. ListInv /\ ShownInv /\ DiskInv
    BY DEF WorldInv
  <1>1. /\ dialogs = <<>> /\ worldList.menu /\ worldList' = Closed
        /\ UNCHANGED <<disk, op, expected, current, scan>>
        /\ \/ UNCHANGED dialogs
           \/ CanModify(r.server) /\ Opens([kind |-> "remove", of |-> r])
    BY DEF RemoveClicked, OnPage, InWindow, selectionVars
  <1>2. ListInv' /\ ShownInv' /\ ~worldList'.menu
    BY <1>0, <1>1, ClosedShape, RowsStay
  <1>3. DiskInv'
    BY <1>0, <1>1, DiskKept
  <1>4. CASE UNCHANGED dialogs
    <2>1. DialogInv'
      BY <1>1, <1>2, <1>4, NoDialogs DEF DialogInv
    <2> QED
      BY <1>2, <1>3, <2>1 DEF WorldInv
  <1>5. CASE CanModify(r.server) /\ Opens([kind |-> "remove", of |-> r])
    <2> DEFINE d == [kind |-> "remove", of |-> r]
    <2>1. r \in Row /\ r.server \in Server
      BY <1>0, RowShape DEF ListInv, ListState
    <2>2. d \in WorldsDialog /\ d.kind = "remove" /\ d.of = r
      BY <2>1 DEF WorldsDialog
    <2>3. dialogs' = <<d>>
      BY <1>1, <1>5 DEF Opens
    <2> HIDE DEF d
    <2>4. op[r.server] = Idle
      BY <1>5, <2>1 DEF CanModify, AtRest
    <2>5. There(r) \/ Gone(r)
      BY <1>0, <1>1 DEF ListInv, RowOk
    <2>6. \A e : e = d => DialogOk(e)'
      BY <1>1, <2>2, <2>4, <2>5 DEF DialogOk, There, Gone
    <2>7. DialogInv'
      BY <1>1, <2>2, <2>3, <2>6, DialogOpens
    <2> QED
      BY <1>2, <1>3, <2>7 DEF WorldInv
  <1> QED
    BY <1>1, <1>4, <1>5

LEMMA RemovalAnswerWorlds ==
  ASSUME WorldInv, AtRest, current \in Server, NEW yes \in BOOLEAN, RemoveConfirmed(yes)
  PROVE  WorldInv'
  <1>1. CASE yes /\ CanModify(Head(dialogs).of.server)
    BY <1>1, RemovalBegins
  <1>2. CASE ~(yes /\ CanModify(Head(dialogs).of.server))
    <2>1. /\ UNCHANGED <<disk, op, expected, current, worldList, scan>>
          /\ dialogs # <<>> /\ dialogs' = Tail(dialogs)
      BY <1>2 DEF RemoveConfirmed, Answered, Closes, selectionVars
    <2> QED
      BY <2>1, OtherWorlds DEF DialogStep
  <1> QED
    BY <1>1, <1>2

LEMMA ImportAnswerWorlds ==
  ASSUME WorldInv, AtRest, current \in Server,
         ImportDismissed \/ \E w \in World : ImportSelected(w) \/ WorldDropped(w)
  PROVE  WorldInv'
  <1>1. CASE ImportDismissed
    <2>1. /\ UNCHANGED <<disk, op, expected, current, worldList, scan>>
          /\ dialogs # <<>> /\ dialogs' = Tail(dialogs)
      BY <1>1 DEF ImportDismissed, Answered, Closes, worldVars, selectionVars
    <2> QED
      BY <2>1, OtherWorlds DEF DialogStep
  <1>2. ASSUME NEW w \in World, ImportSelected(w) PROVE WorldInv'
    <2> DEFINE d == Head(dialogs)
    <2>1. /\ Answered("import") /\ Closes /\ StartOperation(d.server, Import(w))
          /\ UNCHANGED <<disk, expected, worldList, scan, current>>
      BY <1>2 DEF ImportSelected, selectionVars
    <2>2. dialogs' = <<>> /\ DialogOk(d) /\ d.kind = "import" /\ d.server \in Server
      BY <2>1, WorldsAnswer DEF WorldInv
    <2> HIDE DEF d
    <2>3. ~worldList.menu
      BY <2>2 DEF DialogOk
    <2> QED
      BY <2>1, <2>2, <2>3, ImportBegins
  <1>3. ASSUME NEW w \in World, WorldDropped(w) PROVE WorldInv'
    <2>1. /\ StartOperation(current, Import(w)) /\ ~worldList.menu /\ dialogs' = <<>>
          /\ UNCHANGED <<disk, expected, worldList, scan, current>>
      BY <1>3 DEF WorldDropped, OnWorlds, OnPage, InWindow, selectionVars
    <2> QED
      BY <2>1, ImportBegins
  <1> QED
    BY <1>1, <1>2, <1>3

-----------------------------------------------------------------------------
(* Worlds: the threads.                                                    *)

\* What a thread does to one server is nothing to the others.  A world that is
\* there stays, but for a removal; one that is gone stays so, but for an import.
LEMMA ThreadWorlds ==
  ASSUME WorldInv, current \in Server, NEW s \in Server, op[s] # Idle, op'[s] # Idle,
         op'[s].kind = op[s].kind, DiskInv',
         \A t \in Server : t # s => op'[t] = op[t] /\ disk'[t] = disk[t],
         UNCHANGED <<current, worldList, scan, dialogs>>,
         \A r \in Row : r.server = s =>
           /\ There(r) => There(r)' \/ (Gone(r)' /\ op[s].kind = "remove")
           /\ Gone(r) /\ op[s].kind # "import" => Gone(r)'
  PROVE  WorldInv'
  <1>0. ListInv /\ ShownInv /\ DialogInv
    BY DEF WorldInv
  <1>1. ASSUME NEW r \in worldList.rows \cup scan.found PROVE RowOk(r)'
    <2>1. r \in Row /\ r.server \in Server /\ RowOk(r)
      BY <1>0, <1>1, RowShape DEF ListInv, ListState, Scan, NoScan
    <2>2. CASE r.server = s
      BY <2>1, <2>2 DEF RowOk
    <2>3. CASE r.server # s
      BY <2>1, <2>3 DEF RowOk, There, Gone
    <2> QED
      BY <2>2, <2>3
  <1>2. ListInv'
    BY <1>0, <1>1 DEF ListInv
  <1>3. op'[current] = Idle => /\ op[current] = Idle
                               /\ Inventory(current)' = Inventory(current)
    <2>1. CASE current = s
      BY <2>1
    <2>2. CASE current # s
      BY <2>2 DEF Inventory, Listed
    <2> QED
      BY <2>1, <2>2
  <1>4. ShownInv'
    BY <1>0, <1>3 DEF ShownInv
  <1>5. ASSUME NEW d \in Contents(dialogs) PROVE DialogOk(d)'
    <2>1. DialogOk(d) /\ d \in Dialog
      BY <1>0 DEF DialogInv, DialogsOk, Contents
    <2>2. CASE d.kind = "remove"
      <3>1. d.of \in Row
        BY <2>1, <2>2, PageDialogsOk DEF Dialog, WorldsDialog
      <3>2. d.of.server \in Server /\ d.of.server # s
        BY <2>1, <2>2, <3>1, RowShape DEF DialogOk
      <3> QED
        BY <2>1, <2>2, <3>2 DEF DialogOk, There, Gone
    <2>3. CASE d.kind # "remove"
      BY <2>1, <2>3 DEF DialogOk
    <2> QED
      BY <2>2, <2>3
  <1>6. DialogInv'
    BY <1>0, <1>5 DEF DialogInv
  <1> QED
    BY <1>2, <1>4, <1>6 DEF WorldInv

\* A thread takes a step and goes on.
LEMMA StepShape ==
  ASSUME DiskInv, NEW s \in Server, op[s] # Idle, NEW step, Step(s, step),
         op[s].kind = "import" => step \in {"move", "done"},
         op[s].kind = "remove" => step \in {"delete", "done"}
  PROVE  /\ op' \in [Server -> Operation] /\ op'[s] # Idle /\ op'[s].kind = op[s].kind
         /\ op'[s].step = step /\ op[s].kind \in {"import", "remove"}
         /\ op[s].kind = "remove" => op'[s].folder = op[s].folder /\ op[s].folder \in Folder
         /\ op[s].kind = "import" => op[s].world \in World
         /\ \A t \in Server : t # s => op'[t] = op[t]
  <1>1. op[s] \in Operation \ {Idle} /\ op' = [op EXCEPT ![s].step = step]
    BY DEF DiskInv, Step
  <1> DEFINE n == [op[s] EXCEPT !.step = step]
  <1>2. CASE op[s] \in [kind : {"import"}, world : World, step : {"copy", "move", "done"}]
    <2>1. n \in [kind : {"import"}, world : World, step : {"copy", "move", "done"}]
      BY <1>2
    <2>2. n \in Operation /\ n.kind = "import" /\ n.step = step /\ n # Idle
      BY <1>2, <2>1 DEF Operation, Idle
    <2>3. /\ op' \in [Server -> Operation] /\ op'[s] = n
          /\ \A t \in Server : t # s => op'[t] = op[t]
      BY <1>1, <2>2 DEF DiskInv
    <2> QED
      BY <1>2, <2>2, <2>3
  <1>3. CASE op[s] \in [kind : {"remove"}, folder : Folder, step : {"check", "delete", "done"}]
    <2>1. /\ n \in [kind : {"remove"}, folder : Folder, step : {"check", "delete", "done"}]
          /\ n.folder = op[s].folder
      BY <1>3
    <2>2. n \in Operation /\ n.kind = "remove" /\ n.step = step /\ n # Idle
      BY <1>3, <2>1 DEF Operation, Idle
    <2>3. /\ op' \in [Server -> Operation] /\ op'[s] = n
          /\ \A t \in Server : t # s => op'[t] = op[t]
      BY <1>1, <2>2 DEF DiskInv
    <2> QED
      BY <1>3, <2>1, <2>2, <2>3
  <1> QED
    BY <1>1, <1>2, <1>3 DEF Operation

\* A step that leaves the disk alone.
LEMMA OnlyStep ==
  ASSUME WorldInv, current \in Server, NEW s \in Server, op[s] # Idle, NEW step, Step(s, step),
         op[s].kind = "import" => step \in {"move", "done"},
         op[s].kind = "remove" =>
           step = "done" \/ (step = "delete" /\ disk[s][op[s].folder] # Nothing),
         UNCHANGED <<disk, expected, current, worldList, scan, dialogs>>
  PROVE  WorldInv'
  <1>1. DiskInv
    BY DEF WorldInv
  <1>2. /\ op' \in [Server -> Operation] /\ op'[s] # Idle /\ op'[s].kind = op[s].kind
        /\ op'[s].step = step
        /\ op[s].kind = "remove" => op'[s].folder = op[s].folder
        /\ \A t \in Server : t # s => op'[t] = op[t]
    BY <1>1, StepShape
  <1>3. ASSUME NEW t \in Server, op'[t].kind = "remove"
        PROVE  /\ expected'[t][op'[t].folder] \notin World
               /\ op'[t].step = "delete" => disk'[t][op'[t].folder] # Nothing
    BY <1>1, <1>2, <1>3 DEF DiskInv
  <1>4. DiskInv'
    BY <1>1, <1>2, <1>3 DEF DiskInv, WorldsAreWhole
  <1> QED
    BY <1>2, <1>4, ThreadWorlds DEF There, Gone

LEMMA CopyWorlds ==
  ASSUME WorldInv, current \in Server, NEW s \in Server, WorldCopied(s) \/ RemovalChecked(s)
  PROVE  WorldInv'
  <1>1. UNCHANGED <<disk, expected, current, worldList, scan, dialogs>> /\ op[s] # Idle
    BY DEF WorldCopied, RemovalChecked, sharedVars, selectionVars, Idle
  <1>2. CASE WorldCopied(s)
    BY <1>1, <1>2, OnlyStep DEF WorldCopied
  <1>3. CASE RemovalChecked(s)
    BY <1>1, <1>3, OnlyStep DEF RemovalChecked
  <1> QED
    BY <1>2, <1>3

\* The place an import takes was free, and what the user counted on there was
\* nothing, or gone.
LEMMA MoveWorlds ==
  ASSUME WorldInv, current \in Server, NEW s \in Server, WorldMoved(s)
  PROVE  WorldInv'
  <1>0. DiskInv
    BY DEF WorldInv
  <1>1. /\ op[s].kind = "import" /\ op[s] # Idle /\ Step(s, "done")
        /\ UNCHANGED <<current, worldList, scan, dialogs>>
    BY DEF WorldMoved, sharedVars, selectionVars, Idle
  <1>2. CASE UNCHANGED <<disk, expected>>
    BY <1>1, <1>2, OnlyStep
  <1>3. ASSUME NEW f \in Target(s),
               disk' = [disk EXCEPT ![s][f] = Whole(op[s].world)],
               expected' = [expected EXCEPT ![s][f] = IF @ \in World THEN @ ELSE op[s].world]
        PROVE  WorldInv'
    <2>1. /\ op' \in [Server -> Operation] /\ op'[s] # Idle /\ op'[s].kind = "import"
          /\ op[s].world \in World
          /\ \A t \in Server : t # s => op'[t] = op[t]
      BY <1>0, <1>1, StepShape
    <2>2. f \in Folder /\ disk[s][f] = Nothing
      BY <1>3 DEF Target, Folder
    <2>3. expected[s][f] \notin World
      <3>1. SUFFICES ASSUME expected[s][f] \in World PROVE FALSE
        OBVIOUS
      <3>2. disk[s][f] = Whole(expected[s][f])
        BY <1>0, <2>2, <3>1 DEF DiskInv, WorldsAreWhole
      <3>3. disk[s][f].world \in World /\ Nothing.world = "none"
        BY <3>1, <3>2 DEF Whole, Nothing
      <3> QED
        BY <2>2, <3>3, WorldsAssumption
    <2>4. Whole(op[s].world) \in Place /\ Whole(op[s].world).world = op[s].world
      BY <2>1 DEF Whole, Place
    <2>5. /\ disk' \in [Server -> [Folder -> Place]]
          /\ \A t \in Server, g \in Folder :
               disk'[t][g] = IF t = s /\ g = f THEN Whole(op[s].world) ELSE disk[t][g]
      BY <1>0, <1>3, <2>2, <2>4 DEF DiskInv
    <2>6. /\ expected' \in [Server -> [Folder -> World \cup {"none", "gone"}]]
          /\ \A t \in Server, g \in Folder :
               expected'[t][g] = IF t = s /\ g = f THEN op[s].world ELSE expected[t][g]
      BY <1>0, <1>3, <2>1, <2>2, <2>3 DEF DiskInv
    <2>7. WorldsAreWhole'
      <3>1. ASSUME NEW t \in Server, NEW g \in Folder
            PROVE  /\ expected'[t][g] \in World => disk'[t][g] = Whole(expected'[t][g])
                   /\ expected'[t][g] = "none" => disk'[t][g] = Nothing
        <4>1. CASE t = s /\ g = f
          BY <2>1, <2>5, <2>6, <4>1, WorldsAssumption
        <4>2. CASE ~(t = s /\ g = f)
          <5>1. disk'[t][g] = disk[t][g] /\ expected'[t][g] = expected[t][g]
            BY <2>5, <2>6, <4>2
          <5> QED
            BY <1>0, <5>1 DEF DiskInv, WorldsAreWhole
        <4> QED
          BY <4>1, <4>2
      <3> QED
        BY <3>1 DEF WorldsAreWhole
    <2>8. ASSUME NEW t \in Server, op'[t].kind = "remove"
          PROVE  /\ expected'[t][op'[t].folder] \notin World
                 /\ op'[t].step = "delete" => disk'[t][op'[t].folder] # Nothing
      <3>1. t # s /\ op'[t] = op[t] /\ op[t].folder \in Folder
        BY <1>0, <2>1, <2>8 DEF DiskInv, Operation, Idle
      <3> QED
        BY <1>0, <2>5, <2>6, <2>8, <3>1 DEF DiskInv
    <2>9. DiskInv'
      BY <2>1, <2>5, <2>6, <2>7, <2>8 DEF DiskInv
    <2>10. ASSUME NEW r \in Row, r.server = s PROVE There(r) => There(r)'
      BY <2>2, <2>5, <2>10, RowShape DEF There
    <2>11. \A t \in Server : t # s => disk'[t] = disk[t]
      BY <1>0, <1>3 DEF DiskInv
    <2> QED
      BY <1>1, <2>1, <2>9, <2>10, <2>11, ThreadWorlds
  <1> QED
    BY <1>2, <1>3 DEF WorldMoved

\* What is removed file by file is there until the last one is.
LEMMA DeleteWorlds ==
  ASSUME WorldInv, current \in Server, NEW s \in Server, WorldDeleted(s)
  PROVE  WorldInv'
  <1> DEFINE f == op[s].folder
  <1>0. DiskInv
    BY DEF WorldInv
  <1>1. /\ op[s].kind = "remove" /\ op[s].step = "delete" /\ op[s] # Idle
        /\ UNCHANGED <<expected, current, worldList, scan, dialogs>>
    BY DEF WorldDeleted, sharedVars, selectionVars, Idle
  <1>2. CASE Step(s, "done") /\ UNCHANGED disk
    BY <1>1, <1>2, OnlyStep
  <1>3. f \in Folder
    BY <1>0, <1>1 DEF DiskInv, Operation, Idle
  <1>4. /\ disk[s][f] # Nothing /\ disk[s][f] \in [world : World, whole : BOOLEAN]
        /\ expected[s][f] \notin World /\ expected[s][f] # "none"
    <2>1. disk[s][f] # Nothing /\ disk[s][f] \in Place /\ expected[s][f] \notin World
      BY <1>0, <1>1, <1>3 DEF DiskInv
    <2>2. expected[s][f] # "none"
      BY <1>0, <1>3, <2>1 DEF DiskInv, WorldsAreWhole
    <2> QED
      BY <2>1, <2>2 DEF Place
  <1>5. ASSUME NEW place \in Place, disk' = [disk EXCEPT ![s][f] = place],
               place = Nothing \/ place.world = disk[s][f].world,
               op' \in [Server -> Operation], op'[s] # Idle, op'[s].kind = "remove",
               op'[s].folder = f, op'[s].step = "delete" => place # Nothing,
               \A t \in Server : t # s => op'[t] = op[t]
        PROVE  WorldInv'
    <2> HIDE DEF f
    <2>1. /\ disk' \in [Server -> [Folder -> Place]]
          /\ \A t \in Server, g \in Folder :
               disk'[t][g] = IF t = s /\ g = f THEN place ELSE disk[t][g]
          /\ \A t \in Server : t # s => disk'[t] = disk[t]
      BY <1>0, <1>3, <1>5 DEF DiskInv
    <2>2. WorldsAreWhole'
      <3>1. ASSUME NEW t \in Server, NEW g \in Folder
            PROVE  /\ expected[t][g] \in World => disk'[t][g] = Whole(expected[t][g])
                   /\ expected[t][g] = "none" => disk'[t][g] = Nothing
        <4>1. CASE t = s /\ g = f
          BY <1>4, <4>1
        <4>2. CASE ~(t = s /\ g = f)
          <5>1. disk'[t][g] = disk[t][g]
            BY <2>1, <4>2
          <5> QED
            BY <1>0, <5>1 DEF DiskInv, WorldsAreWhole
        <4> QED
          BY <4>1, <4>2
      <3> QED
        BY <1>1, <3>1 DEF WorldsAreWhole
    <2>3. ASSUME NEW t \in Server, op'[t].kind = "remove"
          PROVE  /\ expected'[t][op'[t].folder] \notin World
                 /\ op'[t].step = "delete" => disk'[t][op'[t].folder] # Nothing
      <3>1. CASE t = s
        BY <1>1, <1>3, <1>4, <1>5, <2>1, <3>1
      <3>2. CASE t # s
        <4>1. op'[t] = op[t] /\ disk'[t] = disk[t]
          BY <1>5, <2>1, <3>2
        <4> QED
          BY <1>0, <1>1, <2>3, <4>1 DEF DiskInv
      <3> QED
        BY <3>1, <3>2
    <2>4. DiskInv'
      BY <1>0, <1>1, <1>5, <2>1, <2>2, <2>3 DEF DiskInv
    <2>5. ASSUME NEW r \in Row, r.server = s
          PROVE  /\ There(r) => There(r)' \/ Gone(r)'
                 /\ Gone(r) => Gone(r)'
      BY <1>4, <1>5, <2>1, <2>5, RowShape DEF There, Gone
    <2> QED
      BY <1>1, <1>5, <2>1, <2>4, <2>5, ThreadWorlds
  <1>6. CASE disk' = [disk EXCEPT ![s][f].whole = FALSE] /\ UNCHANGED op
    <2> DEFINE place == [disk[s][f] EXCEPT !.whole = FALSE]
    <2>1. place \in Place /\ place # Nothing /\ place.world = disk[s][f].world
      BY <1>4, WorldsAssumption DEF Place, Nothing
    <2>2. disk' = [disk EXCEPT ![s][f] = place]
      BY <1>6
    <2> HIDE DEF place
    <2> QED
      BY <1>0, <1>1, <1>5, <1>6, <2>1, <2>2 DEF DiskInv
  <1>7. CASE disk' = [disk EXCEPT ![s][f] = Nothing] /\ Step(s, "done")
    <2>1. /\ op' \in [Server -> Operation] /\ op'[s] # Idle /\ op'[s].kind = "remove"
          /\ op'[s].step = "done" /\ op'[s].folder = f
          /\ \A t \in Server : t # s => op'[t] = op[t]
      BY <1>0, <1>1, <1>7, StepShape
    <2>2. Nothing \in Place
      BY DEF Place
    <2> QED
      BY <1>5, <1>7, <2>1, <2>2
  <1> QED
    BY <1>2, <1>6, <1>7 DEF WorldDeleted

\* An operation that ends has the list of its server read anew; the list of
\* another one that is still shown waits for a menu.
LEMMA FinishedWorlds ==
  ASSUME WorldInv, current \in Server, NEW s \in Server, OperationFinished(s)
  PROVE  WorldInv'
  <1>0. DiskInv /\ ListInv /\ ShownInv /\ DialogInv
    BY DEF WorldInv
  <1>1. /\ op' = [op EXCEPT ![s] = Idle] /\ UNCHANGED <<disk, expected, current, dialogs>>
        /\ \/ current = s /\ RefreshWorldList(s)
           \/ current # s /\ UNCHANGED <<worldList, scan>>
    BY DEF OperationFinished, selectionVars
  <1>2. /\ op' \in [Server -> Operation] /\ op'[s] = Idle
        /\ \A t \in Server : t # s => op'[t] = op[t]
    BY <1>0, <1>1, OperationShape DEF DiskInv
  <1>3. Idle.kind = "idle"
    BY DEF Idle
  <1>4. DiskInv'
    BY <1>0, <1>1, <1>2, <1>3 DEF DiskInv, WorldsAreWhole
  <1>5. ListInv' /\ ShownInv' /\ worldList'.menu = worldList.menu
    <2>1. CASE current = s /\ RefreshWorldList(s)
      <3>1. ListInv' /\ ShownInv'
        BY <1>0, <1>1, <1>2, <2>1, ListRefreshed, RowShape
      <3>2. worldList'.menu = worldList.menu
        BY <1>0, <2>1 DEF RefreshWorldList, ListInv, ListState
      <3> QED
        BY <3>1, <3>2
    <2>2. CASE current # s /\ UNCHANGED <<worldList, scan>>
      <3>1. ASSUME NEW r \in worldList.rows \cup scan.found PROVE RowOk(r)'
        <4>1. r.server \in Server /\ RowOk(r)
          BY <1>0, <3>1, RowShape DEF ListInv, ListState, Scan, NoScan
        <4>2. CASE r.server = s
          <5>1. op'[r.server].kind = "idle"
            BY <1>2, <1>3, <4>2
          <5>2. worldList.pending /\ (There(r) \/ worldList.timer \/ Gone(r))
            BY <2>2, <4>1, <4>2 DEF RowOk
          <5> QED
            BY <1>1, <2>2, <5>1, <5>2 DEF RowOk, There, Gone
        <4>3. CASE r.server # s
          BY <1>1, <1>2, <2>2, <4>1, <4>3 DEF RowOk, There, Gone
        <4> QED
          BY <4>2, <4>3
      <3>2. ListInv'
        BY <1>0, <2>2, <3>1 DEF ListInv
      <3>3. Inventory(current)' = Inventory(current) /\ op'[current] = op[current]
        BY <1>1, <1>2, <2>2 DEF Inventory, Listed
      <3>4. ShownInv'
        BY <1>0, <1>1, <2>2, <3>3 DEF ShownInv
      <3> QED
        BY <2>2, <3>2, <3>4
    <2> QED
      BY <1>1, <2>1, <2>2
  <1>6. ASSUME NEW d \in Contents(dialogs) PROVE DialogOk(d)'
    <2>1. DialogOk(d) /\ d \in Dialog
      BY <1>0 DEF DialogInv, DialogsOk, Contents
    <2>2. CASE d.kind = "remove"
      <3>1. d.of \in Row
        BY <2>1, <2>2, PageDialogsOk DEF Dialog, WorldsDialog
      <3>2. op'[d.of.server] = Idle
        BY <1>2, <2>1, <2>2, <3>1, RowShape DEF DialogOk
      <3> QED
        BY <1>1, <2>1, <2>2, <3>2 DEF DialogOk, There, Gone
    <2>3. CASE d.kind # "remove"
      BY <1>5, <2>1, <2>3 DEF DialogOk
    <2> QED
      BY <2>2, <2>3
  <1>7. DialogInv'
    BY <1>0, <1>1, <1>6 DEF DialogInv
  <1> QED
    BY <1>4, <1>5, <1>7 DEF WorldInv

-----------------------------------------------------------------------------
(* Worlds: every step.                                                     *)

LEMMA WorldsSteppedWorlds ==
  ASSUME WorldInv, AtRest, current \in Server, WorldsUser \/ WorldsThread PROVE WorldInv'
  <1>1. CASE WorldsUser
    <2>1. CASE MenuOpened
      BY <2>1, MenuWorlds
    <2>2. CASE WorldsRefreshed \/ ImportClicked
      BY <2>2, AskedWorlds
    <2>3. CASE ImportDismissed \/ \E w \in World : ImportSelected(w) \/ WorldDropped(w)
      BY <2>3, ImportAnswerWorlds
    <2> QED
      BY <1>1, <2>1, <2>2, <2>3, RemovalClickWorlds, RemovalAnswerWorlds DEF WorldsUser
  <1>2. CASE WorldsThread
    <2>1. CASE MenuClosed \/ RefreshAfterMenu
      BY <2>1, MenuWorlds
    <2>2. CASE InventoryRead \/ InventoryFinished
      BY <2>2, ReadingWorlds
    <2>3. ASSUME NEW s \in Server,
                 \/ WorldCopied(s) \/ WorldMoved(s) \/ RemovalChecked(s)
                 \/ WorldDeleted(s) \/ OperationFinished(s)
          PROVE  WorldInv'
      BY <2>3, CopyWorlds, MoveWorlds, DeleteWorlds, FinishedWorlds
    <2> QED
      BY <1>2, <2>1, <2>2, <2>3 DEF WorldsThread
  <1> QED
    BY <1>1, <1>2

LEMMA NextWorldInv == AtRest /\ FormInv /\ PlayerInv /\ WorldInv /\ [Next]_vars => WorldInv'
  <1> SUFFICES ASSUME AtRest, FormInv, PlayerInv, WorldInv, [Next]_vars PROVE WorldInv'
    OBVIOUS
  <1>0. current \in Server
    BY DEF FormInv
  <1>1. CASE UNCHANGED vars
    BY <1>1, OtherWorlds DEF vars, sharedVars, selectionVars, worldVars, DialogStep
  <1>2. CASE ProgramStartsAnew
    BY <1>2, StartingWorlds DEF ProgramStartsAnew, WorldInv
  <1>3. CASE CommandLine \/ MachineStops
    BY <1>2, <1>3, ActivationWorlds DEF CommandLine, ProgramCloses, MachineStops
  <1>4. CASE WorldsStep
    BY <1>0, <1>4, WorldsSteppedWorlds DEF WorldsStep
  <1> QED
    BY <1>1, <1>3, <1>4, ServerWorlds, DomainsWorlds, PlayersWorlds, SettingsWorlds DEF Next

LEMMA WorldsKept == Spec => [](AtRest /\ FormInv /\ PlayerInv /\ WorldInv)
  <1> DEFINE Inv == AtRest /\ FormInv /\ PlayerInv /\ WorldInv
  <1>1. Init => Inv
    BY InitAtRest, InitFormInv, InitPlayerInv, InitWorldInv
  <1>2. Inv /\ [Next]_vars => Inv'
    BY NextAtRest, NextFormInv, NextPlayerInv, NextWorldInv
  <1> QED
    BY <1>1, <1>2, PTL DEF Spec

\* A world the user counts on is whole in its folder, for any number of servers,
\* worlds and names: an import takes a free place in one step, and what a removal
\* deletes is, since its dialog opened, what the user saw or nothing, because the
\* server is at rest meanwhile and rows of a list put off cannot be clicked.
THEOREM WorldsStayWhole == Spec => []WorldsAreWhole
  <1>1. WorldInv => WorldsAreWhole
    BY DEF WorldInv, DiskInv
  <1> QED
    BY <1>1, WorldsKept, PTL

\* The Worlds page shows what is on disk once no work is left, for any number of
\* servers: what the reading thread brings is of the selected server, every end
\* of an operation there has the list read anew, and one put off is marked so.
THEOREM ListTellsDisk == Spec => []ListShowsDisk
  <1>1. WorldInv => ListShowsDisk
    BY DEF WorldInv, ShownInv, ListShowsDisk
  <1> QED
    BY <1>1, WorldsKept, PTL
=============================================================================
