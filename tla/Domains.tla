------------------------------- MODULE Domains -------------------------------
(***************************************************************************)
(* The Domains page and dynamic DNS (src/src/window.c): the form that      *)
(* edits the domain of a server, and the thread that tells the provider    *)
(* the address, for all servers that are due or for one.                   *)
(***************************************************************************)
EXTENDS Selection

VARIABLES
  domainForm,  \* the form of the page
  due,         \* per server: the interval since the last synchronisation is over
  inFlight,    \* ddns_sync_in_flight
  request,     \* the servers the thread is at work on, with their domains
  tried        \* history, per server: the domain last synchronised

domainVars == <<domainForm, due, inFlight, request, tried>>

DomainsTypeOK ==
  /\ domainForm \in Entries(Domain)
  /\ request \subseteq [server : Server, domain : Entries(Domain)]
  /\ tried \in [Server -> Entries(Domain)]
  /\ inFlight \in BOOLEAN /\ due \in [Server -> BOOLEAN]

DomainsInit ==
  /\ domainForm = record[First].domain
  /\ due = [s \in Server |-> TRUE]
  /\ inFlight = FALSE
  /\ request = {}
  /\ tried = [s \in Server |-> record[s].domain]

-----------------------------------------------------------------------------
\* update_domains_form, with s selected.
UpdateDomainsForm(s) == domainForm' = record'[s].domain

\* Seeded fault: the flag is set before it is known whether there is anything to do.
SyncStartUnchecked(chosen) ==
  IF inFlight THEN UNCHANGED <<inFlight, request>>
  ELSE /\ inFlight' = TRUE
       /\ request' = {[server |-> s, domain |-> record'[s].domain] :
                        s \in {t \in chosen : record'[t].domain.value # "off"}}

\* ddns_sync_start, for the servers among chosen.
SyncStart(chosen) ==
  LET wanted == {s \in chosen : record'[s].domain.value # "off"}
  IN IF inFlight \/ wanted = {} THEN UNCHANGED <<inFlight, request>>
     ELSE /\ inFlight' = TRUE
          /\ request' = {[server |-> s, domain |-> record'[s].domain] : s \in wanted}

\* ddns_tick
DdnsTick ==
  /\ UNCHANGED <<domainForm, due, tried, sharedVars>>
  /\ SyncStart({s \in Server : due[s]})

\* on_ddns_sync_now
SyncNow ==
  /\ OnPage("settings")
  /\ UNCHANGED <<domainForm, due, tried, selectionVars, viewVars, serverVars, recordVars, dialogs>>
  /\ SyncStart({current})

\* The user edits the form, for the server he sees.
DomainEntered(d) ==
  /\ OnPage("settings")
  /\ domainForm' = Entry(current, d)
  /\ UNCHANGED <<due, inFlight, request, tried, selectionVars, viewVars, serverVars, recordVars, dialogs>>

\* on_save_domains; when the file cannot be written, memory has changed and
\* nothing is started.
DomainSaved ==
  /\ OnPage("settings")
  /\ record' = [record EXCEPT ![current].domain = domainForm]
  /\ \/ UNCHANGED <<file, domainForm, inFlight, request>>
     \/ /\ file' = [file EXCEPT ![current] = record'[current]]
        /\ UpdateDomainsForm(current)
        /\ SyncStart({current})
  /\ UNCHANGED <<due, tried, selectionVars, viewVars, serverVars, dialogs>>

\* ddns_sync_cloudflare_server finds or makes the record of a domain; one that
\* is new to the program is stored with its server.
NewRecords(addressFound) ==
  IF addressFound THEN SUBSET {r.server : r \in request} ELSE {{}}

\* on_ddns_sync_done: without a public address the servers stay due.
SyncDone(addressFound) ==
  /\ request # {}
  /\ \E new \in NewRecords(addressFound) :
       file' = [s \in Server |-> IF s \in new THEN record[s] ELSE file[s]]
  /\ inFlight' = FALSE
  /\ request' = {}
  /\ due' = [s \in Server |-> due[s] /\ ~(addressFound /\ \E r \in request : r.server = s)]
  /\ tried' = [s \in Server |-> IF \E r \in request : r.server = s
                                THEN (CHOOSE r \in request : r.server = s).domain
                                ELSE tried[s]]
  /\ UNCHANGED <<selectionVars, viewVars, serverVars, dialogs, record, events>>
  /\ UpdateDomainsForm(current)

\* The interval of a server is over.
IntervalPasses(s) ==
  /\ ~due[s]
  /\ due' = [due EXCEPT ![s] = TRUE]
  /\ UNCHANGED <<domainForm, inFlight, request, tried, sharedVars>>

\* The program ends without warning, and starts again.
DomainsLost ==
  /\ UpdateDomainsForm(First)
  /\ due' = [s \in Server |-> TRUE]
  /\ inFlight' = FALSE
  /\ request' = {}
  /\ UNCHANGED tried
=============================================================================
