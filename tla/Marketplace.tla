----------------------------- MODULE Marketplace -----------------------------
(***************************************************************************)
(* The plugin catalogue and the account of the Marketplace: the requests   *)
(* of src/src/marketplace-request.c with their deadline, the pages and the *)
(* cache of src/src/window.c, and the API key with the worker threads of   *)
(* src/src/marketplace-credentials.c.  Plugins adds the plugin files.      *)
(*                                                                         *)
(* A search is the text of the search entry and a page.  The generation    *)
(* counters are compared with their present value only, so a context       *)
(* carries the flag "fresh" and whatever increments a counter clears it.   *)
(***************************************************************************)
EXTENDS Naturals, FiniteSets

CONSTANTS
  Texts,        \* what may be in the search entry; "" is the empty text
  Keys,         \* API keys
  SavedKey,     \* the key in the keyring when the program starts, or NoKey
  NoKey,
  MaxPage,      \* bound: pages looked at
  MaxRequests   \* bound: requests that have not ended at a time

ASSUME MarketplaceAssumption ==
  /\ "" \in Texts
  /\ NoKey \notin Keys /\ SavedKey \in Keys \cup {NoKey}
  /\ MaxPage \in Nat \ {0} /\ MaxRequests \in Nat \ {0}

VARIABLES
  text, page,    \* the search entry and market_page
  tab,           \* the visible child of plugins_stack
  loading,       \* marketplace_loading
  shown,         \* the list: plugins of a search, an error or nothing yet
  wanted,        \* history: the search whose page was asked for last
  requests,      \* the MarketplaceRequests and their fetch contexts
  cache,         \* market_plugin_cache and market_cache_error
  key,           \* marketplace_access_token
  validations,   \* key validations whose answer has not come
  keyTasks,      \* credential tasks: in a worker thread or with a callback due
  keyring,       \* the key the system keeps
  asked,         \* history: keys the user asked for since the last disconnect
  dialog         \* the dialog that is open, over everything else

pageVars == <<text, page, tab, loading, shown, wanted, requests, cache>>
keyVars == <<key, validations, keyTasks, keyring, asked>>
marketVars == <<pageVars, keyVars, dialog>>

NoDialog == [kind |-> "none"]

Search == [text : Texts, page : 1 .. MaxPage]
Requests == 1 .. MaxRequests
Ended(calls) == [phase |-> "ended", calls |-> calls]
Here == [text |-> text, page |-> page]
FirstPage == [text |-> "", page |-> 1]
Listed(s) == [what |-> "plugins", search |-> s]
LoadError == [what |-> "error", search |-> FirstPage]

-----------------------------------------------------------------------------
(* Requests.  The deadline is the program's, the end of the transfer comes *)
(* from the network or from the cancellation.                              *)

Live(i) == requests[i].phase # "ended"

\* market_cache_fetch_in_flight: from the request to its callback.
CacheFetching == \E i \in Requests : requests[i].phase = "open" /\ requests[i].cache

\* g_cancellable_cancel and the next generation: what is under way for the
\* page is cancelled and no longer fresh.
Abandoned(rs) ==
  [i \in Requests |-> IF rs[i].phase # "ended" /\ ~rs[i].cache
     THEN [rs[i] EXCEPT !.fresh = FALSE, !.cancelled = TRUE] ELSE rs[i]]

\* pumpkin_marketplace_request_async
Sent(rs, s, forCache) ==
  LET i == CHOOSE j \in Requests : rs[j].phase = "ended" IN
  [rs EXCEPT ![i] = [phase |-> "open", calls |-> 0, cache |-> forCache, search |-> s,
                     fresh |-> TRUE, cancelled |-> FALSE]]

\* Only a bound: the program opens as many requests as it likes.
RoomFor(n) == Cardinality({i \in Requests : ~Live(i)}) >= n

\* fetch_market_plugins_async for the visible page
FetchPage(s) ==
  /\ RoomFor(1)
  /\ requests' = Sent(Abandoned(requests), s, FALSE)
  /\ loading' = TRUE /\ wanted' = s
  /\ UNCHANGED <<shown, cache>>

\* Seeded fault: the answer is compared with the text that is in the entry now.
CountsHere(r) == r.cache \/ r.search = Here

\* on_market_fetch_done ignores the answer to an earlier search.
Counts(r) == r.cache \/ r.fresh

\* on_market_fetch_done with a list of plugins or an error, called by r.
FetchDone(r, ok) ==
  IF ~Counts(r) THEN UNCHANGED <<loading, shown, cache>>
  ELSE IF r.cache
  THEN /\ cache' = [state |-> IF ok THEN "plugins"
                              ELSE IF cache.state = "none" THEN "error" ELSE cache.state,
                    fresh |-> TRUE]
       /\ UNCHANGED <<loading, shown>>
  ELSE /\ loading' = FALSE
       /\ shown' = IF ok THEN Listed(r.search) ELSE LoadError
       /\ UNCHANGED cache

\* request_timed_out: the task is completed with an error, whose callback runs
\* at once, and the transfer is cancelled.
RequestTimedOut(i) ==
  LET r == requests[i] IN
  /\ r.phase = "open"
  /\ requests' = [requests EXCEPT ![i] = [r EXCEPT !.phase = "completed", !.calls = @ + 1]]
  /\ FetchDone(r, FALSE)
  /\ UNCHANGED <<text, page, tab, wanted, keyVars, dialog>>

StillOpen(r) == r.phase = "open"

\* request_done: the transfer ends; the task is completed unless the deadline
\* has done so.  A cancelled task reports the cancellation.
RequestDone(i) ==
  LET r == requests[i] IN
  /\ Live(i)
  /\ requests' = [requests EXCEPT ![i] = Ended(IF StillOpen(r) THEN r.calls + 1 ELSE r.calls)]
  /\ IF StillOpen(r)
       THEN \E ok \in {FALSE, ~r.cancelled} : FetchDone(r, ok)
       ELSE UNCHANGED <<loading, shown, cache>>
  /\ UNCHANGED <<text, page, tab, wanted, keyVars, dialog>>

-----------------------------------------------------------------------------
(* The pages of the catalogue.                                             *)

\* The text in the entry does nothing until it is activated.
TypeText(t) ==
  /\ tab = "marketplace" /\ t # text
  /\ text' = t
  /\ UNCHANGED <<page, tab, loading, shown, wanted, requests, cache, keyVars, dialog>>

\* on_marketplace_search_activate, and a change of type, sort or sort order;
\* the two page buttons.
NewSearch(p) ==
  /\ tab = "marketplace"
  /\ p \in {1} \cup (IF loading THEN {} ELSE {page - 1, page + 1} \cap 1 .. MaxPage)
  /\ page' = p
  /\ FetchPage([text |-> text, page |-> p])
  /\ UNCHANGED <<text, tab, keyVars, dialog>>

\* show_marketplace_page when nothing has to be forced: the first page comes
\* from a fresh cache.
ShowPage ==
  IF cache.fresh /\ Here = FirstPage
    THEN /\ IF cache.state = "plugins"
              THEN /\ requests' = Abandoned(requests)
                   /\ shown' = Listed(FirstPage) /\ wanted' = FirstPage
              ELSE /\ shown' = LoadError
                   /\ UNCHANGED <<requests, wanted>>
         /\ loading' = FALSE
         /\ UNCHANGED cache
    ELSE FetchPage(Here)

\* on_plugins_stack_visible_child_changed with request_market_plugin_cache
ShowMarketplace ==
  /\ tab = "installed"
  /\ tab' = "marketplace"
  /\ ShowPage
  /\ UNCHANGED <<text, page, keyVars, dialog>>

ShowInstalled ==
  /\ tab = "marketplace"
  /\ tab' = "installed"
  /\ IF CacheFetching \/ cache.fresh
       THEN UNCHANGED requests
       ELSE RoomFor(1) /\ requests' = Sent(requests, FirstPage, TRUE)
  /\ UNCHANGED <<text, page, loading, shown, wanted, cache, keyVars, dialog>>

\* on_plugin_market_clicked: the change of tab fetches the page once, and it is
\* then fetched again because it is forced.
ViewInMarketplace(t) ==
  /\ tab = "installed"
  /\ tab' = "marketplace" /\ text' = t /\ page' = 1
  /\ LET s == [text |-> t, page |-> 1]
         first == IF cache.fresh /\ s = FirstPage
                    THEN IF cache.state = "plugins" THEN Abandoned(requests) ELSE requests
                    ELSE Sent(Abandoned(requests), s, FALSE)
     IN /\ RoomFor(2)
        /\ requests' = Sent(Abandoned(first), s, FALSE)
        /\ loading' = TRUE /\ wanted' = s
        /\ shown' = IF cache.fresh /\ s = FirstPage
                      THEN IF cache.state = "plugins" THEN Listed(s) ELSE LoadError
                      ELSE shown
  /\ UNCHANGED <<cache, keyVars, dialog>>

\* on_plugins_marketplace_clicked with the refresh or retry button.
RefreshPage ==
  /\ tab = "marketplace" /\ ~loading
  /\ FetchPage(Here)
  /\ UNCHANGED <<text, page, tab, keyVars, dialog>>

\* market_cache_is_fresh: ten seconds have gone by.
CacheAges ==
  /\ cache.fresh
  /\ cache' = [cache EXCEPT !.fresh = FALSE]
  /\ UNCHANGED <<text, page, tab, loading, shown, wanted, requests, keyVars, dialog>>

-----------------------------------------------------------------------------
(* The API key.                                                            *)

Validating == \E v \in validations : v.fresh
Outdated(contexts) == {[c EXCEPT !.fresh = FALSE] : c \in contexts}

\* marketplace_validate_access_token_async: nothing while a validation is in
\* flight; every context made so far is outdated.
Validate(k) ==
  IF Validating THEN UNCHANGED <<validations, keyTasks>>
  ELSE /\ validations' = Outdated(validations) \cup {[key |-> k, fresh |-> TRUE]}
       /\ keyTasks' = Outdated(keyTasks)

\* on_marketplace_account_clicked offers what fits the state it meets.
AccountClicked ==
  /\ dialog' = [kind |-> IF key = NoKey THEN "connect" ELSE "disconnect"]
  /\ UNCHANGED <<pageVars, keyVars>>

\* on_marketplace_account_response with "connect"
Connect(k) ==
  /\ dialog.kind = "connect" /\ dialog' = NoDialog
  /\ Validate(k)
  /\ asked' = asked \cup {k}
  /\ UNCHANGED <<key, keyring, pageVars>>

\* on_marketplace_account_response with "disconnect"
Disconnect ==
  /\ dialog.kind = "disconnect" /\ dialog' = NoDialog
  /\ key' = NoKey /\ asked' = {}
  /\ validations' = Outdated(validations)
  /\ keyTasks' = Outdated(keyTasks)
       \cup {[op |-> "clear", key |-> NoKey, fresh |-> TRUE, done |-> FALSE]}
  /\ FetchPage(Here)
  /\ UNCHANGED <<keyring, text, page, tab>>

\* Seeded fault: the answer to a validation of an earlier generation connects.
CurrentAlways(v) == TRUE

Current(v) == v.fresh

\* on_marketplace_key_validation_done: pumpkin_marketplace_auth_error confirms
\* the key or not.
ValidationDone(v) ==
  /\ validations' = validations \ {v}
  /\ \E confirmed \in BOOLEAN :
       IF Current(v) /\ confirmed
         THEN /\ key' = v.key
              /\ keyTasks' = keyTasks
                   \cup {[op |-> "store", key |-> v.key, fresh |-> TRUE, done |-> FALSE]}
              /\ FetchPage(Here)
         ELSE UNCHANGED <<key, keyTasks, loading, shown, wanted, requests, cache>>
  /\ UNCHANGED <<keyring, asked, text, page, tab, dialog>>

\* credential_task in its thread: threads run in any order.  Storing and
\* clearing may fail.
KeyTaskRuns(t) ==
  /\ ~t.done
  /\ keyTasks' = (keyTasks \ {t}) \cup
       {[t EXCEPT !.done = TRUE, !.key = IF t.op = "load" THEN keyring ELSE @]}
  /\ \E succeeds \in BOOLEAN :
       keyring' = IF succeeds /\ t.op # "load" THEN t.key ELSE keyring
  /\ UNCHANGED <<key, validations, asked, pageVars, dialog>>

\* on_marketplace_credentials_loaded, _stored and _cleared; the last two only
\* report.
KeyTaskDone(t) ==
  /\ t.done
  /\ LET rest == keyTasks \ {t} IN
     IF t.op = "load" /\ t.fresh /\ t.key # NoKey /\ key = NoKey /\ ~Validating
       THEN /\ validations' = Outdated(validations) \cup {[key |-> t.key, fresh |-> TRUE]}
            /\ keyTasks' = Outdated(rest)
       ELSE keyTasks' = rest /\ UNCHANGED validations
  /\ UNCHANGED <<key, keyring, asked, pageVars, dialog>>

-----------------------------------------------------------------------------
\* The program has started and loads the key.
MarketInit ==
  /\ text = "" /\ page = 1 /\ tab = "installed"
  /\ loading = FALSE /\ shown = [what |-> "nothing", search |-> FirstPage] /\ wanted = FirstPage
  /\ requests = [i \in Requests |-> Ended(0)]
  /\ cache = [state |-> "none", fresh |-> FALSE]
  /\ key = NoKey /\ validations = {} /\ keyring = SavedKey
  /\ keyTasks = {[op |-> "load", key |-> NoKey, fresh |-> TRUE, done |-> FALSE]}
  /\ asked = {SavedKey} \ {NoKey}
  /\ dialog = NoDialog

MarketUser ==
  \/ /\ dialog = NoDialog
     /\ \/ \E t \in Texts : TypeText(t) \/ ViewInMarketplace(t)
        \/ \E p \in 1 .. MaxPage : NewSearch(p)
        \/ ShowMarketplace \/ ShowInstalled \/ RefreshPage
        \/ AccountClicked
  \/ \E k \in Keys : Connect(k)
  \/ Disconnect

MarketStep ==
  \/ \E i \in Requests : RequestTimedOut(i) \/ RequestDone(i)
  \/ CacheAges
  \/ \E v \in validations : ValidationDone(v)
  \/ \E t \in keyTasks : KeyTaskRuns(t) \/ KeyTaskDone(t)

MarketTypeOK ==
  /\ text \in Texts /\ page \in 1 .. MaxPage
  /\ tab \in {"installed", "marketplace"}
  /\ loading \in BOOLEAN
  /\ shown \in [what : {"plugins", "error", "nothing"}, search : Search] /\ wanted \in Search
  /\ \A i \in Requests :
       \/ requests[i] \in [phase : {"ended"}, calls : 0 .. 1]
       \/ requests[i] \in [phase : {"open", "completed"}, calls : 0 .. 1, cache : BOOLEAN,
                           search : Search, fresh : BOOLEAN, cancelled : BOOLEAN]
  /\ cache \in [state : {"none", "plugins", "error"}, fresh : BOOLEAN]
  /\ key \in Keys \cup {NoKey} /\ keyring \in Keys \cup {NoKey} /\ asked \subseteq Keys
  /\ validations \subseteq [key : Keys, fresh : BOOLEAN]
  /\ keyTasks \subseteq [op : {"load", "store", "clear"}, key : Keys \cup {NoKey},
                         fresh : BOOLEAN, done : BOOLEAN]

\* Answers that come too late are ignored: a page that is shown is the one asked
\* for last, and a key is only connected if the user has not given it up since,
\* whatever was on its way when another search began or when the user
\* disconnected.  A request that has timed out is not answered once more.
LateAnswersAreIgnored ==
  /\ \A i \in Requests : requests[i].calls <= 1
  /\ ~loading /\ shown.what = "plugins" => shown.search = wanted
  /\ key # NoKey => key \in asked
=============================================================================
