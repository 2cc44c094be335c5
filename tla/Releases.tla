------------------------------ MODULE Releases ------------------------------
(***************************************************************************)
(* Release channels, update checks and automatic updates of                *)
(* src/src/window.c, with the release metadata of                          *)
(* src/src/release-metadata.c and the query of src/src/download.c.         *)
(*                                                                         *)
(* A build is known by the channel it was published on and its number      *)
(* there.  The Nightly release is rolling: its download URL stays the same *)
(* and serves whatever was published last, while a Stable build keeps a    *)
(* URL of its own.  An update job is reduced to what decides which build   *)
(* is installed and recorded; UpdateFlow has its files and its failures.   *)
(***************************************************************************)
EXTENDS Naturals, FiniteSets, FiniteSetsExt

CONSTANTS
  ServerCount,   \* servers 1 .. ServerCount, in the order of the store
  AutoUpdated,   \* those with automatic updates
  Scheduled,     \* those of them with a scheduled minute, the same for all
  CountdownFrom, \* seconds of the countdown (10 in the code)
  MaxBuilds,     \* bound: builds published per channel
  MaxEvents      \* bound: what users and publishers do and jobs that fail, in all

Servers == 1 .. ServerCount
Channels == {"nightly", "stable"}

ASSUME ReleasesAssumption ==
  /\ ServerCount \in Nat \ {0}
  /\ AutoUpdated \subseteq Servers /\ Scheduled \subseteq AutoUpdated
  /\ CountdownFrom \in Nat \ {0}
  /\ MaxBuilds \in Nat \ {0} /\ MaxEvents \in Nat

VARIABLES
  channel,    \* the release channel of the configuration
  published,  \* per channel, the number of its last build
  queries,    \* release queries whose callback has not run
  latest,     \* latest_url, latest_build_id and latest_build_label
  failed,     \* latest_error is set
  current,    \* the selected server
  url,        \* per server, download_url
  phase,      \* per server, what its process does
  installed,  \* per server, installed_build_id
  binary,     \* per server, the build its executable really is
  origin,     \* per server, the cached file it is a copy of
  cache,      \* per build identity, the build the cached file really is
  job,        \* per server, its DownloadContext
  countdown,  \* auto_update_server and auto_update_countdown_remaining
  attempt,    \* auto_update_last_* and the cooldown
  minute,     \* the local time is the scheduled minute
  events

autoVars == <<countdown, attempt>>
vars == <<channel, published, queries, latest, failed, current, url, phase,
          installed, binary, origin, cache, job, autoVars, minute, events>>

Builds == [ch : Channels, n : 1 .. MaxBuilds]
NoBuild == [ch |-> "none", n |-> 0]
CustomBuild == [ch |-> "custom", n |-> 0]
\* n = 0 stands for a URL that serves the last build of its channel.
Urls == [ch : Channels \cup {"custom"}, n : 0 .. MaxBuilds]
Rolling(c) == [ch |-> c, n |-> 0]

NoJob == [stage |-> "none", url |-> Rolling("custom"), id |-> NoBuild,
          content |-> NoBuild, caching |-> FALSE, restart |-> FALSE]
NoCountdown == [server |-> 0, left |-> 0]

-----------------------------------------------------------------------------
(* Release metadata and what follows from it.                              *)

\* What GitHub may answer: a release with its flags and its asset for this
\* platform.
Replies == [tag : {"nightly", "stable", "canary"}, n : 1 .. MaxBuilds,
            draft : BOOLEAN, prerelease : BOOLEAN,
            asset : {"uploaded", "incomplete", "missing"}]

\* pumpkin_release_parse_metadata: a release of the channel asked for, with an
\* asset whose URL, state and identity are in order.
ParseMetadata(reply, c) ==
  IF /\ ~reply.draft
     /\ \/ c = "nightly" /\ reply.tag = "nightly"
        \/ c = "stable" /\ reply.tag = "stable" /\ ~reply.prerelease
     /\ reply.asset = "uploaded"
    THEN [ch |-> c, n |-> reply.n]
    ELSE NoBuild

\* The URL the metadata gives for a build.
UrlOf(build) == IF build.ch = "nightly" THEN Rolling("nightly") ELSE build

\* pumpkin_release_is_managed_url: a URL of the project's own releases.
Managed(s) == url[s].ch # "custom"

Installed(s) == binary[s] # NoBuild

UpdateByMetadata(s, l) ==
  Installed(s) /\ l # NoBuild /\ Managed(s) /\ installed[s] # l

\* Equal in size and modification time: g_file_copy keeps the time, so copies of
\* one cached file are equal, and downloads are not.
SameSignature(s, p) == origin[s] = origin[p] /\ origin[s] # NoBuild

\* is_update_available_for_server: outdated itself, or the same executable as
\* another server that is.
UpdateAvailable(s, l) ==
  /\ Installed(s) /\ Managed(s)
  /\ \/ UpdateByMetadata(s, l)
     \/ \E p \in Servers \ {s} : SameSignature(s, p) /\ UpdateByMetadata(p, l)

AnyDownloadActive == \E s \in Servers : job[s].stage # "none"
InFlight == \E q \in queries : q.fresh
Counting == countdown # NoCountdown

\* update_check_updates_badge
Badge(s) ==
  IF ~Managed(s) THEN "Custom source"
  ELSE IF InFlight THEN "Checking..."
  ELSE IF failed THEN "Check failed"
  ELSE IF latest = NoBuild THEN "Check updates"
  ELSE IF UpdateAvailable(s, latest) THEN "Update available"
  ELSE "Up to date"

-----------------------------------------------------------------------------
(* The job of a server.                                                    *)

HasProcess(s) == phase[s] # "stopped"

\* pumpkin_server_begin_maintenance until pumpkin_server_end_maintenance
Maintenance(s) == job[s].stage \in {"stopping", "install"}

\* apply_downloaded_binary: the job j of s stops the server.
Apply(s, j) ==
  /\ job' = [job EXCEPT ![s] = [j EXCEPT
       !.stage = IF HasProcess(s) THEN "stopping" ELSE "install",
       !.restart = @ /\ phase[s] = "running"]]
  /\ phase' = [phase EXCEPT ![s] = IF @ = "running" THEN "stopping" ELSE @]

\* The identity a download from u is recorded under: known for the latest
\* build only (using_latest).
Identity(u, l) == IF l # NoBuild /\ u = UrlOf(l) THEN l ELSE NoBuild

\* The job of s for a build l behind u: an executable in the cache is taken.
JobFor(u, l, caching, restart) ==
  LET id == Identity(u, l)
      cached == caching /\ id # NoBuild
  IN [stage |-> "download", url |-> u, id |-> id, caching |-> cached, restart |-> restart,
      content |-> IF cached THEN cache[id] ELSE NoBuild]

\* A custom URL wins over the one asked for.
DownloadFrom(s, wanted) == IF Managed(s) THEN wanted ELSE url[s]

\* start_download_for_server: nothing for a server that is busy; what is in the
\* cache is applied at once.
StartDownload(s, wanted, l, restart) ==
  IF job[s].stage # "none"
    THEN UNCHANGED <<job, phase>>
    ELSE \E useCache \in BOOLEAN :
           LET j == JobFor(DownloadFrom(s, wanted), l, useCache, restart) IN
           IF j.content # NoBuild
             THEN Apply(s, j)
             ELSE job' = [job EXCEPT ![s] = j] /\ UNCHANGED phase

\* The URL used by buttons that install: the latest build's or the server's.
InstallUrl(s) == IF latest # NoBuild THEN UrlOf(latest) ELSE url[s]

\* on_details_install, on_overview_install_confirmed and the network's
\* install-all: on_details_install refuses a running server, its confirmation
\* does not look again.
ClickInstall(s) ==
  /\ StartDownload(s, InstallUrl(s), latest, FALSE)
  /\ UNCHANGED <<channel, published, queries, latest, failed, current, url, installed,
                 binary, origin, cache, autoVars, minute>>

\* on_details_update, and on_overview_update_clicked, which asks for no restart.
ClickUpdate(s) ==
  /\ latest # NoBuild /\ ~AnyDownloadActive
  /\ UpdateAvailable(s, latest)
  /\ \E restart \in {FALSE, HasProcess(s)} :
       StartDownload(s, UrlOf(latest), latest, restart)
  /\ UNCHANGED <<channel, published, queries, latest, failed, current, url, installed,
                 binary, origin, cache, autoVars, minute>>

\* on_overview_network_update_all_clicked: the servers of the network that
\* do not run are updated together; other downloads are looked for once, before.
NetworkUpdate ==
  LET due == {s \in Servers : ~HasProcess(s) /\ UpdateAvailable(s, latest)} IN
  /\ latest # NoBuild /\ ~AnyDownloadActive
  /\ due # {}
  /\ \E useCache \in BOOLEAN :
       LET j == JobFor(UrlOf(latest), latest, useCache, FALSE)
           stage == IF j.content = NoBuild THEN "download" ELSE "install"
       IN job' = [s \in Servers |-> IF s \in due THEN [j EXCEPT !.stage = stage] ELSE job[s]]
  /\ UNCHANGED <<channel, published, queries, latest, failed, current, url, phase, installed,
                 binary, origin, cache, autoVars, minute>>

\* The bytes behind a URL at the time they are transferred.
Served(u) ==
  IF u.ch = "custom" THEN CustomBuild
  ELSE IF u.n = 0 THEN [ch |-> u.ch, n |-> published[u.ch]] ELSE u

\* on_download_done with a valid file, which goes to the cache under the
\* identity that was known when the job began.
DownloadDone(s) ==
  /\ job[s].stage = "download"
  /\ Apply(s, [job[s] EXCEPT !.content = Served(job[s].url)])
  /\ cache' = IF job[s].caching
                THEN [cache EXCEPT ![job[s].id] = Served(job[s].url)] ELSE cache
  /\ UNCHANGED <<channel, published, queries, latest, failed, current, url, installed,
                 binary, origin, autoVars, minute>>

\* on_wait_for_shared_cache_tick: another server's job has filled the cache ...
CacheFilled(s) ==
  /\ job[s].stage = "download" /\ job[s].caching
  /\ cache[job[s].id] # NoBuild
  /\ Apply(s, [job[s] EXCEPT !.content = cache[job[s].id]])
  /\ UNCHANGED <<channel, published, queries, latest, failed, current, url, installed,
                 binary, origin, cache, autoVars, minute>>

\* ... or has not in time: the job starts over with the URL it has and looks
\* up the identity once more.
WaitGivesUp(s) ==
  LET u == IF Managed(s) THEN job[s].url ELSE url[s] IN
  /\ job[s].stage = "download" /\ job[s].caching
  /\ \E p \in Servers \ {s} : job[p].stage = "download" /\ job[p].id = job[s].id
  /\ job' = [job EXCEPT ![s] = [@ EXCEPT !.url = u, !.caching = FALSE,
                                         !.id = Identity(u, latest)]]
  /\ UNCHANGED <<channel, published, queries, latest, failed, current, url, phase,
                 installed, binary, origin, cache, autoVars, minute>>

\* Seeded fault: the identity is that of the latest build when the worker ends.
RecordedLatest(s) == latest

\* on_binary_install_done: set_installed_build_id
Recorded(s) == job[s].id

\* on_install_server_stopped, the worker and on_binary_install_done.
InstallDone(s) ==
  /\ job[s].stage = "install"
  /\ binary' = [binary EXCEPT ![s] = job[s].content]
  /\ origin' = [origin EXCEPT ![s] = IF job[s].caching THEN job[s].id ELSE NoBuild]
  /\ installed' = [installed EXCEPT ![s] = Recorded(s)]
  /\ phase' = [phase EXCEPT ![s] = IF job[s].restart THEN "running" ELSE @]
  /\ job' = [job EXCEPT ![s] = NoJob]
  /\ UNCHANGED <<channel, published, queries, latest, failed, current, url, cache,
                 autoVars, minute>>

\* finish_download_application with an error, from any callback of the chain.
JobFails(s) ==
  /\ job[s].stage # "none"
  /\ job' = [job EXCEPT ![s] = NoJob]
  /\ UNCHANGED <<channel, published, queries, latest, failed, current, url, phase,
                 installed, binary, origin, cache, autoVars, minute>>

-----------------------------------------------------------------------------
(* Automatic updates.                                                      *)

\* The checks of maybe_trigger_auto_update for one server; cur is the selected
\* one, whose ui_state has to be RUNNING.
Eligible(s, l, cur) ==
  /\ HasProcess(s)
  /\ s = cur => phase[s] = "running"
  /\ s \in AutoUpdated
  /\ UpdateAvailable(s, l)
  /\ attempt.cooldown = "over"
  /\ s \in Scheduled =>
       /\ minute
       /\ ~(attempt.today /\ attempt.scheduled = s /\ attempt.build = l)

\* Seeded fault: the seconds are reset, the server is not.
ClearCountdownKeepsServer == countdown' = [countdown EXCEPT !.left = 0]

\* clear_auto_update_countdown
ClearCountdown == countdown' = NoCountdown

\* maybe_trigger_auto_update with start_auto_update_countdown: the first
\* server that qualifies, in the order of the store.
MaybeTriggerAutoUpdate(l, cur) ==
  LET due == {s \in Servers : Eligible(s, l, cur)}
      s == Min(due)
  IN IF l = NoBuild \/ Counting \/ due = {}
       THEN UNCHANGED autoVars
       ELSE /\ countdown' = [server |-> s, left |-> CountdownFrom]
            /\ attempt' = [build |-> l, cooldown |-> "fresh",
                 today |-> (s \in Scheduled) \/ attempt.today,
                 scheduled |-> IF s \in Scheduled THEN s ELSE attempt.scheduled]

\* The last part of update_stats_tick, once a second.
StatsTick ==
  /\ MaybeTriggerAutoUpdate(latest, current)
  /\ UNCHANGED <<channel, published, queries, latest, failed, current, url, phase,
                 installed, binary, origin, cache, job, minute>>

\* auto_update_countdown_tick
CountdownTick ==
  LET s == countdown.server IN
  /\ Counting
  /\ IF ~HasProcess(s)
       THEN ClearCountdown /\ UNCHANGED <<job, phase>>
       ELSE IF countdown.left > 1
       THEN /\ countdown' = [countdown EXCEPT !.left = @ - 1]
            /\ UNCHANGED <<job, phase>>
       ELSE /\ ClearCountdown
            /\ IF latest # NoBuild /\ UpdateAvailable(s, latest)
                 THEN StartDownload(s, UrlOf(latest), latest, TRUE)
                 ELSE UNCHANGED <<job, phase>>
  /\ UNCHANGED <<channel, published, queries, latest, failed, current, url, installed,
                 binary, origin, cache, attempt, minute>>

-----------------------------------------------------------------------------
(* Update checks and the channel.                                          *)

\* trigger_latest_resolve, from the five-minute poll, the check button, the
\* network's update-all and the start of the program.  A query is fresh as long
\* as its generation is latest_resolve_generation.
TriggerLatestResolve ==
  /\ ~InFlight /\ ~AnyDownloadActive /\ ~Counting
  /\ queries' = queries \cup {[ch |-> channel, fresh |-> TRUE]}
  /\ UNCHANGED <<channel, published, latest, failed, current, url, phase, installed,
                 binary, origin, cache, job, autoVars, minute>>

\* Seeded fault: the generation is not compared.
AcceptedAnyway(q) == TRUE

\* on_latest_only_resolve_done ignores the answer to an earlier generation.
Accepted(q) == q.fresh

\* on_resolve_ready and on_latest_only_resolve_done, which then looks for a
\* server to update; NoBuild stands for every failure on the way.
ResolveDone(q) ==
  /\ queries' = queries \ {q}
  /\ \E answer \in {NoBuild} \cup
          {ParseMetadata(r, q.ch) : r \in {x \in Replies : x.n = published[q.ch]}} :
       IF ~Accepted(q)
         THEN UNCHANGED <<latest, failed, autoVars>>
         ELSE /\ failed' = (answer = NoBuild)
              /\ latest' = IF answer = NoBuild THEN latest ELSE answer
              /\ IF answer = NoBuild THEN UNCHANGED autoVars
                                     ELSE MaybeTriggerAutoUpdate(answer, current)
  /\ UNCHANGED <<channel, published, current, url, phase, installed, binary, origin, cache, job,
                 minute>>

MayChangeChannel == ~AnyDownloadActive /\ ~Counting

\* apply_release_channel_selection with invalidate_latest_release, and the
\* query for the new channel it ends with.
ApplyReleaseChannel(c) ==
  /\ c # channel
  /\ MayChangeChannel
  /\ channel' = c
  /\ url' = [s \in Servers |-> IF Managed(s) THEN Rolling(c) ELSE url[s]]
  /\ queries' = {[q EXCEPT !.fresh = FALSE] : q \in queries}
                  \cup {[ch |-> c, fresh |-> TRUE]}
  /\ latest' = NoBuild
  /\ failed' = FALSE
  /\ UNCHANGED <<published, current, phase, installed, binary, origin, cache, job, autoVars,
                 minute>>

\* save_settings_impl: any URL may be entered for a server.
SetDownloadUrl(s, u) ==
  /\ u # url[s]
  /\ url' = [url EXCEPT ![s] = u]
  /\ UNCHANGED <<channel, published, queries, latest, failed, current, phase, installed,
                 binary, origin, cache, job, autoVars, minute>>

\* select_server, which also looks for a server to update.
SelectServer(s) ==
  /\ s # current
  /\ current' = s
  /\ MaybeTriggerAutoUpdate(latest, s)
  /\ UNCHANGED <<channel, published, queries, latest, failed, url, phase, installed,
                 binary, origin, cache, job, minute>>

-----------------------------------------------------------------------------
(* The server, the clock and the publisher.                                *)

\* pumpkin_server_start refuses a server under maintenance.
StartServer(s) ==
  /\ phase[s] = "stopped" /\ Installed(s) /\ ~Maintenance(s)
  /\ phase' = [phase EXCEPT ![s] = "running"]
  /\ UNCHANGED <<channel, published, queries, latest, failed, current, url, installed,
                 binary, origin, cache, job, autoVars, minute>>

\* on_details_stop: the window's stop of the selected server ends its countdown.
StopServer ==
  /\ phase[current] = "running"
  /\ phase' = [phase EXCEPT ![current] = "stopping"]
  /\ IF countdown.server = current THEN ClearCountdown ELSE UNCHANGED countdown
  /\ UNCHANGED <<channel, published, queries, latest, failed, current, url, installed,
                 binary, origin, cache, job, attempt, minute>>

\* on_overview_network_stop_all_clicked, for the network of all servers: the
\* countdown goes on.
NetworkStop ==
  /\ \E s \in Servers : phase[s] = "running"
  /\ phase' = [s \in Servers |-> IF phase[s] = "running" THEN "stopping" ELSE phase[s]]
  /\ UNCHANGED <<channel, published, queries, latest, failed, current, url, installed,
                 binary, origin, cache, job, autoVars, minute>>

\* The process ends (external) and its exit line is read: on_log_line clears
\* the countdown of the selected server.
ProcessExits(s) ==
  /\ phase[s] = "stopping"
  /\ phase' = [phase EXCEPT ![s] = "stopped"]
  /\ job' = [job EXCEPT ![s].stage = IF @ = "stopping" THEN "install" ELSE @]
  /\ IF s = current /\ countdown.server = s
       THEN ClearCountdown ELSE UNCHANGED countdown
  /\ UNCHANGED <<channel, published, queries, latest, failed, current, url, installed,
                 binary, origin, cache, attempt, minute>>

\* The cooldown of 300 seconds outlasts the scheduled minute it began in.
CooldownEnds ==
  /\ attempt.cooldown = "old" \/ (attempt.cooldown = "fresh" /\ ~minute)
  /\ attempt' = [attempt EXCEPT !.cooldown = "over"]
  /\ UNCHANGED <<channel, published, queries, latest, failed, current, url, phase,
                 installed, binary, origin, cache, job, countdown, minute>>

MinuteBegins ==
  /\ ~minute /\ Scheduled # {}
  /\ minute' = TRUE
  /\ attempt' = [attempt EXCEPT !.today = FALSE]
  /\ UNCHANGED <<channel, published, queries, latest, failed, current, url, phase,
                 installed, binary, origin, cache, job, countdown>>

MinuteEnds ==
  /\ minute
  /\ minute' = FALSE
  /\ attempt' = [attempt EXCEPT !.cooldown = IF @ = "fresh" THEN "old" ELSE @]
  /\ UNCHANGED <<channel, published, queries, latest, failed, current, url, phase,
                 installed, binary, origin, cache, job, countdown>>

Publish(c) ==
  /\ published[c] < MaxBuilds
  /\ published' = [published EXCEPT ![c] = @ + 1]
  /\ UNCHANGED <<channel, queries, latest, failed, current, url, phase, installed, binary, origin,
                 cache, job, autoVars, minute>>

-----------------------------------------------------------------------------
\* The first query is on its way.  Either the servers have been started with the
\* program, or they have not and builds were published while it was not used.
Init ==
  /\ channel = "nightly"
  /\ published \in {[c \in Channels |-> 1], [c \in Channels |-> MaxBuilds]}
  /\ queries = {[ch |-> "nightly", fresh |-> TRUE]}
  /\ latest = NoBuild
  /\ failed = FALSE
  /\ current = 1
  /\ url = [s \in Servers |-> Rolling("nightly")]
  /\ phase = [s \in Servers |->
               IF published[channel] = 1 THEN "running" ELSE "stopped"]
  /\ installed = [s \in Servers |-> [ch |-> "nightly", n |-> 1]]
  /\ binary = installed /\ origin = installed
  /\ cache = [b \in Builds |-> NoBuild]
  /\ job = [s \in Servers |-> NoJob]
  /\ countdown = NoCountdown
  /\ attempt = [build |-> NoBuild, cooldown |-> "over", today |-> FALSE, scheduled |-> 0]
  /\ minute = FALSE
  /\ events = 0

\* What users, publishers and failures do, bounded by MaxEvents.
ServerEvent(s) ==
  \/ ClickInstall(s) \/ ClickUpdate(s) \/ SelectServer(s) \/ StartServer(s) \/ JobFails(s)
  \/ \E c \in Channels \cup {"custom"} : SetDownloadUrl(s, Rolling(c))

Event ==
  /\ events < MaxEvents /\ events' = events + 1
  /\ \/ StopServer \/ NetworkStop \/ NetworkUpdate
     \/ \E s \in Servers : ServerEvent(s)
     \/ \E c \in Channels : ApplyReleaseChannel(c) \/ Publish(c)

\* What goes on by itself.
JobStep(s) ==
  \/ DownloadDone(s) \/ CacheFilled(s) \/ WaitGivesUp(s) \/ InstallDone(s) \/ ProcessExits(s)

Step ==
  /\ UNCHANGED events
  /\ \/ \E s \in Servers : JobStep(s)
     \/ StatsTick \/ CountdownTick
     \/ TriggerLatestResolve
     \/ \E q \in queries : ResolveDone(q)
     \/ CooldownEnds \/ MinuteBegins \/ MinuteEnds

Next == Event \/ Step

\* Timers run.  Downloads have no time limit, processes may take any time to
\* stop and users have no duties.  The statistics timer looks once a second,
\* so it also looks within every scheduled minute.
Timed(A) == A /\ UNCHANGED events
Fairness ==
  /\ WF_vars(Timed(CountdownTick)) /\ WF_vars(Timed(CooldownEnds))
  /\ WF_vars(Timed(MinuteBegins \/ MinuteEnds))
  /\ SF_vars(Timed(StatsTick))

Spec == Init /\ [][Next]_vars /\ Fairness

-----------------------------------------------------------------------------
TypeOK ==
  /\ channel \in Channels
  /\ published \in [Channels -> 1 .. MaxBuilds]
  /\ queries \subseteq [ch : Channels, fresh : BOOLEAN]
  /\ Cardinality({q \in queries : q.fresh}) <= 1
  /\ latest \in Builds \cup {NoBuild}
  /\ failed \in BOOLEAN /\ minute \in BOOLEAN
  /\ current \in Servers
  /\ url \in [Servers -> Urls]
  /\ phase \in [Servers -> {"stopped", "running", "stopping"}]
  /\ installed \in [Servers -> Builds \cup {NoBuild}]
  /\ binary \in [Servers -> Builds \cup {NoBuild, CustomBuild}]
  /\ origin \in [Servers -> Builds \cup {NoBuild}]
  /\ cache \in [Builds -> Builds \cup {NoBuild}]
  /\ job \in [Servers ->
       [stage : {"none", "download", "stopping", "install"}, url : Urls,
        id : Builds \cup {NoBuild}, content : Builds \cup {NoBuild, CustomBuild},
        caching : BOOLEAN, restart : BOOLEAN]]
  /\ countdown \in [server : Servers, left : 1 .. CountdownFrom] \cup {NoCountdown}
  /\ attempt \in [build : Builds \cup {NoBuild}, cooldown : {"over", "fresh", "old"},
                  today : BOOLEAN, scheduled : 0 .. ServerCount]
  /\ events \in 0 .. MaxEvents

\* What the program calls the latest build, and every build a job is going to
\* record, belongs to the channel the user has chosen, although answers for the
\* other channel may still come in and jobs outlive the check that found them.
ChannelIsRespected ==
  /\ latest # NoBuild => latest.ch = channel
  /\ \A s \in Servers : job[s].id # NoBuild => job[s].id.ch = channel

\* "Up to date" is true: the executable of the server really is the build the
\* last check found, or a later one of its channel.  The Nightly URL may serve
\* a newer build than the one it was recorded under, also through the cache.
UpToDateIsTrue ==
  \A s \in Servers : Installed(s) /\ Badge(s) = "Up to date" =>
    binary[s].ch = latest.ch /\ binary[s].n >= latest.n

\* A server that runs, is outdated and updates itself gets its turn, although
\* the countdown and the cooldown are shared by all servers and the first one
\* in the list is always looked at first.  That every job ends is needed: a
\* server whose download hangs still qualifies and takes every turn.
Outdated(s) ==
  /\ s \in AutoUpdated /\ phase[s] = "running"
  /\ UpdateByMetadata(s, latest) /\ job[s].stage = "none"
EveryServerGetsItsTurn ==
  (\A s \in Servers : []<>(job[s].stage = "none")) =>
    \A s \in Servers : Outdated(s) ~> (~Outdated(s) \/ countdown.server = s)
=============================================================================
