---------------------------- MODULE ReleasesProofs ----------------------------
(***************************************************************************)
(* Proofs about Releases, for any number of servers, builds and events.    *)
(***************************************************************************)
EXTENDS Releases, TLAPS

USE ReleasesAssumption

Recordable == Builds \cup {NoBuild}
Contents == Recordable \cup {CustomBuild}
Stages == {"none", "download", "stopping", "install"}
JobRecs == [stage : Stages, url : Urls, id : Recordable, content : Contents,
            caching : BOOLEAN, restart : BOOLEAN]

\* A build the program has heard of on its channel.
Heard(b) == b # NoBuild => b.ch = channel /\ b.n <= published[b.ch]

\* What is recorded as b is b or a later build of its channel.
Serves(content, b) == b # NoBuild => content.ch = b.ch /\ content.n >= b.n

\* A job fetches the build it is going to record from where that build is, and
\* holds it or a later one; only a build it knows goes to the cache.  Before it ends
\* it has fetched something.
Prepared(j) ==
  /\ j \in JobRecs
  /\ Heard(j.id)
  /\ j.id # NoBuild => j.url = UrlOf(j.id)
  /\ j.caching => j.id # NoBuild
  /\ j.content # NoBuild => Serves(j.content, j.id)

GoodJob(j) ==
  /\ Prepared(j)
  /\ j.stage = "none" => j.id = NoBuild
  /\ j.stage = "download" => j.content = NoBuild
  /\ j.stage \in {"stopping", "install"} => j.content # NoBuild

Known ==
  /\ channel \in Channels /\ published \in [Channels -> 1 .. MaxBuilds]
  /\ latest \in Recordable /\ Heard(latest)
  /\ \A q \in queries : q \in [ch : Channels, fresh : BOOLEAN] /\ (q.fresh => q.ch = channel)
  /\ url \in [Servers -> Urls]

Jobs == job \in [Servers -> JobRecs] /\ \A s \in Servers : GoodJob(job[s])

Stored ==
  /\ cache \in [Builds -> Recordable]
  /\ \A b \in Builds : cache[b] # NoBuild => Serves(cache[b], b)
  /\ DOMAIN installed = Servers /\ installed = [s \in Servers |-> installed[s]]
  /\ DOMAIN binary = Servers /\ binary = [s \in Servers |-> binary[s]]
  /\ \A s \in Servers : Serves(binary[s], installed[s])

IInv == Known /\ Jobs /\ Stored

knownVars == <<channel, published, latest, queries, url>>
storedVars == <<cache, installed, binary>>

LEMMA IInvImplies == IInv => ChannelIsRespected /\ UpToDateIsTrue
  <1> SUFFICES ASSUME IInv PROVE ChannelIsRespected /\ UpToDateIsTrue
    OBVIOUS
  <1>1. ChannelIsRespected
    BY DEF IInv, Known, Jobs, GoodJob, Prepared, Heard, ChannelIsRespected
  <1>2. ASSUME NEW s \in Servers, Installed(s), Badge(s) = "Up to date"
        PROVE  installed[s] = latest /\ latest # NoBuild
    BY <1>2 DEF Badge, UpdateAvailable, UpdateByMetadata
  <1>3. UpToDateIsTrue
    BY <1>2 DEF UpToDateIsTrue, IInv, Stored, Serves
  <1> QED
    BY <1>1, <1>3

LEMMA NoJobIsGood == NoJob \in JobRecs /\ GoodJob(NoJob)
  BY DEF NoJob, JobRecs, Urls, Rolling, Stages, Recordable, Contents, GoodJob, Prepared, Heard

LEMMA InitIInv == Init => IInv
  <1> SUFFICES ASSUME Init PROVE IInv
    OBVIOUS
  <1>1. Known
    BY DEF Init, Known, Heard, Recordable, Channels, Urls, Rolling, Servers
  <1>2. Jobs
    BY NoJobIsGood DEF Init, Jobs
  <1>3. Stored
    BY DEF Init, Stored, Serves, Recordable, Builds, Channels
  <1> QED
    BY <1>1, <1>2, <1>3 DEF IInv

-----------------------------------------------------------------------------
(* Jobs.                                                                   *)

\* The identity is that of a build the program has heard of, behind the URL.
LEMMA IdentityIsHeard ==
  ASSUME NEW u, NEW l \in Recordable, Heard(l)
  PROVE  /\ Identity(u, l) \in Recordable /\ Heard(Identity(u, l))
         /\ Identity(u, l) # NoBuild => u = UrlOf(Identity(u, l))
  BY DEF Identity, Recordable, Heard

LEMMA JobIsPrepared ==
  ASSUME Stored, NEW u \in Urls, NEW l \in Recordable, Heard(l),
         NEW caching \in BOOLEAN, NEW restart \in BOOLEAN
  PROVE  LET j == JobFor(u, l, caching, restart)
         IN  Prepared(j) /\ j.stage = "download" /\ j.restart = restart
  <1> DEFINE id == Identity(u, l)
             j == JobFor(u, l, caching, restart)
  <1>1. id \in Recordable /\ Heard(id) /\ (id # NoBuild => u = UrlOf(id))
    BY IdentityIsHeard
  <1>2. j = [stage |-> "download", url |-> u, id |-> id, caching |-> caching /\ id # NoBuild,
             restart |-> restart,
             content |-> IF caching /\ id # NoBuild THEN cache[id] ELSE NoBuild]
    BY DEF JobFor
  <1> HIDE DEF id, j
  <1>3. j.content \in Contents /\ (j.content # NoBuild => Serves(j.content, id))
    BY <1>1, <1>2 DEF Stored, Recordable, Contents
  <1>4. j \in JobRecs
    BY <1>1, <1>2, <1>3 DEF JobRecs, Stages
  <1>5. j.caching => id # NoBuild
    BY <1>2, Zenon
  <1> QED
    BY <1>1, <1>2, <1>3, <1>4, <1>5 DEF Prepared, j

\* What replaces one job keeps the others.
LEMMA JobReplaced ==
  ASSUME Jobs, NEW s \in Servers, NEW j, j \in JobRecs, GoodJob(j),
         UNCHANGED <<channel, published>>, job' = [job EXCEPT ![s] = j]
  PROVE  Jobs'
  BY DEF Jobs, GoodJob, Prepared, Heard

LEMMA Applied ==
  ASSUME Jobs, NEW s \in Servers, NEW j, Prepared(j), j.content # NoBuild,
         UNCHANGED <<channel, published>>, Apply(s, j)
  PROVE  Jobs'
  <1> DEFINE new == [j EXCEPT !.stage = IF HasProcess(s) THEN "stopping" ELSE "install",
                              !.restart = @ /\ phase[s] = "running"]
  <1>1. new \in JobRecs /\ new.stage \in {"stopping", "install"}
        /\ new.id = j.id /\ new.url = j.url /\ new.content = j.content
        /\ new.caching = j.caching
    BY DEF Prepared, JobRecs, Stages
  <1>2. job' = [job EXCEPT ![s] = new]
    BY DEF Apply
  <1> HIDE DEF new
  <1>3. GoodJob(new)
    BY <1>1 DEF GoodJob, Prepared
  <1> QED
    BY <1>1, <1>2, <1>3, JobReplaced

LEMMA Downloads ==
  ASSUME Known, Jobs, Stored, NEW s \in Servers, NEW u \in Urls, NEW restart \in BOOLEAN,
         UNCHANGED <<channel, published>>, StartDownload(s, u, latest, restart)
  PROVE  Jobs'
  <1>1. CASE job[s].stage # "none"
    BY <1>1 DEF StartDownload, Jobs, GoodJob, Prepared, Heard
  <1>2. CASE job[s].stage = "none"
    <2> DEFINE from == DownloadFrom(s, u)
    <2>1. from \in Urls
      BY DEF DownloadFrom, Known
    <2>2. PICK useCache \in BOOLEAN :
            LET j == JobFor(from, latest, useCache, restart)
            IN  IF j.content # NoBuild
                  THEN Apply(s, j)
                  ELSE job' = [job EXCEPT ![s] = j] /\ UNCHANGED phase
      BY <1>2 DEF StartDownload
    <2> DEFINE j == JobFor(from, latest, useCache, restart)
    <2>3. Prepared(j) /\ j.stage = "download"
      BY <2>1, JobIsPrepared DEF Known
    <2> HIDE DEF from, j
    <2>4. CASE j.content # NoBuild
      BY <2>2, <2>3, <2>4, Applied DEF j
    <2>5. CASE j.content = NoBuild
      <3>1. GoodJob(j) /\ j \in JobRecs
        BY <2>3, <2>5 DEF GoodJob, Prepared
      <3>2. job' = [job EXCEPT ![s] = j]
        BY <2>2, <2>5 DEF j
      <3> QED
        BY <3>1, <3>2, JobReplaced
    <2> QED
      BY <2>4, <2>5
  <1> QED
    BY <1>1, <1>2

LEMMA UrlOfIsUrl == ASSUME NEW b \in Builds PROVE UrlOf(b) \in Urls
  BY DEF UrlOf, Builds, Urls, Rolling, Channels

LEMMA InstallUrlIsUrl == ASSUME Known, NEW s \in Servers PROVE InstallUrl(s) \in Urls
  BY UrlOfIsUrl DEF InstallUrl, Known, Recordable

\* What is transferred from the URL of a heard build is that build or a later one.
LEMMA ServedIsLater ==
  ASSUME Known, NEW j, Prepared(j)
  PROVE  /\ Served(j.url) \in Contents /\ Served(j.url) # NoBuild
         /\ Serves(Served(j.url), j.id)
  <1>1. j.url \in Urls /\ j.id \in Recordable
    BY DEF Prepared, JobRecs
  <1>2. Served(j.url) \in Contents /\ Served(j.url) # NoBuild
    BY <1>1 DEF Known, Served, Urls, Contents, Recordable, Builds, Channels, CustomBuild, NoBuild
  <1>3. ASSUME j.id # NoBuild PROVE Serves(Served(j.url), j.id)
    <2>1. j.id \in Builds /\ j.url = UrlOf(j.id) /\ j.id.n <= published[j.id.ch]
      BY <1>1, <1>3 DEF Prepared, Recordable, Heard
    <2>2. CASE j.id.ch = "nightly"
      BY <2>1, <2>2 DEF Known, Served, UrlOf, Rolling, Builds, Channels, Serves
    <2>3. CASE j.id.ch # "nightly"
      BY <2>1, <2>3 DEF Known, Served, UrlOf, Builds, Channels, Serves
    <2> QED
      BY <2>2, <2>3
  <1> QED
    BY <1>2, <1>3 DEF Serves

-----------------------------------------------------------------------------
(* Steps, each for the parts it may disturb.                               *)

LEMMA KnownKept == ASSUME Known, UNCHANGED knownVars PROVE Known'
  BY DEF Known, knownVars, Heard

LEMMA JobsKept == ASSUME Jobs, UNCHANGED <<channel, published, job>> PROVE Jobs'
  BY DEF Jobs, GoodJob, Prepared, Heard

LEMMA StoredKept == ASSUME Stored, UNCHANGED storedVars PROVE Stored'
  BY DEF Stored, storedVars, Serves

\* Neither builds, jobs nor files: processes, the countdown and the clock.
LEMMA Elsewhere == ASSUME IInv, UNCHANGED <<knownVars, job, storedVars>> PROVE IInv'
  BY KnownKept, JobsKept, StoredKept DEF IInv, knownVars

LEMMA NothingChanges == ASSUME IInv, UNCHANGED vars PROVE IInv'
  BY Elsewhere DEF vars, knownVars, storedVars

LEMMA JobsOnly == ASSUME IInv, Jobs', UNCHANGED <<knownVars, storedVars>> PROVE IInv'
  BY KnownKept, StoredKept DEF IInv

LEMMA InstallClicked == ASSUME IInv, NEW s \in Servers, ClickInstall(s) PROVE IInv'
  <1>1. InstallUrl(s) \in Urls
    BY InstallUrlIsUrl DEF IInv
  <1>2. Jobs'
    BY <1>1, Downloads DEF ClickInstall, IInv
  <1> QED
    BY <1>2, JobsOnly DEF ClickInstall, knownVars, storedVars

LEMMA LatestDownloads ==
  ASSUME IInv, latest # NoBuild, NEW s \in Servers, NEW restart \in BOOLEAN,
         UNCHANGED <<channel, published>>, StartDownload(s, UrlOf(latest), latest, restart)
  PROVE  Jobs'
  <1>1. UrlOf(latest) \in Urls
    BY UrlOfIsUrl DEF IInv, Known, Recordable
  <1> QED
    BY <1>1, Downloads DEF IInv

LEMMA UpdateClicked == ASSUME IInv, NEW s \in Servers, ClickUpdate(s) PROVE IInv'
  <1>1. PICK restart \in {FALSE, HasProcess(s)} :
          StartDownload(s, UrlOf(latest), latest, restart)
    BY DEF ClickUpdate
  <1>2. restart \in BOOLEAN
    BY <1>1 DEF HasProcess
  <1>3. Jobs'
    BY <1>1, <1>2, LatestDownloads DEF ClickUpdate
  <1> QED
    BY <1>3, JobsOnly DEF ClickUpdate, knownVars, storedVars

LEMMA NetworkUpdated == ASSUME IInv, NetworkUpdate PROVE IInv'
  <1> DEFINE due == {s \in Servers : ~HasProcess(s) /\ UpdateAvailable(s, latest)}
  <1>1. PICK useCache \in BOOLEAN :
          LET j == JobFor(UrlOf(latest), latest, useCache, FALSE)
              stage == IF j.content = NoBuild THEN "download" ELSE "install"
          IN job' = [s \in Servers |-> IF s \in due THEN [j EXCEPT !.stage = stage] ELSE job[s]]
    BY DEF NetworkUpdate
  <1> DEFINE j == JobFor(UrlOf(latest), latest, useCache, FALSE)
             stage == IF j.content = NoBuild THEN "download" ELSE "install"
             new == [j EXCEPT !.stage = stage]
  <1>2. UrlOf(latest) \in Urls
    BY UrlOfIsUrl DEF NetworkUpdate, IInv, Known, Recordable
  <1>3. Prepared(j)
    BY <1>2, JobIsPrepared DEF IInv, Known
  <1>4. job' = [s \in Servers |-> IF s \in due THEN new ELSE job[s]]
    BY <1>1
  <1> HIDE DEF due, j
  <1>5. new \in JobRecs /\ GoodJob(new)
    BY <1>3 DEF Prepared, GoodJob, JobRecs, Stages
  <1> HIDE DEF new
  <1>6. UNCHANGED <<channel, published>>
    BY DEF NetworkUpdate
  <1>7. Jobs'
    BY <1>4, <1>5, <1>6 DEF IInv, Jobs, GoodJob, Prepared, Heard
  <1> QED
    BY <1>7, JobsOnly DEF NetworkUpdate, knownVars, storedVars

LEMMA Downloaded == ASSUME IInv, NEW s \in Servers, DownloadDone(s) PROVE IInv'
  <1> DEFINE served == Served(job[s].url)
             new == [job[s] EXCEPT !.content = served]
  <1>1. Prepared(job[s]) /\ job[s] \in JobRecs
    BY DEF IInv, Jobs, GoodJob
  <1>2. served \in Contents /\ served # NoBuild /\ Serves(served, job[s].id)
    BY <1>1, ServedIsLater DEF IInv
  <1>3. Apply(s, new)
    BY DEF DownloadDone
  <1>4. UNCHANGED <<knownVars, installed, binary>>
    BY DEF DownloadDone, knownVars
  <1>5. cache' = IF job[s].caching THEN [cache EXCEPT ![job[s].id] = served] ELSE cache
    BY DEF DownloadDone
  <1> HIDE DEF served
  <1>6. Prepared(new) /\ new.content # NoBuild
    BY <1>1, <1>2 DEF Prepared, JobRecs
  <1> HIDE DEF new
  <1>7. Jobs'
    BY <1>3, <1>4, <1>6, Applied DEF IInv, knownVars
  <1>8. job[s].id \in Builds => served \in Recordable
    BY <1>2 DEF Contents, Serves, Builds, Channels, CustomBuild, NoBuild
  <1>9. Stored'
    BY <1>2, <1>4, <1>5, <1>8 DEF IInv, Stored, Serves
  <1> QED
    BY <1>4, <1>7, <1>9, KnownKept DEF IInv

LEMMA Filled == ASSUME IInv, NEW s \in Servers, CacheFilled(s) PROVE IInv'
  <1> DEFINE new == [job[s] EXCEPT !.content = cache[job[s].id]]
  <1>1. Prepared(job[s]) /\ job[s] \in JobRecs
    BY DEF IInv, Jobs, GoodJob
  <1>2. Apply(s, new) /\ cache[job[s].id] # NoBuild /\ UNCHANGED <<knownVars, storedVars>>
    BY DEF CacheFilled, knownVars, storedVars
  <1>3. CASE job[s].id \in Builds
    <2>1. Prepared(new) /\ new.content # NoBuild
      BY <1>1, <1>2, <1>3 DEF IInv, Stored, Prepared, JobRecs, Contents
    <2> HIDE DEF new
    <2> QED
      BY <1>2, <2>1, Applied, JobsOnly DEF IInv, knownVars
  <1>4. CASE job[s].id \notin Builds
    BY <1>1, <1>4 DEF CacheFilled, Prepared, JobRecs, Recordable
  <1> QED
    BY <1>3, <1>4

LEMMA WaitGivenUp == ASSUME IInv, NEW s \in Servers, WaitGivesUp(s) PROVE IInv'
  <1> DEFINE u == IF Managed(s) THEN job[s].url ELSE url[s]
             id == Identity(u, latest)
             new == [job[s] EXCEPT !.url = u, !.caching = FALSE, !.id = id]
  <1>1. GoodJob(job[s]) /\ job[s] \in JobRecs /\ job[s].stage = "download"
    BY DEF IInv, Jobs, WaitGivesUp
  <1>2. u \in Urls
    BY <1>1 DEF IInv, Known, JobRecs
  <1>3. id \in Recordable /\ Heard(id) /\ (id # NoBuild => u = UrlOf(id))
    BY IdentityIsHeard DEF IInv, Known
  <1>4. job' = [job EXCEPT ![s] = new] /\ UNCHANGED <<knownVars, storedVars>>
    BY DEF WaitGivesUp, knownVars, storedVars, IInv, Jobs
  <1> HIDE DEF u, id
  <1>5. new \in JobRecs /\ GoodJob(new)
    BY <1>1, <1>2, <1>3 DEF GoodJob, Prepared, JobRecs
  <1> HIDE DEF new
  <1>6. Jobs'
    BY <1>4, <1>5, JobReplaced DEF IInv, knownVars
  <1> QED
    BY <1>4, <1>6, JobsOnly

\* The record that goes with the executable is the job's.
LEMMA InstallEnds == ASSUME IInv, NEW s \in Servers, InstallDone(s) PROVE IInv'
  <1>1. GoodJob(job[s]) /\ job[s].stage = "install"
    BY DEF IInv, Jobs, InstallDone
  <1>2. Serves(job[s].content, job[s].id)
    BY <1>1 DEF GoodJob, Prepared
  <1>3. Jobs'
    BY NoJobIsGood, JobReplaced DEF IInv, InstallDone
  <1>4. Stored'
    BY <1>2 DEF IInv, Stored, Serves, InstallDone, Recorded
  <1> QED
    BY <1>3, <1>4, KnownKept DEF IInv, InstallDone, knownVars

LEMMA JobFailed == ASSUME IInv, NEW s \in Servers, JobFails(s) PROVE IInv'
  <1>1. Jobs'
    BY NoJobIsGood, JobReplaced DEF IInv, JobFails
  <1> QED
    BY <1>1, JobsOnly DEF JobFails, knownVars, storedVars

LEMMA CountedDown == ASSUME IInv, CountdownTick PROVE IInv'
  <1> DEFINE s == countdown.server
  <1>1. CASE UNCHANGED job
    BY <1>1, Elsewhere DEF CountdownTick, knownVars, storedVars
  <1>2. CASE /\ latest # NoBuild /\ UpdateAvailable(s, latest)
             /\ StartDownload(s, UrlOf(latest), latest, TRUE)
    <2>1. CASE s \in Servers
      <3>1. Jobs'
        BY <1>2, <2>1, LatestDownloads DEF CountdownTick
      <3> QED
        BY <3>1, JobsOnly DEF CountdownTick, knownVars, storedVars
    <2>2. CASE s \notin Servers
      <3>1. UNCHANGED job \/ \E new : job' = [job EXCEPT ![s] = new]
        BY <1>2, Zenon DEF StartDownload, Apply
      <3>2. ASSUME NEW new, job' = [job EXCEPT ![s] = new] PROVE UNCHANGED job
        BY <2>2, <3>2 DEF IInv, Jobs
      <3> QED
        BY <1>1, <3>1, <3>2
    <2> QED
      BY <2>1, <2>2
  <1> QED
    BY <1>1, <1>2 DEF CountdownTick

\* A process that ends lets its server's job install.
LEMMA Exited == ASSUME IInv, NEW s \in Servers, ProcessExits(s) PROVE IInv'
  <1> DEFINE stage == IF job[s].stage = "stopping" THEN "install" ELSE job[s].stage
             new == [job[s] EXCEPT !.stage = stage]
  <1>1. GoodJob(job[s]) /\ job[s] \in JobRecs
    BY DEF IInv, Jobs
  <1>2. stage \in Stages
    BY <1>1 DEF Stages, JobRecs
  <1>3. job' = [job EXCEPT ![s] = new]
    BY DEF ProcessExits, IInv, Jobs
  <1>4. new \in JobRecs /\ GoodJob(new)
    BY <1>1, <1>2 DEF GoodJob, Prepared, JobRecs
  <1> HIDE DEF new
  <1>5. Jobs'
    BY <1>3, <1>4, JobReplaced DEF IInv, ProcessExits
  <1> QED
    BY <1>5, JobsOnly DEF ProcessExits, knownVars, storedVars

LEMMA ResolveBegins == ASSUME IInv, TriggerLatestResolve PROVE IInv'
  <1>1. Known'
    <2>1. ASSUME NEW q \in queries'
          PROVE  q \in [ch : Channels, fresh : BOOLEAN] /\ (q.fresh => q.ch = channel)
      <3>1. CASE q = [ch |-> channel, fresh |-> TRUE]
        BY <3>1 DEF IInv, Known
      <3>2. CASE q \in queries
        BY <3>2 DEF IInv, Known
      <3> QED
        BY <3>1, <3>2 DEF TriggerLatestResolve
    <2> QED
      BY <2>1 DEF TriggerLatestResolve, IInv, Known, Heard
  <1> QED
    BY <1>1, JobsKept, StoredKept DEF TriggerLatestResolve, IInv, storedVars

\* An answer that is accepted is about the present channel.
LEMMA Resolved == ASSUME IInv, NEW q \in queries, ResolveDone(q) PROVE IInv'
  <1>1. q \in [ch : Channels, fresh : BOOLEAN] /\ (q.fresh => q.ch = channel)
    BY DEF IInv, Known
  <1>2. PICK answer \in {NoBuild} \cup
               {ParseMetadata(r, q.ch) : r \in {x \in Replies : x.n = published[q.ch]}} :
          IF ~Accepted(q)
            THEN UNCHANGED <<latest, failed, autoVars>>
            ELSE latest' = IF answer = NoBuild THEN latest ELSE answer
    BY DEF ResolveDone
  <1>3. ASSUME answer # NoBuild, q.fresh
        PROVE  answer \in Builds /\ answer.ch = channel /\ answer.n = published[channel]
    <2>1. PICK r \in Replies : r.n = published[q.ch] /\ answer = ParseMetadata(r, q.ch)
      BY <1>2, <1>3
    <2>2. answer = [ch |-> q.ch, n |-> r.n]
      BY <1>3, <2>1 DEF ParseMetadata
    <2> QED
      BY <1>1, <1>3, <2>1, <2>2 DEF Replies, Builds
  <1>4. latest' \in Recordable /\ (latest' # NoBuild => latest'.ch = channel
                                     /\ latest'.n <= published[latest'.ch])
    BY <1>2, <1>3 DEF Accepted, IInv, Known, Heard, Recordable, Builds, Channels
  <1>5. Known'
    BY <1>4 DEF ResolveDone, IInv, Known, Heard
  <1> QED
    BY <1>5, JobsKept, StoredKept DEF ResolveDone, IInv, storedVars

\* No job is at work when the channel changes, and no answer to come is fresh.
LEMMA ChannelChanged == ASSUME IInv, NEW c \in Channels, ApplyReleaseChannel(c) PROVE IInv'
  <1>1. Known'
    <2>1. Rolling(c) \in Urls
      BY DEF Rolling, Urls
    <2>2. url' \in [Servers -> Urls]
      BY <2>1 DEF ApplyReleaseChannel, IInv, Known
    <2>3. ASSUME NEW q \in queries'
          PROVE  q \in [ch : Channels, fresh : BOOLEAN] /\ (q.fresh => q.ch = c)
      <3>1. CASE q = [ch |-> c, fresh |-> TRUE]
        BY <3>1
      <3>2. CASE \E old \in queries : q = [old EXCEPT !.fresh = FALSE]
        BY <3>2 DEF IInv, Known
      <3> QED
        BY <3>1, <3>2 DEF ApplyReleaseChannel
    <2> QED
      BY <2>2, <2>3 DEF ApplyReleaseChannel, IInv, Known, Heard, Recordable
  <1>2. ASSUME NEW s \in Servers PROVE job[s].id = NoBuild
    BY DEF ApplyReleaseChannel, MayChangeChannel, AnyDownloadActive, IInv, Jobs, GoodJob
  <1>3. Jobs'
    BY <1>2 DEF ApplyReleaseChannel, IInv, Jobs, GoodJob, Prepared, Heard
  <1> QED
    BY <1>1, <1>3, StoredKept DEF ApplyReleaseChannel, IInv, storedVars

LEMMA UrlSet ==
  ASSUME IInv, NEW s \in Servers, NEW c \in Channels \cup {"custom"}, SetDownloadUrl(s, Rolling(c))
  PROVE  IInv'
  <1>1. Known'
    BY DEF SetDownloadUrl, IInv, Known, Heard, Rolling, Urls
  <1> QED
    BY <1>1, JobsKept, StoredKept DEF SetDownloadUrl, IInv, storedVars

\* Builds only grow, so what was heard of remains published.
LEMMA Published == ASSUME IInv, NEW c \in Channels, Publish(c) PROVE IInv'
  <1>1. /\ published' \in [Channels -> 1 .. MaxBuilds]
        /\ \A d \in Channels : published'[d] >= published[d]
    BY DEF Publish, IInv, Known
  <1>2. ASSUME NEW b \in Recordable, Heard(b) PROVE Heard(b)'
    BY <1>1, <1>2 DEF Publish, IInv, Known, Heard, Recordable, Builds, Channels
  <1>3. Known'
    BY <1>1, <1>2 DEF Publish, IInv, Known
  <1>4. Jobs'
    BY <1>2 DEF Publish, IInv, Jobs, GoodJob, Prepared, JobRecs
  <1> QED
    BY <1>3, <1>4, StoredKept DEF Publish, IInv, storedVars

-----------------------------------------------------------------------------
LEMMA EventKeepsIInv == ASSUME IInv, Event PROVE IInv'
  <1>1. CASE StopServer \/ NetworkStop
    BY <1>1, Elsewhere DEF StopServer, NetworkStop, knownVars, storedVars
  <1>2. CASE NetworkUpdate
    BY <1>2, NetworkUpdated
  <1>3. ASSUME NEW s \in Servers, ServerEvent(s) PROVE IInv'
    <2>1. CASE SelectServer(s) \/ StartServer(s)
      BY <2>1, Elsewhere DEF SelectServer, StartServer, knownVars, storedVars
    <2> QED
      BY <1>3, <2>1, InstallClicked, UpdateClicked, JobFailed, UrlSet DEF ServerEvent
  <1>4. ASSUME NEW c \in Channels, ApplyReleaseChannel(c) \/ Publish(c) PROVE IInv'
    BY <1>4, ChannelChanged, Published
  <1> QED
    BY <1>1, <1>2, <1>3, <1>4 DEF Event

LEMMA StepKeepsIInv == ASSUME IInv, Step PROVE IInv'
  <1>1. ASSUME NEW s \in Servers, JobStep(s) PROVE IInv'
    BY <1>1, Downloaded, Filled, WaitGivenUp, InstallEnds, Exited DEF JobStep
  <1>2. CASE StatsTick \/ CooldownEnds \/ MinuteBegins \/ MinuteEnds
    BY <1>2, Elsewhere DEF StatsTick, CooldownEnds, MinuteBegins, MinuteEnds, knownVars, storedVars
  <1> QED
    BY <1>1, <1>2, CountedDown, ResolveBegins, Resolved DEF Step

LEMMA Invariance == Spec => []IInv
  <1>1. IInv /\ [Next]_vars => IInv'
    BY NothingChanges, EventKeepsIInv, StepKeepsIInv DEF Next
  <1> QED
    BY <1>1, InitIInv, PTL DEF Spec

\* Whatever answers come in late, jobs wait for and users change meanwhile: only
\* builds of the chosen channel are offered and recorded.
THEOREM ChannelIsKept == Spec => []ChannelIsRespected
  BY Invariance, IInvImplies, PTL

\* "Up to date" is never said of an executable older than the build found last,
\* although the Nightly URL and the cache serve later builds than they are named
\* after.
THEOREM UpToDateIsTold == Spec => []UpToDateIsTrue
  BY Invariance, IInvImplies, PTL
=============================================================================
