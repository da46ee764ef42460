# Memoria: specifications, checks and proofs

TLA+ specifications of Memoria (`mcp-server/`), a personal-memory MCP server: a
Markdown store with a derived SQLite index, served over stdio and HTTP, and a
collector that polls mailboxes, calendars, drives and message databases and
ingests what it finds into daily logs. Paths below are relative to the
repository; `collector/buffer.ts` is short for
`mcp-server/src/collector/buffer.ts`, and so on.

Run a check with `tlc -config <cfg> <module>` and a proof with `tlapm
<module>.tla`. `PROJECT.json` lists the runs, the mutations that show each
property can fail, the lines every definition stands for, the findings, the
hazards and the theorems.

## 1. The system

| component | state it keeps | operations | talks to |
|---|---|---|---|
| event buffer, `collector/buffer.ts` | SQLite table `events` (unsynced / synced / held rows, attempts, times), process counters | push, four fetches, markSynced, recordFailedAttempts, cleanup, init, destroy | daemon, `memory_ingest`, `POST /ingest` |
| collector daemon, `collector/daemon.ts` | a `PollTimer` per active source (backoff, `inFlight`), the cycle in flight | pollSource, syncPollTimers, runIngestion, runCleanup, stop | registry, buffer, pipeline |
| ingestion pipeline, `collector/ingestion.ts` | promise chain, per-source counts of the minute, hashes accepted in 26 h and their sidecar file, the daily logs | ingest, decideAction, doWrite, bumpImportance | daemon, tools, memory search, daily logs |
| source registry, `collector/registry.ts` | adapters, who is active, encrypted state file (enabled, consent, config, cursor), resume timers, a lock per source | enable, disable, consent, configure, saveCheckpoint, custom sources | adapters, daemon, tools, dashboard |
| adapters, `collector/adapters/*` | a cursor each, credentials | init, poll, destroy | external services |
| fusion, provenance, crypto | clusters of activity; archive files; key file | fuse, append, encrypt | tools, pipeline, buffer |
| store lock, `store-lock.ts` | the lock file and its heartbeat | acquire, reclaim, take over, refresh, release | every process on the store |
| memory store, `store.ts` | SQLite index: chunks, embeddings, content hashes, access counts; primary or secondary mode | index, search, retainFiles, decay, boost | tools, lock |
| tools and background work, `tools.ts` | file watcher, sweeps, compile queue, schedules, collector singletons | the MCP tools, reindexFile, compile, doInitCollector | store, collector |
| files, `atomic-fs.ts`, `daily-format.ts`, `daily-paths.ts` | the Markdown tree | createOrAppend, atomic and exclusive writes | everything that writes memories |
| entities and wiki, `entities.ts`, `wiki.ts` | generated pages with human sections | regenerate, link | compile |
| HTTP server, `http.ts`, `oauth-helpers.ts` | clients, one-time codes, refresh tokens, MCP sessions | OAuth endpoints, `/mcp`, `/ingest` | tools |
| stdio server, dashboard, lint, optimize, chunker, embeddings | little | request handlers and text analysis | store, registry |
| sync scripts and hook, `scripts/`, `integrations/` | git trees, files | pull, push, hook events | the tree, `/ingest` |

How they interact. Everything in one process runs on one event loop: what lies
between two `await`s is atomic, and nothing else is. A poll, a search, an
adapter's start and a destroy are awaited; the buffer's operations are
synchronous. Rows of the buffer are not claimed by who fetches them. Adapters
are objects shared by the poll loop and by the user's enable and disable calls.
Several processes (stdio clients, the HTTP server) may open one store, and a
lock file decides who is primary.

What is hard here, and what makes each part correct:

- **Buffer.** Three consumers and several producers over unclaimed rows; two
  transactions in a push; eviction counted by arithmetic that never sees the
  rows it counts; keys that change across restarts. Correct: one row per event,
  rowids never name another event, nothing waiting is dropped while something
  safe is left, every loss is counted, synced is final, fair fetches.
- **Ingestion.** Check, await, write, record; the same event in several batches;
  a log written per event and hashes written per batch. Correct: no event leaves
  the queue unheard, a content is written once unless the process died or the
  window passed, every row leaves the queue.
- **Polling.** A cursor in an object, in a file, and events in a third place;
  polls outlive the timer that started them. Correct: the saved cursor is never
  past an event that did not reach the buffer, every event is collected.
- **Registry.** User operations, agents' requests and timers on one source, with
  awaits inside; a state file that may be unreadable or of another version.
  Correct: nothing runs without consent to what it is now, off stays off, what
  runs would come back, settings are the user's.
- **Store lock.** Reclaiming a stale lock by several processes, a holder that
  comes back. Correct: a displaced holder has stopped before its successor
  begins, and a dead primary is replaced.
- **Index.** Sweeps and watchers against concurrent writes and asynchronous
  embeddings, rebuilds in several statements. Correct: a recorded hash vouches
  for the rows, and the index ends up with the text of the files.
- **Importance.** Dates and counts kept beside the rows by several servers.
  Correct: a rebuild keeps what was learned, no day counts twice.
- **Files.** Daily logs appended to while their frontmatter is rewritten; notes
  that choose a free name; pages regenerated while people edit them. Correct:
  nothing written is lost, what a person wrote stays.
- **HTTP.** One-time codes, an approval form, sessions whose initialization is
  awaited. Correct: one token per code, consent is for what was shown, the
  sessions are counted and those in use stay.

`PROJECT.json` has the hazards one by one, at their lines.

## 2. Modules

### EventBuffer

The table `events` and everything done to it. `rows` is a function from rowids
to rows; `nextRowid` is AUTOINCREMENT's counter; `handed[c]` is what consumer
`c` keeps in memory between a fetch and its settlement. Actions and code:

| action | code |
|---|---|
| `PushBatch` | `push`, `pushBatch` with `enforceCapacity` |
| `PushTorn` | the process dies between the two transactions of a push |
| `Fetch` | `fetchUnsynced`, `fetchUnsyncedBySource`, `fetchUnsyncedFair`, each with `decryptRows`, which holds what does not decrypt |
| `Settle` | `markSynced`, then `recordFailedAttempts`, as the daemon and the tool call them, with no await in between |
| `EndCycle` | a cycle whose handler throws |
| `cleanup` | retention of synced rows |
| `Open`, `Close` | `init` with the release of held rows; `destroy` or death |

A batch is a set of events. That is enough: the order of a batch decides which
of two events of one identity is inserted and how rowids are numbered, and both
are nondeterministic (`Insertions`, `Numberings`). Payloads, privacy and
encryption are reduced to the key a row was written under. `buffered_at` has
seconds, so ties in the fetch and eviction order are broken any way
(`FirstRows`, `Victims` are sets of possible results).

### IngestQueue

EXTENDS EventBuffer with the pipeline of `ingestion.ts`. `chain` is the promise
chain of batches: its head is the batch being ingested. The checks of one event
(rescored importance, rate limit, hash) are one step (`Judge`), as in the code
there is no await before `decideAction`; the search's return, the write and the
recording of the hash are another (`Conclude`), because a write may fail and
others run while the search is awaited. `Return` saves the hashes and hands the
outcomes back, and `SettleCycle` or `FailCycle` applies them to the rows. The
consumers are the daemon, whose cycle joins one in flight, and calls of
`memory_ingest`; `Post` is `POST /ingest`, which buffers, ingests, and never
settles. `Crash`, `CrashInPush` and `Restart` lose what is in memory and read
the hashes back. The daily log is a count per content, since what the properties
ask is how often a content was written.

A search of the memory may miss what is there and never finds what is not; dedup
through it is therefore only an optional skip. Privacy filtering and formatting
are left out. `stop()` runs one more cycle, which is a `DaemonCycle` before a
`Crash`.

### PollLoop

EXTENDS EventBuffer with the poll loop, the adapters and the switching part of
the registry. A source's offers are a stream 1, 2, 3, ...; a cursor is a
position in it and an event's id is its position. `live` is the cursor in the
adapter object, `saved` the one in the registry's file, `polls[s]` the polls in
flight (in the plural: removing a timer forgets `inFlight`). A poll begins
(`BeginPoll`), reads (`ReadOn`), and returns (`ReturnPoll`: push, then
checkpoint, in one turn) or fails (`FailPoll`: the cursor is put back where this
poll began). Adapters in `Eager` (email, google-calendar) move their cursor
while reading, the others when they return. Enabling is three steps because the
old instance's destroy and the new one's init are awaited; disabling is two. A
source switched on without a saved cursor starts at its window or "from now"
(`since` records where). The backoff after failures only delays the next poll,
and a poll here may begin at any later time, so it is not modelled.

### StoreLock

Who is primary: `store-lock.ts` with its callers in `store.ts` and `tools.ts`.
The actors are processes on several hosts, so here every system call on the lock
file is a step: `Create` (openSync "wx"), `Judge`, `Refuse` or `Await`
(inspect), `MoveAside`, `Discard` or `PutBack` (reclaim), `Write`, `Beat`,
`Close` and `RemoveLock` (the release reads, then removes). A process creates at
most one lock file in its life, which is therefore named after it; `path` and
`aside` are the directory entries that lead to files. `pc` is where a process
is; `joined` whether it has the database open; `timer` its time to the next
heartbeat, retry or deadline. `Tick` lets time pass, and does not while a
running process is between two system calls or has a heartbeat due: those take
milliseconds, ticks are seconds. `Pause` takes a process out of that rule
(SIGSTOP, a closed lid, a blocked event loop). `inPlace` is a history: the lock,
if it has been at the path ever since it was created.

That a lock's pid is alive and is the process that wrote it (kill 0, start time,
pid space) is reduced to "local and alive". The special limits for a container's
previous run and for a reboot are left out: both only make a dead process's lock
stale sooner.

### EventDelivery

What the collector promises of an event, with no word of rows, cycles or
batches: `owed` maps the events the collector still owes the memory to how often
each was tried, `memory` is the set of contents in the memory, `dropped` counts
losses. An event is accepted (others may be dropped to make room, and are
counted), a content is delivered, and a settlement may release an event only if
its content is in the memory, it is not wanted, or it was tried `MaxTries`
times. IngestQueue implements it: `Delivery` in `IngestQueue.tla` is the mapping
(owed: the rows not yet synced, with their attempts; memory: contents written or
similar to something written; dropped: the two counters), and
`EventsAreDelivered` the property.

### MemoryIndex

The search index over `memories/`: `tools.ts` (`reindexFile`, `reindexAll`,
watcher, takeover) and the tables of `store.ts`. Servers are single threads on
one database, and other programs change the files.

| action | code |
|---|---|
| `Start`, `TakeOver` | the constructor and `tryBecomePrimary`; `Reconciling` queues the statements of a rebuild when the index is of another embedding provider |
| `ClearChunks`, `ForgetHashes`, `StampFormat` | those statements, each a transaction |
| `DropMeta`, `DropRows` | the two halves of `removeFile` / `retainFiles` |
| `reindexFile`, `Commit`, `EmbedFails`, `Refused` | read, hash, await the embeddings; then the transaction, which the code makes only if the file and the provider are still the same |
| `StartSweep`, `SweepFile`, `SweepLists`, `SweepAborts` | `reindexAll`, file by file, and `retainFiles` at its end |
| `WatchFile` | one path of the watcher's queue |
| `Edit`, `Write` | a change from outside, which each watcher may miss, and a tool's write followed by reindexing |
| `ForceReindex`, `trackAccess` | `memory_reindex` with force; a read or a search hit, which leaves a `file_meta` row |
| `Stop`, `Kill`, `Fence` | an orderly end, an end between two statements, a lost lock |

### Importance

One memory's row beside its text: importance, dates, reads. `BeginReindex` and
`CommitIndex` are the two sides of the embeddings' await (with what `indexFile`
takes over from the old row and the file), `Rebuild` and `ForgetHash` what a
change of provider does; `trackAccess` and `RecordRead` the two statements of a
read, `trackAccessBatch` the batch after a search; `BeginRun`, `UpdateRows` and
`StampRun` are `decayImportance` or `boostFrequentlyAccessed` (`RunKey` names
the stamp). `Midnight` begins a day. The removal of the file is not modelled,
and a search's results and their count are one step.

### SearchSample

The sample of a search in a large store: `CountChunks`, `SelectChunks` and
`AnswerSearch` with `ChunksChange` in between, and `selectEvenSample`, the SQL
of `store.ts:67-110` as an operator: row `rn` is taken when `floor((rn + phase)
* cap / total)` increments there.

### SourceRegistry

Who may switch a source on, and what survives (`collector/registry.ts`, with the
dashboard's handlers and `memory_sources`). `config`, `defs`, `agreed`, `cursor`
are the state in memory; `disk` the state file, saved whole under a key;
`active[s]` what runs (for a custom source, its definition); `queue[s]` and
`phase[s]` the operations behind `withSourceLock`. The rest are histories the
properties speak of: `shown` (what the page last showed), `consented` (what the
user last agreed to), `wanted` (the user's last switch), `chosen` and `unsure`
(the settings last reported as stored, and whether that report was overtaken).

| action | code |
|---|---|
| `Call` | enable, disable or remove enters the queue |
| `BeginEnable`, `Installed`, `InstallFails`, `Destroyed`, `InitSucceeds`, `InitFails` | `enableSource` between its awaits: dependencies, the old instance's destroy, init |
| `BeginDisable`, `EndDisable` | `disableSource` and `removeCustomSource` around the awaited destroy |
| `restoreEnabledSources` | the resume timer: queues an enable for each source that is on and not up; `StillToResume` looks again when its turn comes |
| `updateSourceConfig`, `addCustomSource`, `recordAgreement`, `saveCheckpoint` | the synchronous calls, which land in any await |
| `Show` | the dashboard shows what would be agreed to |
| `Start` with `Load`, `OldFile` | a start: the file is read, unreadable under this key (then set aside), or of an older version |
| `Stop`, `Die`, `DieRemoving` | ends of the process |

`backups` (the copies kept of unreadable files) is state of the code that no
property reads.

### HttpServer

Codes and tokens are rows of `tokens.sqlite` and survive; `logins`, `forms`,
`sessions`, `transport`, `reserved` and `responses` are the process's. The
secret of a code or a login is its number; a `challenge` stands for its
verifier. A behaviour is about authorization or about sessions (`about`): they
share tokens, the clock and the life of the process, which both have.

| action | code |
|---|---|
| `Authorize`, `ShowConsent`, `Approve` | `GET` and `POST /oauth/authorize`, with and without approval |
| `Exchange`, `ExchangeTorn`, `FailedExchange` | the token endpoint; `Torn` is the death between deleting the code and storing the token |
| `ClientCredentials`, `issueDashboardSession`, `PresentLate`, `SetApproval` | the other grant, browser logins, an expired secret presented, the setting |
| `BeginSession`, `SessionStarts`, `SessionRefused`, `ResponseCloses` | an initialization around its await, with the place it reserves and the three ways to give it back |
| `UseSession`, `EndSession`, `Cleanup`, `Fence` | requests, `DELETE /mcp`, the interval, a lost store lock |
| `Start`, `Stop`, `Tick` | the process and time |

### DailyLog, CompiledNotes, EntityPages, Fusion

`DailyLog`: processes that append to one daily log and raise its importance, by
system call. `Open`, `WriteFirst`, `WriteEntry` are `createOrAppend`;
`BumpRead`, `BumpOpen`, `BumpCompare`, `BumpWrite` the bump in place
(`bumpFileImportance`) and `BumpCheck`, `BumpRename` the one that replaces the
file. A file stays the file it was when its path leads to another.

`CompiledNotes`: `memory_compile`. Calls of one server pass one door per
directory (`AwaitDoor`, `Enter`, `EnterFails`); each looks for similar notes,
tries names (`Create` is `writeFileExclusive`, `WriteBody` its write,
`NextName`), and indexes and answers (`Answer`); `CreateThrows` leaves through
the error path.

`EntityPages`: the pages rolled up from the logs, and the compile queue.
`Enqueue` is the daemon's report of written sources, `StartCompile` claims the
queue, `ReadPage`, `CheckPage`, `RenamePage` and `EndBuild` are
`buildEntityPages`, `BuildFails` a build that throws, `ByHand` a person. The
text of a page is the number of events it shows; `FileFor` is `resolvePageFile`,
which asks the pages on disk who owns a name.

`Fusion`: `clusterEvents` as a fold over the events sorted by time, `MemoryFuse`
and `DaemonFuse` as its two callers, `writeFusedActivities` with the sidecar
that may not be saved, and `Forget`, the sidecar's retention.

### Proof modules

One per component: `EventBufferProofs`; `IngestQueueProofs` and `PollProofs`,
which extend it with `IngestQueue` and `PollLoop`; `StoreLockProofs`,
`IndexProofs`, `RegistryProofs` and `HttpProofs`; and `FilesProofs` for the six
modules of the files run (daily logs, notes, pages, fusion, importance, sample).

### MC modules

`MCEventBuffer` and `MCHttpServer` add symmetries, `MCIngestQueue` the functions
from ids to contents, `MCStoreLock` which process is on which host,
`MCMemoryIndex` which providers a server may be started with, `MCSourceRegistry`
and `MCPollLoop` nothing. `MCMemoryFiles` composes six modules that share no
state: a behaviour is about one of them, chosen by `part`, so the run explores
the sum of their state spaces, not the product.

## 3. Runs

| run | configuration | bounds | shows |
|---|---|---|---|
| buffer | `EventBuffer.cfg` | 1 source, 3 ids, 2 importances, 2 keys, capacity 2, 3 rowids, pushes of up to 2 | rowids never reused, evictions counted, safe rows first, synced is final, release under one key |
| buffer_fair | `EventBufferFair.cfg` | 2 sources, 3 ids, capacity 4, batch of 3 | the even split of the fair fetch |
| ingest | `IngestQueue.cfg` | daemon, tool and a POST, 2 ids with 2 contents, limit 1, 2 attempts, 1 lapse or crash | no silent loss, written once, what is remembered is not rewritten |
| ingest_live | `IngestQueueLive.cfg` | daemon and tool, 3 ids, one of low value and one with content known before, batches of 1, no crash | every waiting row leaves the queue; IngestQueue implements EventDelivery |
| poll | `PollLoop.cfg` | 1 source that moves its cursor on return, 2 events, capacity 2, 1 switching off or on | no event is skipped; every event of a source that stays on is collected |
| poll_eager | `PollLoopEager.cfg` | 1 source that moves its cursor while reading, 3 events, no switching | the cursor stays behind the buffer, and nothing waiting is evicted |
| lock | `StoreLock.cfg` | 2 servers on one host, 1 on another that may take over; heartbeat 2 ticks, grace 3, stale after 4; 1 exit, 1 pause | a displaced holder has stopped before its successor opens the database; a lost primary is replaced |
| index | `MemoryIndex.cfg` | 1 file, 2 texts, 2 servers, and either one provider per server or one server with two; 1 edit, 2 starts, 1 kill, 1 forced reindex | a hash vouches for the rows; the index converges |
| registry | `SourceRegistry.cfg` | a built-in source with dependencies, a custom one with 2 definitions, 2 keys, 3 calls and starts, 1 addition, 1 failed backup | consent, off stays off, what runs is saved, settings, what is on comes back |
| http | `HttpServer.cfg` | 1 code, 2 tokens, 3 logins, 1 form, 3 transports, caps of 2, clock up to 2, 1 restart | codes, approval, sessions |
| files | `MemoryFiles.cfg` | log: 2 writers, 3 entries of importance 8, 9, 10; notes: 3 calls in 2 servers, one directory; pages: 2 sources of one name, 2 builders; fusion: 4 events, 2 windows; importance: 2 servers, 2 texts, 2 days; sample: caps 1 to 4, 8 chunks | entries, notes and people's pages stay; compiles are answered; pages converge; events are fused once and clusters are runs; dates are true, no day counts twice; samples are even |
| entity_labels | `EntityLabels.cfg` | pages: no failure, nothing by hand | a violation |

The state spaces have 41,000 to 1.7 million distinct states. Type invariants are
conjuncts of a named invariant: `PollTypeOK` of `NothingSkipped`, `LockTypeOK`
of `DisplacedHasStopped`, `IndexTypeOK` of `HashVouches`, `RegistryTypeOK` of
`RunningIsSaved`, `HttpTypeOK` of `SessionsCounted`, `LogTypeOK` of
`EntriesKept`.

Why these bounds are enough. The hazards of the buffer need a table with one
more row than capacity, two statuses competing for eviction, and two keys. Those
of ingestion need two batches that hold the same row, one event ahead of another
with its content, a budget that runs out, and one crash. Those of polling need
two polls in flight of which one fails, and two events so that a cursor can be
past one and not the other. The index needs two texts (one stale in an embedding
while the other is on disk), two servers, or one that comes back with another
provider. The registry needs an operation queued behind one under way with a
third call landing in its await, and a restart; two sources because the file is
saved whole. Sessions need one more transport than the cap; codes are
independent of one another, so one is enough to ask what becomes of it, with two
challenges and three logins around it. Every entry of `DailyLog` is there
because of its digits: 8 and 9 fit in place, 10 replaces the file. Pages need
two sources that want one file. Importance was also run alone with three days'
happenings, the lock's safety with two pauses (6.2 million states): both pass,
and are left out for their length.

Every counter that bounds a run (`MaxRowid`, `MaxClock`, `MaxPosts`,
`MaxLapses`, `MaxProduced`, `MaxToggles`, `MaxBatch`, `MaxExits`, `MaxPauses`,
`MaxEdits`, `MaxStarts`, `MaxKills`, `MaxForces`, `MaxCalls`, `MaxAdds`,
`MaxQueue`, `MaxBackupFailures`, `MaxCodes`, `MaxTokens`, `MaxLogins`,
`MaxForms`, `MaxFiles`, `MaxDeaths`, `MaxServerDeaths`, `MaxEvents`,
`MaxByHand`, `MaxAsked`, `MaxFailures`, `MaxTrouble`, `MaxHappenings`,
`MaxChunks`) is a guard of the actions it stops, and the systems stop there: the
runs do not check deadlock because a bounded system, and one that nobody uses,
comes to rest. Crashes are not bounded in PollLoop; in IngestQueue they are,
because `WrittenOnce` counts them.

The poll_eager run leaves out switching in a running process because with it the
property is false (see "Seen on the way"). Its capacity is what the threshold
and one poll need. With less headroom `NothingWaitingEvicted` is false: the
backlog is checked before a poll, and the poll may bring more than fits
(`collector/daemon.ts:298`), as do two polls of two sources that both looked
before either returned. How much headroom is enough, for any number of sources,
is the theorem `WaitingStays`.

Fairness, and why the code justifies it:

- `FairIngestSpec`: the daemon's interval fires (weak fairness of
  `DaemonCycle`), promises run (`Ingest`), the settling code runs; not every
  batch begins in the same minute (strong fairness of `BeginInFreshWindow`: the
  window is reset a minute after it was opened, whenever the next batch begins);
  and the settling transactions, which fail only for a full disk or the like, do
  not fail for ever (strong fairness of a settlement with something to settle).
  Nothing is assumed of the searches and writes: they may fail for ever, and the
  attempts counter then retires the row.
- `FairPollSpec`: timers fire (`BeginPoll`), a source that could answer again
  and again does (strong fairness of `ReadOn` and `ReturnPoll`, as polls in
  between may fail), and ingestion fetches and settles in the same sense.
  Enabling is not assumed fair: `AllCollected` speaks of sources that stay on.
- `FairLockSpec`: running processes go on, timers fire, time passes and pauses
  end; nobody has to start, stop or die.
- `FairSpec` of MemoryIndex: statements follow one another, sweeps come by their
  interval and go on, the watcher works its queue off, secondaries retry; and
  the embeddings of a file, asked for again and again, do not fail every time
  (strong fairness of `Commit` per file). `IndexConverges` does not assume that
  the watcher sees every change.
- `FairRegistrySpec`: the resume timer and the queue run; installing and
  starting a source that is tried again and again succeeds in the end (strong
  fairness).
- `NotesFairness`: promises run; a call waiting at the door gets in if the door
  is open again and again (when it opens all that wait look again in the order
  they came, and one that got in does not come back). `PagesFairness`: the
  interval passes, the timer fires, and a build goes on.

`RowsLeaveQueue` and `EventsAreDelivered` are checked without a crash, because a
crash may only repeat what the run already explores with fresh counters; safety
across crashes is the `ingest` run. `IndexConverges` has the conditions under
which the code keeps it: no death between two statements of one operation (the
next sweep trusts the hash), and for deleted files one server at a time.

## 4. Findings

- **TouchedAreRefreshed** (`tools.ts:630`, run entity_labels). The queue names
  sources as the adapters do (imessage, calendar, email), the builder compares
  with the labels of the entries' headings (iMessage, Calendar, Email): a
  scheduled compile that took only such names refreshes no page, against the
  comment that the next pass refreshes exactly the touched pages. A pass that
  finds the queue empty builds all pages, so `PagesConverge` holds.

Seen on the way, not among the runs:

- Two consumers hold one row: one writes it, the other's failures dead-letter
  it, with a log line that says it was not written (`tools.ts:2366`).
- A poll of an adapter that moves its cursor while reading outlives its timer
  when the source is switched off and on; the next poll starts from the cursor
  the first has moved, saves it, and a crash then skips the first one's events
  (`collector/daemon.ts:209`). This is why the theorems of PollProofs assume no
  such adapter, or no switching in a running process.
- A displaced holder whose heartbeat comes just while a third process has the
  new lock moved aside finds no file, takes that for a passing error
  (`store-lock.ts:418`), renews, and stays primary beside the new one until its
  next heartbeat. It takes two pauses, and is why `DisplacedHasStopped` asks
  that the new lock has been in place since it was created (`inPlace`). A holder
  whose file is lost altogether (a process died with it moved aside,
  `store-lock.ts:276`) never notices. With four processes a fresh lock moved
  aside may not get back (`store-lock.ts:289`).
- Two servers of different providers that open a brand-new store together: the
  second is a secondary, finds no recorded provider and is not refused
  (`store.ts:493-503`), clears and stamps the index beside the primary, and rows
  of one may stay under the stamp of the other, against the comment at
  `store.ts:478-484`. This is why `HashesVouch` assumes `OneProvider`.
- A takeover from another host fences the primary, and nobody tells its
  secondaries, which go on writing (`store.ts:347`).
- One held row decides for all held rows (`collector/buffer.ts:144`), so after
  restarts under three keys rows may stay held although they decrypt; what does
  hold, and is proved, is `HeldRowsOfOneKeyComeBack`. A row is retired before
  its dead-letter record is appended (`collector/buffer.ts:444`).
- With two servers a sweep may bring back the rows of a file deleted meanwhile
  (the second part of `IndexConverges` speaks of one server).
- A configure call during an enable in flight is overwritten by the
  configuration that enable had read (`collector/registry.ts:399`), hence
  `unsure`.
- An append to a daily log between a bump's last check and its rename is lost
  (`late` in DailyLog); one whose file was opened before that rename and written
  after it goes to the unlinked file (`stray`), which the comment at
  `ingestion.ts:531-536` does not mention.
- Decay and boost of one day run twice when two servers start them together or
  one dies between the update and the stamp, against "won't double-decay"
  (`torn` in Importance); a read is lost when a reindex comes between its two
  statements (`missed`).
- Two HTTP servers on one `tokens.sqlite` may honour a code twice
  (`http.ts:478`); a manual addition to `MEMORY_INDEX.md` made during its
  regeneration is lost (`tools.ts:1925-1954`).

## 5. Proofs

All are for every value of the constants that satisfies the modules'
assumptions, and no bound matters to them.

**EventBufferProofs.** `BufferTyped`, `OneRow`, `RowidsFresh`: the inductive
invariant is the type invariant, whose part `DOMAIN rows \subseteq 1 ..
nextRowid - 1` is what makes fresh rowids fresh, and `OneRowPerEvent`. One lemma
says of an inserted table what rows it has and that identities stay unique, one
that restrictions and updates of a table keep both. `EvictionsAreCounted`,
`SafeRowsGo`: the victims are the first `Excess` rows in the eviction order, so
they meet a status only when they contain every row of the safer ones; from the
cardinalities of the partition into statuses it follows that the arithmetic of
`HeldToDrop` and `UnsyncedToDrop` counts them exactly. `SyncedStaysSynced`,
`HeldRowsComeBack`: from the updates of `rows`. `BatchesAreFair`: a row is told
by its source and its number among its source's rows, so the rows numbered up to
the even share fit into the slots (`SharesAdd`), and the fetch, which takes low
numbers first, takes all of them.

**IngestQueueProofs.** `IngestIsABuffer`: every step of IngestQueue is a step of
the buffer or leaves it alone. `ContentsAreWrittenOnce`, `RememberedStays`: in
`DedupInv`, only the head of the chain has an event out for a search, and that
event's content is not in `seen` (this is what the serialization buys); a
content not in `seen` was written at most once per lapse; an open process
remembers all of the sidecar, a closed one has no batches.
`NothingIsLostSilently`: `VerdictInv` follows a rowid from the fetch through its
batch and outcomes to the settling transaction. A work item's rowid, while in
the table, names the item's event (rowids are never reused); a rowid that is
done with is of an event in the memory or of low value; a hash is only of a
content in the memory. "In the memory" is the model's: written to a daily log,
or similar to content that was there anyway. `QueueDelivers`, the refinement of
EventDelivery: under these invariants each action maps to a step of the abstract
specification or a stutter. A push is `Accept`, as the rows that leave the
domain are exactly those the counters count; `Conclude` of a written event is
`Deliver`; the settling transactions are `Settle`, where `VerdictInv` gives the
reason each row may go; all else stutters, and `OneRowPerEvent` makes `owed`
a function of the event.

**PollProofs.** `SavedCursorIsBehind`, `PollsSkipNothing`, under `Undisturbed`
(no eager adapter, or no switching). `PollInv`: everything up to the place a
poll began at, to the saved cursor, and to the live cursor of an adapter with no
eager poll in flight has been buffered; of the polls in flight at most one owns
the timer; an eager adapter has at most one poll, as far as its cursor.
Returning a poll adds to the buffer what lies between its two ends, and a failed
one puts the cursor back where it began, which is where the invariant is used.
`PollingIsABuffer` needs neither condition. `WaitingStaysWhilePollsFit` and
`WaitingStays` say when polls never push waiting events out: `RoomKept` is that
the rows that wait, with a full batch for each poll in flight, fit into the
capacity. A poll begins below the threshold, so its batch has room if the
threshold leaves room for all polls in flight; and those are at most one per
served source, and one for each switching, which forgets the poll it found
(`FlightsCounted`). The headroom is a hypothesis because the code does not
establish it: the threshold is a fraction of the capacity
(`collector/daemon.ts:29`) that does not depend on how many sources are polled,
nor on how much one poll may bring; and no headroom is enough for any number of
switchings during polls that do not return.

**StoreLockProofs.** `DisplacedHaveStopped`, with types. `LockInv`: a process
that has written its lock never acquires again, a takeover is from a written
lock, and so a displaced holder is past acquiring (`PlaceOK`); a primary's next
heartbeat is at most `Heartbeat` away (`TimerOK`). While a lock stays in place
nobody else can renew, so the timer of a displaced holder, which starts below
the new one's wait because `Heartbeat < TakeoverGrace`, runs out before it
(`Outwaits`). That inequality, which the code gets by adding two seconds to the
heartbeat (`store-lock.ts:459`), is the assumption the theorem rests on.

**IndexProofs.** `HashesVouch`, under `OneProvider`: the servers that are up at
one time have one provider, which may be another the next time. `IndexInv`: a
hash without its rows is one a statement under way is about to remove
(`Vouching`, `Going`); a server past its rebuild finds its own format
(`Formatted`), and what is stamped anew holds no hash (`Wiped`), so the rows
that a commit of one server adds are of the format all stand for; statements are
of servers that are up, and a server's sweep waits for one file at a time.
Without `OneProvider` the property is false (see "Seen on the way").

**RegistryProofs.** `ConsentIsKept`, `OffIsOff`, `WhatRunsIsSaved` from
`ConsentInv`: for each source, consent is of what was shown, what is being
brought up has it and is on, what is on is wanted (`LiveAt`), and the same of
what a restart would find on disk (`SavedAt`), including files of older
versions. A resume that waits for its installation is re-examined, which is the
step the invariant needs. `SettingsAreTheUsers` from `SettingsInv`: unless
something overlapped or was cut short, the settings in memory, those held by an
enable in each of its phases, and those on disk are the ones last reported
(`InMemoryAt`, `OnDiskAt`).

**HttpProofs.** `CodesBringOneToken`, `ConsentIsForWhatWasShown`, `CodesWait`
from `AuthorizationInv`: a code that waits, or was not yet issued, has brought
nothing; a form's token binds it to the request it was shown with.
`SessionsAreCounted`, `ActiveStay` from `HttpInv`: a reservation belongs to a
response still open, so giving it back on refusal, on start and on close cannot
count twice.

**FilesProofs.** Each theorem is of one module's own `Init` and `Next`.

- `EntriesStay`: `LogInv` says of every entry whose append returned that it is
  in the file at the path, and in every copy a bump is about to rename over it,
  unless it is one of those `late` and `stray` name.
- `CompiledNotesStay`: a name that is being written is torn and has one writer,
  and nobody takes a name that holds something.
- `HumanPagesAreKept`: a page that is a person's while a build is about to
  rename over it became so after the build's last look (`TakenInWindow`).
- `DatesStayTrue`: unless `missed`, the last read is in the row's date and, for
  the next index, beside it, or its second statement is still to come
  (`ReadsKept`, `InReads`). `RunsStayOncePerDay`: a day that was run, and not
  torn, is past, stamped or about to be, and nobody is before its update
  (`DoneStaysDone`).
- `SamplesAreEven`: row `rn` is in the sample when a quotient grows there. Floor
  division is characterized by `q <= n \div d <=> q * d <= n`, from which every
  stretch of rows holds the rounded share of the cap, and the whole holds `cap`.
- `EventsFuseOnce`, `ClustersRun`: `clusterEvents` is a recursive function over
  the positions of the events sorted by time. That it exists and unfolds is
  shown from a least counterexample, as no induction scheme is at hand; its
  accumulator keeps that what is clustered so far are runs within the window
  (`Runs`), apart from one another (`Apart`), and hold the events passed
  (`Holds`). An event in an activity is on record or was lost from it, so a
  fresh activity shares none with those before (`Within`).

**Only model-checked.** Liveness, which with ENABLED is beyond TLAPS:
`RowsLeaveQueue`, `AllCollected`, `PrimaryIsReplaced`, `IndexConverges`,
`EnabledComesBack`, `CompilesAnswered`, `PagesConverge`. Every other property of
a passing run is stated by a theorem. Five of the theorems have a condition,
which holds in the runs of the property: `Undisturbed` (two), the headroom
(two) and `OneProvider`.

## 6. Not modelled

- Text: formatting, chunking, lint, importance scoring, privacy rules, wiki
  links, keyword search and scores, the dashboard's rendering. They compute, and
  keep no state whose steps could disagree.
- Protocols and parsing of the adapters: an adapter is a stream with a cursor. A
  UIDVALIDITY change that renumbers a mailbox
  (`collector/adapters/email.ts:195`) is outside that abstraction.
- The provenance archive: best-effort appends that nothing reads back. Key files
  and package installation (`crypto.ts`, `deps.ts`): I/O; a changed key and a
  failed installation are events of EventBuffer and SourceRegistry.
- The stdio server: its start and stop are actions of the other modules. Sync
  scripts and the hook: shell and Python around the server, to which they are
  edits of files.
- Durability of SQLite after a loss of power (`synchronous=NORMAL` may undo the
  last transactions).
- A poll that never returns: nothing in the code times it out, and
  `AllCollected` assumes it ends.
- Rate limits and headers of the HTTP server, and metadata of clients.
- Two daemons on one buffer: only a primary may run the collector
  (`tools.ts:2040`).

## 7. What is left

The modules stand in the order they were written: collection first (EventBuffer,
IngestQueue, PollLoop), then who may write (StoreLock), then what is written and
who may ask for it. What would add most next: consequences of EventDelivery that
a user of the collector would quote, proved of the abstract specification and
inherited through `QueueDelivers`; theorems of the type invariants that now
stand inside larger ones, for MemoryIndex and PollLoop without the conditions of
the theorems they stand in; `CursorBehindBuffer` under switching, with a history
that names the exceptions; a StoreLock run with four processes; the composition of StoreLock with MemoryIndex, whose
`Fence` and `TakeOver` are now free to happen at any time.
