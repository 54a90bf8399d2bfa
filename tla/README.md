# Sonarium: a verification project in TLA+

Sonarium is a home audio server in C++: a scanner fills a catalog from a media tree, a
UPnP/DLNA server lets renderers browse it, and an HTTP server streams it as HLS. This
directory holds TLA+ modules of its concurrent and stateful parts, the TLC runs that check
them on small instances, and TLAPS proofs for every value of their constants.
`PROJECT.json` maps every definition to the source lines it models.

Run a check with `tlc -config <name>.cfg <module>.tla`, a proof with `tlapm <module>.tla`.

## The system

Four programs share one catalog database; none of them talks to another directly.

    media tree --edits--> inotify --> sonarium-worker --upserts, bump--> catalog
                                                                           |
    renderers <--SSDP, SOAP Browse, media--- sonarium-dlna <---queries----+
    players   <--HLS playlists, segments---- sonarium-server <--queries---+--> ffmpeg, cache
                                             sonariumctl <--upserts, bump--+--> ffmpeg, media tree

| part (src/) | state | operations | what is hard |
|---|---|---|---|
| HLS segment cache (`hls/segmenter`, `server/hls_routes`) | cache directory, mutex registry, semaphore | `ensure_segments`, `evict_over_cap` | HTTP threads interleave; ffmpeg fails or truncates; crashes; removal is not atomic |
| scanner (`scanner/`) | catalog rows, sets of what a pass has seen | `scan` | each statement may fail; crashes; the tree changes under the walk |
| worker (`worker/`) | inotify watches, FSEvents' flag, `g_stop` | `main`, watchers | directories appear while watches are added; events during a pass; signals |
| catalog (`catalog/`) | tables, `update_counter` | upserts, listings, counts | writer and readers in different processes, no transactions around several statements |
| Postgres catalog | a connection, the schema and its version | reconnect and retry, `ensure_schema` | a retry of what was committed; several processes, of several versions, creating one schema |
| process start (`*/main.cpp`, `core/env_config`, `core/operator_mode`, `catalog/catalog_factory`) | the environment | refuse, open, serve, exit | a database that is not up yet; crashes half-way; restarts |
| browse (`dlna-core/`) | none between requests | `handle_browse`, ids, profiles, resources | several queries make one answer, several answers one container; ids that contain each other |
| control and delivery (`composition/`, `upnp/soap_envelope`, `server/hls_routes`, `core/media_token`) | none | SOAP dispatch, media, art and HLS routes | one parser for every control point's XML; links that must still be good at the next hop |
| transcoding (`cli/main.cpp`, `transcode/`) | files beside the originals, rows | `sonariumctl transcode` | every step may fail or be killed; its output may be the next run's input |
| SSDP (`composition/ssdp_service`) | socket, threads, timer, token bucket | `start`, `stop`, receive loop, alive tick | three threads, one mutex, joins, the order of the last packets |
| path layout, audio metadata, message texts, hashes, logging, reports of the CLI | none | parse, format, print | boundaries only |

The properties that make each part correct are the ones its module states; the hazards they
answer are listed line by line under `hazards` in `PROJECT.json`.

## The modules

### Segmenter, SegmentCache, SegmenterProofs

`Segmenter` models `hls::Segmenter`: a thread's `pc` is its place in `ensure_segments` or in
the sweep that ends it, one action per system call or lock operation. `cache` and `part` are
the published directory and the one ffmpeg writes (`<id>.part`), each a set of entries;
`registry` and `owner` are `per_rendition_mutexes_` and the mutexes in it (identities, so
that an erased and re-created mutex is another one); `slots` is the semaphore; `used` the
rank of a playlist's mtime. `SegmentCache` is what callers rely on without a cache cap: a
rendition is segmented by one thread at a time and published in one step for good.
`Segmenter` implements it (`ImplementsSegmentCache`).

Assumed: a crash takes the ffmpeg children along, a live ffmpeg writes at least hourly
(`evict_over_cap` purges `.part` leftovers by age), and a sweep's directory listing is atomic.

### Catalog, MediaScanner, ContentDirectory, LibrarySync, CatalogProofs, LibrarySyncProofs

`Catalog` is the database: a table is a function from ids to rows, an id a sequence of slug
numbers of which an album's extends its artist's, and so on. `MediaScanner` is
`scanner::scan`, one action per SQL statement, with a fault for each of them, for ffprobe,
for the root and for the process; the metadata of a file is a version number. A read of the
file system is merged with the write that follows it. `Skip` passes over a file that is
gone, `SkipUnreadable` one that is there but whose status or path cannot be read, and
`CoverUnreadable` finds no cover in a directory that cannot be listed: none of them leaves
a trace in the report, so the two properties of a clean pass claim nothing of such files.
`ContentDirectory` is `browse_direct_children` for artists, the albums of an artist, the
tracks of an album and all tracks, one action per query, with a renderer that pages and
starts over when UpdateID changes. `LibrarySync` composes them: worker, edits and requests
interleave at every statement. Foreign keys are not enforced in the model, so `RowsLinked`
shows that the scanner's order of writes suffices (`cover_art_asset_id` has none in the
schema).

### WatchLoop, WatchLoopProofs

`sonarium-worker --watch`: the initial pass, the construction of the watcher, waiting,
debouncing, rescanning and stopping, for the inotify, the FSEvents and the polling watcher,
over a tree in which files change and directories appear, arrive with content and go.
inotify needs a watch per directory, so its construction is a walk and so is the reading of
an event for a new directory. FSEvents reports on the whole tree from the moment its stream
starts; `Callback` runs on the dispatch queue and sets `changed`, which the wait takes. A wait
that times out is a stutter. The import of a directory may fail (`ImportFails`: `run_pass`
only prints the report and main waits on), and the kernel may refuse a watch
(`AddWatchFails`). The event queue is unbounded and directories are not renamed in place. The
rows of files that are gone stay, in the code as in the model; up to date means what exists.

### PostgresCatalog, Startup, StartupProofs

`PostgresCatalog` is the database as processes drive it. The schema is one script: position
0 creates `schema_version`, `all_statements` follow, then each version's migration and the
statement that records it. `done` is what has taken effect, `next` and `pc` where a process
is in `ensure_schema`, where a statement fails by a collision or a lost connection (any other
refusal ends in the same exit and is not modelled apart); a process built for an older
version leaves a newer schema alone. A
connection is open, closed or stale (dropped by the server, not noticed yet); a call is one
statement of `PostgresRepository` with its reconnect and one retry, whose answer may be lost
after it took effect. `Startup` adds what surrounds it: the environment that is accepted or
refused, the backend it chooses (a SQLite file that another process holds locked included),
the sample catalog outside production, exit statuses, signals, crashes, and the restarts of
the systemd units (`Restart=on-failure`, not after status 2).

### Transcode, TranscodeProofs

`cmd_transcode` with the ffmpeg child and the disk: the first rendition by id is the source,
the output lies beside it under the codec's extension, ffmpeg truncates and grows it; then
the stat, the row and the bump, each of which may fail, and a kill between any two. A path is
the record of a file with another extension; a file's content is its bitrate and whether it
is whole.

### DeviceProfiles, MediaToken, BrowseTree, SoapEnvelope, SoapControl, MediaDelivery, DlnaSession, DlnaSessionProofs

The stateless middle of the servers, as operators over the state of `Catalog` and
`Transcode`, and one module that drives them:

- `BrowseTree`: object ids and how they are parsed, BrowseMetadata and BrowseDirectChildren of
  every kind of object, the page rules of listings and of playlists, items with their
  resources. The two handlers build the same containers separately and differ in two places:
  BrowseMetadata says that the root has one child (it lists two) and that Playlists hangs
  under Music (it is listed under the root). An artist's count is that of its
  albums, which are all in its one albums folder. `TreeCoherent` states these as they are (`HomeOf`, `Miscounted`) and
  everything else exactly. Here a browse is one step; `ContentDirectory` is the same handler
  split into its queries, for the kinds that a scanner changes meanwhile.
- `DeviceProfiles`: the built-in profiles, their matching by User-Agent, which renditions are
  offered in which order, and what GetProtocolInfo announces.
- `MediaToken`: signing and verification; an HMAC is the record of what it covers, so only
  the servers make a valid one, and an id other than the signed one never passes.
- `SoapEnvelope`: `parse_soap_request`, on tags, spaces, text, comments, CDATA sections and
  processing instructions instead of characters. `Render` writes a request the way a
  control point might (upper case or not, prefixes, prolog, header, comments, empty elements).
- `SoapControl`: endpoint, service and action dispatch, faults, a query that fails.
- `MediaDelivery`: the media, art and HLS routes, path containment, playlists and the tokens
  of the links they hold; `ensure_segments` succeeds here, since `Segmenter` is about it, and
  a cover's file is taken to be there and to be a JPEG.
- `DlnaSession`: a renderer of any profile browses any object, page after page, takes a link
  out of an item and fetches it; a player starts from a master playlist and follows links;
  `sonariumctl` transcodes and the clock moves on in between.

### ResponseBudget, SsdpService, SsdpServiceProofs

`ResponseBudget` is the token bucket in front of M-SEARCH answers, in whole tokens and clock
ticks (the code uses doubles; the refill is exact here). `since` and `sent` are history:
they count packets from any moment on. `SsdpService` runs it inside the service's three
threads: main (`start`, `stop`), the receive thread and the alive timer, packet by packet
under `send_mutex_`. The atria library is external: a send on an open socket succeeds and on
a closed one fails, a receive with a timeout returns, and stopping the timer waits for a
running callback. A send that fails on an open socket would end its burst
(`ssdp_service.cpp:312-318`); that is left out, so `SaysGoodbye` is about the order of
packets, not about the network.

## The runs

| run | question | result |
|---|---|---|
| segmenter_nocap | without a cap, whatever ffmpeg and crashes do: one writer, no slot or lock lost, nothing half-written served, implements SegmentCache | holds |
| segmenter_evict | with sweeps that evict each other's renditions, removals that fail and crashes: every call returns, `total_bytes` never wraps, and only an interrupted removal leaves a playlist without segments | holds |
| segmenter_sweep | an undisturbed sweep evicts the least recently used, no more than needed, and ends under the cap | holds |
| segmenter_forget_race | with a cap, one writer per rendition | **violated** |
| media_scan | any one edit, any faults, two passes: rows never dangle; a clean report is true; unannounced changes are reported | holds |
| media_scan_walk | the same when the directory iterator fails | **violated** |
| library_sync | a renderer's complete copy under the current UpdateID is the catalog's content | holds |
| watch_loop | with each of the three watchers, imports that fail and watches that are refused: every other directory watched, nothing else missed, the catalog catches up, signals end it | holds |
| ssdp_service | byebye complete and last, no use of a destroyed socket, stop returns, answers within the rate | holds |
| startup | the schema recorded and served is complete, calls' answers are true, processes come up, calls return | holds |
| dlna_session | the tree is coherent however requests are written, pages add up, links play until they expire, listings under the current UpdateID are fresh, a transcode keeps its source and its word | holds |
| transcode_originals | transcoding leaves the imported files alone | **violated** |

The violated runs, each of a statement quoted under `findings`:

- *forget_race*: `evict_over_cap` erases a mutex that another thread has already looked up;
  two threads then segment one rendition into one `.part` directory.
- *media_scan_walk*: `it.increment(ec)` on error makes the iterator the end iterator, so the
  `if (ec)` in the loop never sees it: the rest of the tree is skipped in silence.
- *transcode_originals*: the source is the first rendition by id, so after a transcode to aac
  an mp3 track's next source is the aac file, and a transcode to mp3 writes over the original.

### Bounds

- Segmenter: two or three threads and renditions, one or two segments. Races need two
  threads on one rendition and a third party on another; a half-written directory needs two
  segments; an eviction order needs three renditions. `MaxMutexes` bounds the mutexes of one
  rendition referenced at a time: one without a cap (nothing erases them), three with two
  threads. segmenter_evict has one slot, so that the race of segmenter_forget_race is not what
  tears a playlist there, two renditions over a cap of one, and one segment: a playlist
  without it is torn.
- MediaScan: two tracks of one album in two directories that share its ids (so seen-sets
  matter), two metadata versions, one edit, two passes (what the first left is what the
  second finds). Every fault is on, unreadable files among them (`"access"`); that of the
  iterator is in media_scan_walk. LibrarySync: two tracks, pages of one row, so that every
  complete copy of the tracks takes two answers; crashes but no other fault, which
  media_scan covers.
- Startup: a server of version 1 and a worker of version 2 (so one migrates under the
  other), a script of one table statement and two versions, two faults (one to break
  something, one to break its repair), one call each; the database starts empty, from before
  versions were recorded, or at any version.
- DlnaSession: two tracks, of which one artist's slug is "albums" (the suffix that marks an
  albums folder), a playlist that repeats a track, pages of two from listings capped at one,
  three renderers (with and without a capability), three ways to write a request, two
  transcodes (the second may read what the first wrote), two ticks of the clock with tokens
  that live for one.
- WatchLoop: a tree of four directories, two levels deep below the root, and three edits:
  one to add a directory under the walk, one to fill it, one to remove it or touch another;
  one failed import or refused watch (`MaxFaults`), after which the loop goes on.
- SsdpService: bursts of two packets, a bucket of two with a refill of one, three ticks:
  empty, part refilled and capped all occur.

Nothing else is bounded; deadlock is checked wherever the system never stops, and is off for
the modules whose edits, passes or service life are finite by design.

### Fairness

- Segmenter: each HTTP thread is scheduled and every ffmpeg child ends (`spawn_and_wait` has
  no timeout, so without that no call need return).
- WatchLoop: the worker's single thread is scheduled and FSEvents delivers what it has (WF).
  Edits and signals are never forced.
- Startup: started processes run, systemd restarts the ones that failed, a database that went
  down comes back, and a call goes on (WF). Connecting is strongly fair: a process that is
  restarted again and again does not find the SQLite file locked, or the database down, each
  time. Faults are finite and never forced.
- SsdpService: the three threads are scheduled and the receive timeout expires; nobody is
  forced to stop the service. `StopReturns` starts where `stop` has cleared `running_`: from
  there contention for `send_mutex_` is finite.
- The scanner, browse, delivery and transcode modules claim no liveness.

## What is proved

Every safety property that a passing run checks is a theorem, for every value of the
constants, under the named ASSUMEs of the modules, all of which TLC evaluates too, and the
hypotheses named below.

**SegmenterProofs.** The inductive invariant `IInv` is the types, the shape of a thread's
locals at each `pc` (what handle it holds, where `part` is), `LocksOwned` and
`SlotsConserved`: the two ownership statements are inductive only together with the shape,
since an early return is correct because the thread holds what it gives back. From it:
`TypeCorrect`, `SlotsSafe`, `LocksSafe`, with any cap. Part of it is `TotalsCover`: the
entries a sweep has yet to look at, and the one it is removing, are counted in its `total`,
so the unsigned `total_bytes` never wraps below zero, whatever other sweeps delete
meanwhile. Without a cap (`MaxBytes = 0`) the stronger invariant adds that a registered
mutex is the only one of its rendition, what `part` holds at each stage, and that what is
published is complete; from it `SingleWriter`, `NeverHalfWritten`, `Monotonic` and
`Refinement` (Segmenter implements SegmentCache, step by step). With a cap `SingleWriter`
does not hold: segmenter_forget_race is the counterexample. Nor does `NeverHalfWritten`,
and not only because of that race: a sweep's `remove_all` that a crash or an I/O error
interrupts may leave a playlist without its segments. `OneWriterOnlyRemovalsTear` says that
as long as a rendition has one writer nothing else does, with any cap, threads, crashes,
failing removals and whatever ffmpeg writes; and `OneSlotOnlyRemovalsTear` that with one
transcode slot that is always so (two segmenting threads would hold two slots). What is
published is whole because what `part` holds at each stage is what its one writer put there
(`PartOK`), and from then on only a removal that a sweep has begun takes segments away.

With a cap, of one thread at a time, without a crash and without a removal that fails
(`Undisturbed`, as in segmenter_sweep): `SweepInv` says what a sweep's list and count stand
for at each step (`total_bytes` is the size of the cache but for what is being deleted; what
is no longer listed is gone or the one to keep). From it `SweepReachesCap` and
`OldestGoFirst`. Sweeps that interfere count what others delete, and a
failed removal stays over the cap; the properties claim nothing of those.

**CatalogProofs** has what the others need of ids: an album's id extends its artist's,
`IdBefore` is a strict total order, and `Sorted` lists a finite set of ids once each, in
that order.

**LibrarySyncProofs.** For any files, faults, edits, renderers and page sizes:

- `SyncTypes` and `RowsStayLinked`, from `LinkedInv`: whatever row a statement is about to
  refer to has been written earlier in the pass (`Prepared`), also when a pass is killed.
- `SilenceIsReported`: rows that changed without a bump are reported as errors.
- `CleanPassStores` and `CleanPassCovers`, while `"walk"` is not among the faults (with it,
  media_scan_walk is the counterexample). In a pass without an error so far, a file that
  nobody touched and that could be read (`excused` has the others) is yet to come, being
  imported or stored; an album is yet to come, about to be written with the right cover, or
  written with it (`StoresInv`, `CoversInv`). Where the directories of one album differ, the
  cover is that of the first visited, and any may be first: the row then names the image of
  one of them, or nothing because one has none.
- `CopiesAreCurrent`. `CopyInv` has two parts per renderer. What it holds under the current
  UpdateID, with nothing unannounced, is the first `start` rows as they are now. And a page
  being built, if it began at that UpdateID, holds the rows from there to where the thread
  is. A bump invalidates both at once; a change invalidates them by being unannounced.

**WatchLoopProofs.** For any acyclic tree, any initial directories and any edits:
`WatchLoopTypes`, `EveryDirIsWatched` (but for what a broken walk left out and what lies
below a directory the kernel refused to watch) and `NothingIsMissed` (but for what was out
of date when the watcher was ready, and directories whose last import failed). `Watches`
gives, of every directory that exists, the reason why it needs no further step: watched, to
be watched, left out by a walk that broke off or below a refused watch, under a parent
without a watch or yet to be listed, or in the queue. When all of these but the first and
third are empty, a directory of least depth without a watch has no reason left. `Caught`
says that with nothing pending, whatever is out of date lies ahead of the pass that is
running.

**SsdpServiceProofs.** `BudgetRespectsRate`: packets counted from any moment stay within
a burst and the refill since. The invariant `Accounted` relates what was sent and the tokens
left to the time of the last call; it is what a refusal must preserve too, hence the stamp
of `last_` on refusal. Main's phase determines which threads exist, the socket's state and
how much of the byebye burst is out (`ThreadsFollowMain`, `SocketFollowsMain`, `Goodbyes`,
inductive with `LockHeld`: who sends is inside `send_each`). From it `ServiceTypes`,
`GoodbyeIsComplete` and `SocketIsSafe`. `ServiceRespectsRate` carries the bucket's bound
over: each step of the service is a step of the bucket or leaves it alone.

**StartupProofs.** `SchemaInv` says that the script takes effect in order and that no process
is past a statement that has not: a process may find its statement done by another, so
neither part is inductive alone. From it `StartupTypeCorrect`, `RecordedVersionsAreComplete`
and `ServiceHasItsSchema`; with an invariant per call (what has been applied and seen at each stage)
`AnswersAreTrue`: through a lost answer and the retry, a success means one or two applications.

**TranscodeProofs.** `JobInv` carries what a run has reached (the output whole at the stat, its
description at the upsert, the row at the bump) together with the two files being two, without
which a write could disturb the source. From it `SuccessIsAlwaysStored`, `RowsAlwaysHaveFiles`
and `SourceIsKept`. That the source may be an earlier output is what these do not exclude: see
transcode_originals.

**DlnaSessionProofs.** For any files of the four formats, playlists of tracks, User-Agents,
page sizes of either side, token lives and numbers of transcodes, and with no directory that
links out of the media root:

- `RequestsAreRead`: `parse_soap_request` gives back what `Render` wrote, for any arguments
  (by names that are not those of the envelope) in each of the ways a request may be written,
  and the work it does stays within its budget. The proof follows the parser: where it stands
  in the document, each search finds the element that was written there (`ElementAt`,
  `ArgAt`, `BodyIs`), and the argument loop runs through the arguments in order (`ArgsAre`).
- `SessionTypes` and `PagesAlwaysAddUp`. `PagesInv`: what a renderer has is the beginning of
  the container's children, and it has none only where there are none; the page rules of
  every kind of container are `PageIs`.
- `ListingsAreFresh`. `FreshInv` is about plain items, without their tokens, and holds because
  a run that ends in success ends in the bump.
- `LinksAlwaysPlay`. `LinksInv`: a link in hand has a good token for the id its route verifies,
  and leads to a row whose file is servable; `ResourcesAre` says that what `SelectResources`
  picks is a row of the track in an announced format, `AnswersHaveLinks` that a playlist's
  links are as good as the link that led to it.
- `TreeFitsTogether`, where no playlist has the empty id (`parse_object_id` refuses
  `playlist:`). `NodeInv`: what was shown, by either kind of browse, is a container or an item
  of the tree. Of each kind of those, `NodesFit` and `NodesHaveHomes` show that its id is read
  back as what it was made of (`IdsAreRead`), that its count is that of its children (`Miscounted`
  apart), and `IsListed` that asking for the children of where it hangs (`HomeOf`), page by
  page, comes to it.

TLAPS proves nothing by induction over sequences here, so what goes along a sequence goes by
the least element of a set of positions (`Least`, `Upward`, `Downward`); the parser's loop
over elements is a recursive function, unfolded one element at a time (`ElementsUnfold`).

Only model-checked: liveness (`CallsReturn`, `CatchesUp`, `StopsOnSignal`, `StopReturns`,
`ComesUp`, `CallsAnswered`), which rests on fairness and ENABLED, out of TLAPS's reach.

## Not modelled, and the plan

Known, and left without a property or excepted from one. Each follows from the code as it
reads, and the code promises nothing else:

- HLS cache: ffmpeg that hangs (no timeout); a playlist whose removal was interrupted, served
  for good without its segments; sweeps that overlap and all return with the cache over its
  cap; a playlist evicted between `ensure_segments` and its reading (the route answers 404).
- Scanner: a file that is there but whose status, path or directory cannot be read, skipped
  without an error; rows of removed files, which nothing deletes; a cover lost for one pass
  when its row fails.
- Worker: with inotify and FSEvents, an upsert that failed is not tried again, nor is what
  changed before the watcher was ready, until something else changes; a directory that stays
  unwatched (a walk that broke off, a watch the kernel refused, an overflow of inotify's
  queue), whose removal can also end a later pass early; a debounce window that never falls
  quiet; directories renamed in place.
- Browse: the root's childCount, and the parent that the metadata of Playlists names.
- SSDP: an answer to M-SEARCH that leaves after the byebye burst; a send that fails on an
  open socket.
- Servers and CLI: a server outside production that serves the sample catalog until it is
  restarted; two bitrates of one codec that share an output file.

Planned next: `ContentDirectory`, query by query, shown to answer what `BrowseTree` answers in one
step while nothing is written; what holds of the sweep with several threads; an inotify queue
with overflow.

Left out for good: the texts of SSDP messages, of the device description and of the SCPD
documents, and XML escaping (templates, without a decision that another part relies on);
path layout and ffprobe's output, parsed character by character (the models start from their
results and include slugs that collide and probes that fail); SHA-256 and HMAC (ideal in the
models); logging; the read-only commands of `sonariumctl` and the HTTP client behind them,
which print an answer and exit; ffmpeg's and ffprobe's output beyond success, bitrate and a
version.
