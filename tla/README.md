# A verification project for gmod-yt-backend

The repository is a radio for Garry's Mod: a Go server (`yt-converter-server`)
converts YouTube and Spotify tracks to mp3 with `yt-dlp` and streams them from a
cache, and a Lua addon (`3d-stream-radio-master`) asks it for tracks and plays
them. This directory models the server's concurrent core in TLA+, checks the
models with TLC, and proves their invariants with TLAPS. The Lua addon is not
modelled.

- [The system](#the-system)
- [What is modelled](#what-is-modelled)
- [The checks](#the-checks)
- [What the checks found](#what-the-checks-found)
- [The proofs](#the-proofs)
- [What the models assume and leave out](#what-the-models-assume-and-leave-out)
- [Plan](#plan)

Paths below are relative to `yt-converter-server/internal` for Go and
`3d-stream-radio-master/lua` for Lua.

## The system

A player picks a track. The game's Lua code posts its URL to `/api/convert`, with
the API key or the player's token; the handler checks rate limits and blocks,
resolves Spotify links, looks the track up in the cache, applies the daily limit of the player's rank, and has the
converter produce the mp3 with one `yt-dlp` run however many players wait. The
answer names a URL `/stream/<id>.mp3`, which the clients of everybody near the
radio open. A janitor goroutine, one eviction goroutine per conversion and the
dev console take tracks out of the cache again.

| Component | State | Operations | Hard part |
|---|---|---|---|
| Worker pool, `ytdlp/ytdlp.go` `Runner.Convert` | `queued`, `active`, `convSem`, `infoCache`, files in `TMP_DIR` | pre-check, queue, acquire, run, clean up, release | counters on all error paths; limits known late; shutdown, crash, startup sweep |
| Conversion engine, `server/convert.go` `ensure`, `run` | `flights`, their `done` channels and results | lookup, follow, lead, land, wake, retry | lookup outside the lock; followers with other limits than the leader; wakeups |
| Daily limit, `server/convert.go` `doConvert`, `finish`; `store` `history` | `inflight`, rows of `history` | count, check, reserve, release, record | check-then-act over two stores; disconnects |
| Cache maintenance, `server/stream.go`, `dev.go`, `store` `cache_entries` | rows, files, each sweeper's locals | lookup, rename and put, expire, evict, heal, delete | file and row change one after the other, under no common lock |
| Metadata, search, playlists, `ytdlp` `Info`, `Search`, `Playlist`, `convert.go` `cachedPlaylist` | `infoCache`, `metaSem`, playlist cache | cached look-ups, shared fetches | leaders that never get an answer; a semaphore with many ways out |
| Admission, `server/auth.go`, `server.go` | limiter buckets, block list | verify key or token, allow, drop idle limiters | clock read outside the lock; whose permits a request uses |
| Rank limits `config/config.go`, blocked players `store` | file or table, and a copy in memory | reload, save, delete; block, unblock | two copies changed one after the other |
| Spotify, `spotify/spotify.go`, `convert.go` `resolveSpotify` | access token, track cache, mapping table | refresh, retry after a 401, resolve | a mutex held across a request; revoked tokens |
| Streaming, `server/stream.go` | open files | serve, touch | the file may be removed in between |
| Metrics and log, `server/metrics.go`; dev console, `dev.go` | ring buffer, subscribers, sessions | append, follow; log in | slow subscribers, wrap |
| Process, `cmd/server/main.go` | base context, store, listener | start, shut down, exit | the store closes under conversions; clients that never finish |
| Lua converter client, `autorun/streamradio_converter.lua` | client token, pending resolutions | resolve, renew, post | a time limit racing a late answer |
| Lua rank push, `autorun/server/sv_streamradio_ranks.lua` | last pushed table | push, retry | debounce and retry |
| Lua stream, `classes/stream.lua` | channel, state, retries | play, connect, retry, stop | late callbacks |
| Lua radio entity, `entities/base_streamradio_gui.lua` | playlist position | next, previous, load | asynchronous loads |

How they interact: HTTP handlers are goroutines, one per request, whose context
is cancelled when the client leaves. `doConvert` calls `ensure`, which calls
`run` → `Runner.Convert` under a context detached from the request. `ensure`,
`doConvert`, the janitor and the dev console share the SQLite store through
single statements, never through a transaction around two of them; the flights
and reservations are in memory under `converter.mu`.

What makes each part correct:

- the pool runs and queues no more than configured and never leaks a slot; what
  it returns keeps the caller's limits; it leaves nothing in `TMP_DIR`; every
  job returns;
- the engine runs a video once at a time, loses no wakeup, answers every call,
  holds every shared result against the limit of the request it goes to, and
  charges a run once;
- reservations are released exactly once, and the daily limit is exceeded by no
  more than concurrency makes unavoidable in this design;
- the janitor never takes a track with a row for an orphan, rows and files find
  together again, and the cache gets below its limit;
- a track is resolved and a playlist listed once for everybody who asks at a time,
  every lookup is answered, a refused token is not sent twice, and neither the semaphore nor the
  mutex of the Spotify client leaks;
- a key gets its burst and its refill and no more, dropping idle limiters is
  invisible, nobody but a player uses up the player's permits, and a player
  whose requests get past the flood limiter is served in the end;
- the rank file is whole whenever the process dies, memory agrees with file and
  table while changes do not cross, and a delete of a rank reverts at most what other
  saves put in force while it was under way;
- a process that is told to stop does, and without losing the row of an mp3
  unless it was forced.

## What is modelled

| Module | Models | Implements |
|---|---|---|
| `BoundedPool` | what a worker pool promises: admit, start, withdraw, finish | |
| `WorkerPool` | `Runner.Convert` with shutdown, crash and `sweepTmp(true)` | `BoundedPool` |
| `ConversionService` | what a conversion service promises: one run at a time, every request answered once, delivery within the limit, each run charged once | |
| `Converter` | `converter.ensure` and `converter.run` | `ConversionService` |
| `DailyLimit` | `doConvert` and `finish` around `ensure`, with `history` | |
| `CacheStore` | `cache_entries`, `CACHE_DIR`, lookups, runs, the janitor, `enforceCacheSize`, deletes of the dev console | |
| `LookupService` | what a lookup promises: of what is shared one fetch at a time, an end that answers those who joined and nobody else, a memory of what was fetched | |
| `Lookups` | `resolveSpotify`, `cachedPlaylist`, `handleInfo`; `Info`, `Search`, `Playlist` behind `metaSem`; the Spotify client with its token | `LookupService` |
| `TokenBucket` | what a limiter promises: one bucket per key that is always there | |
| `RateLimiter` | `limiterSet.Allow`, `gcLoop`, the arithmetic of `rate.Limiter` (external) | `TokenBucket` |
| `Admission` | `withAuth`, `identity`, `newCaller`, `workKey`, the block list and what `/api/convert`, `/api/info` and `/api/playlist` pay for | |
| `DevConsole` | sessions, `SaveRankLimits`, `ReloadRankLimits`, the handlers of rank limits, `Block`, `Unblock`, `loadBlocked` | |
| `Lifecycle` | `main`, the context every handler lives under, conversions and streams as `Shutdown` sees them | |
| `MC…` | instances for TLC | |
| `…Proofs` | theorems about the module they are named after; `ServerProofs` those about `Admission` and `Lifecycle` | |

The granularity is that of the code's shared accesses: one action is one
statement that touches the store, the file system, an atomic counter, a channel
or a map under its lock, together with the local computation up to the next one.

**WorkerPool.** A job is named by its video, since `Converter` keeps at most one
conversion of a video in progress. `pc` follows `Convert` (`ytdlp.go:340-436`):
`Call` (pre-check), `Enqueue` (the atomic add and its test), `Acquire` / `GiveUp`
(the `select`), `Leave` (the decrement of the early returns), `Begin`,
`Download` (yt-dlp writes into `TMP_DIR`), the ends of a run `Rejected`,
`Exited`, `Errored` (each with or without a readable metadata line, and with the
deferred clean-up), and `Release`. `Stop` cancels the base context; `Crash`
restarts the process and leaves `TMP_DIR` as it is; `SweepList` and
`SweepRemove` are the startup sweep, which runs beside the first requests.

**Converter.** `Requests` are calls of `ensure` (`convert.go:185-234`), each made
once. The lookup (188) is before the lock; `Follow` or `Lead` is the critical
section (200-223); the leader goes through `RunOk`, `RunTooLong` or `RunFails`,
`Put`, `Unlist` and `Close` (225-231); the follower through `WakeOk`,
`WakeError`, `WakeRetry` or `Abandon` (204-219). A flight is named by the request
that leads it. `Lose` is whatever removes a row. Length and knowledge are apart:
`Length[v]` is how long a video really is, and yt-dlp knows it for `Known` ones
only; `Live` ones are streams. A run may find its metadata line unreadable: a success
is then stored with duration 0, and a live stream is refused as too long, at any limit
(`ytdlp.go:403-413`, which `WorkerPool!Rejected` has in detail).

**DailyLimit.** The steps of `doConvert` (`convert.go:386-477`) that touch the
count: fast path, `Count`, `Check`, `Reserve`, `EnsureReturns` / `EnsureFails`,
`Release` / `ReleaseFailed`, then `Record` or `RecordFails` of `finish`
(480-501). `history` is the sequence of rows in the order of `created_at`; time
is two marks in it, the rows older than a day and those older than the 60
seconds within which `AddHistory` writes no second row. A cancelled request
context makes every query fail.

**CacheStore.** `rows` and `file` are the two copies, `expired` and `young` what
time did to them. `look` holds lookups between their query, their `stat` and
their healing delete; `run` the three steps of a conversion (file, row, flight);
`job` the program counter and locals of each sweeper: the janitor, the eviction
goroutines that conversions start, and dev console requests. `removeCached` is
`Remove` then `Delete`, and returns to the caller named in `back`.

**Lookups.** A caller asks for the resolution of a track, a Spotify or YouTube
playlist, or `/api/info` of a track or a video (`Ask`), looks into the memory or table that may know it
(`Hit`, `Miss`), and leads or joins the fetch (`Lead`, `Join`: one critical section
of `singleflight`). Whoever asks
`/api/info` (`Alone`) goes past `singleflight`: its item in `Infos` is the track
`TrackOf` names, in the same `trackCache`, behind the same token and mutex. The leader
gets a token (`UseToken`, or `Refresh` with
`Client.mu` held until `Refreshed` or `RefreshFailed`), calls Spotify (`Called`,
`Unauthorized` with its second attempt, `CallFailed`; a playlist page by page),
takes a token of `metaSem` (`Acquire`, `GiveUp`), runs yt-dlp and stores the
answer; `End` wakes everybody who joined. `Revoke` makes every token given out
bad, `Expire` makes the cached one old, and `TimeOut` ends the context of a fetch.

**RateLimiter.** `Read` takes the clock, `Enter` finds or makes the entry under the
lock, `Pass` / `Refuse` is `AllowN` after the unlock: three steps, so that
readings reach a limiter out of order. `Advance` is `rate.Limiter.advance` in
integers: a request costs `Window` shares, a tick brings `Max[k]`. `Collect` is one
tick of `gcLoop`, whose time may be an old one. `granted`, `since` and `rewound`
are an observer's: they count what was let through since a moment it picks. `boot`
tells one process from the next, so that `TokenBucket` fills its buckets at a start
and at no other time.

**Admission.** A request carries the API key (and may name a player), a player's
token, or neither. `Flooded` and `Authenticate` are `withAuth`; `Blocked`, `Admit`,
`Pay` and `RateLimited` what a handler asks before it works; `Resolve`, `Serve` and
`Fail` the work. The buckets are those of `TokenBucket`, counted in whole requests.

**DevConsole.** One request per admin at a time, in the steps of
`SaveRankLimits` (`config.go:250-272`): `Open` truncates the temporary file,
`Write` or `WriteFails` fills it, `Rename` moves what has its name by then, `Swap`
changes memory; and of `Block` and `Unblock` (`store.go:458-476`): the table, then
`Mirror`. `fd` says which name the open file has by now, since two saves use the
same temporary name. `crossed` and `mixed` are an observer's notes on requests that
were under way together, `stale` on saves under way since before another took effect.

**Lifecycle.** `phase` follows `main` (`main.go:48-83`): serving, inside
`Shutdown`, closing the store, returned, down. A conversion is queued, running or
about to write its row; a stream lasts as long as its client likes. `Drained` and
`Deadline` are the two ways out of `Shutdown`; `forced` remembers the second, and a
crash; `orphaned` the files such an end left to the janitor of `CacheStore`.

## The checks

Run any of them with `tlc -config <run>.cfg <module>.tla`. `PROJECT.json` lists for every
property a mutant of the code (an operator marked `Mutant:` in the module) that
violates it.

| Run | Module | Shows | Bounds |
|---|---|---|---|
| `WorkerPool` | `MCWorkerPool` | `TypeOK`, `CountersExact`, `RunsBounded`, `QueueBounded`, `LimitRespected`, `TmpOwned`, refinement `ImplementsPool`, `JobsReturn` | a short, a long and a live video, 1 slot, queue 1, limit 1 |
| `Converter` | `MCConverter` | `TypeOK`, `OneRunPerVideo`, `FlightsConsistent`, `LimitRespected`, `TooLongHonest`, refinement `ImplementsService`, `EnsureReturns` | 3 requests, 3 videos: one of length 3 with limits 0, 1 and 3, one of unknown length with limit 1, a live stream with limit 0 |
| `DailyLimit` | `MCDailyLimit` | `TypeOK`, `InflightExact`, `OvershootBounded` | 3 requests, a player with a limit of 1 and an anonymous one, 2 rows of history at the arrival of a request |
| `CacheStore_safety` | `MCCacheStore` | `OrphansHaveNoRow` | 2 videos, an eviction, the janitor, a dev console request, database errors, 2 conversions |
| `CacheStore_liveness` | `MCCacheStore` | `RowsHealed`, `OrphansCollected`, `SizeEnforced` | 2 videos, a lookup, an eviction, the janitor, a limit of 1 track, 2 conversions, crashes |
| `Lookups` | `MCLookups` | `MetaExact`, `FlightsLed`, `MutexHeld`, `RetryIsFresh`, refinement `ImplementsLookups`, `LookupsReturn` | 2 callers, a track that is resolved or shown, a Spotify and a YouTube playlist and a video, of which one caller asks only for what needs Spotify, 1 token of `metaSem`, a playlist cache that is full with one |
| `RateLimiter` | `MCRateLimiter` | `WindowBounded`, `HeldNotCollected`, refinement `ImplementsBucket` | 2 calls, 1 key, 2 requests in a window of 3 ticks, calls of up to 1 tick, 9 ticks |
| `Admission` | `MCAdmission` | `TypeOK`, `OwnPermits`, `NotStarved`, `TrackProgress` | 2 requests, 1 player, 1 address, a track, its video and a playlist, of which one request does without the playlist and the metadata of the track, every limit 1 |
| `DevConsole` | `MCDevConsole` | `SaveAtomic`, `BlocksAgree`, `DeleteKeepsOthers` | 2 admins, 2 ranks, 1 player, a hand-written file with an explicit `null` |
| `Lifecycle` | `MCLifecycle` | `IndexKept`, `Exits` | 2 conversions, 1 listener |

### Why the bounds are enough

- Three videos on one slot with a queue of one fill the slot (1) and the queue
  (`MaxQueued + MaxConcurrent` = 2); the job that is turned away is one of the
  three while they change places, and it is counted while it withdraws. The mutant
  with a bound one too large is caught with them. They differ in the two ways a
  limit can reject a track.
- Three requests are the least with which a follower can wait for two leaders in
  turn, and with which one request can slip between a landing and another's
  lookup. A flight, a row and a limit concern one video only, so all limits meet on the
  first; the other two are there for the flights map, for a length nobody knows (at a
  limit, where the filter rejects it) and for a live stream (without one, where nothing
  else is rejected). Their limits are those that tell them apart from the first.
- In `DailyLimit` the overshoot grows with the open requests; three show that it
  is their number less one and not one. A third row only arrives when requests
  that were let in write theirs, which they may: `MaxRows` bounds arrivals.
- In `CacheStore` a video's row and file meet each other's through the size limit
  only: two videos and a limit of one are the least that makes the eviction
  choose. `MaxRuns = 2` lets a video be converted, removed and converted anew,
  or two be converted side by side. What the janitor read is stale after one
  change, so more conversions add more of the same.

- In `Lookups` a flight, the mutex and the one token of `metaSem` each need a
  holder and somebody who waits. A Spotify track takes every step of a fetch, a
  Spotify playlist the loop over pages, a YouTube playlist those of `metaSem` inside a
  flight, and `/api/info` the way past `singleflight`, of a track beside its own
  resolution. `Wants` keeps the second caller to what needs Spotify, where two meet
  in the mutex and the token; both kinds meet in `metaSem`, as a resolution searches.
- In `RateLimiter` keys touch each other nowhere. Two calls are the least that
  bring an older reading to a limiter after a newer one; nine ticks are an idle
  time of more than two windows and a full refill after it. The theorems below
  need no bound.
- In `Admission` two requests are one that starves and one that is starved, or the
  two of one player; with limits of one any permit that somebody else takes is
  missed. `Asked` keeps one of them to conversions and the metadata of a video: what it
  leaves out takes no step that these do not. With one address, everybody shares it;
  `OwnAddress` is the premise that nobody else does.
- Two admins are a save or change under way and another that meets it. The file of
  the instance has an explicit `null`, which only a hand-written one can.
- In `Lifecycle` a conversion that is about to write its row and one that waits, or
  a listener, are what `Shutdown` may have to leave behind.

Symmetry is used in `DailyLimit*` (requests), `CacheStore_safety` (videos) and
`DevConsole` (admins), runs with safety properties only.
The `Converter` runs do not check deadlock: each request is made once, and when all
are answered the system has nothing to do. `DailyLimit` stops when the bound on
rows is reached.

### Fairness

- `WorkerPool`: strong fairness of all a job and its run do: goroutines are
  scheduled, `ConversionTimeout` kills the process group and `WaitDelay` closes
  its pipes, and a Go channel serves blocked senders in order. Nothing makes a run
  succeed, a call arrive, or the sweep progress.
- `Converter`: weak fairness of what a request does by itself; neither a client's
  leaving nor an error is fair.
- `CacheStore`: the janitor's ticker fires again and again, sweepers and runs
  proceed, ten minutes pass for a file when nothing is in the way (strong, as the
  janitor's looking interrupts it), and crashes cease at some time. Database
  errors are left out of that run: while deletes fail for ever, rows stay.
- `Lookups`: callers go on; the HTTP client's 15 seconds, the deadline of the fetch
  and the kill behind it end every call, one way or the other; strong fairness of
  `GetToken` and `Acquire`, because mutex and channel serve their waiters in turn.
- `Admission`: handlers go on and both kinds of buckets refill (weak); strong fairness of
  `Resolve`, as Spotify, asked again and again, answers at last. That a player goes
  on asking is not assumed but stands in the properties as their premise.
- `Lifecycle`: weak fairness of `main` alone. Nothing is assumed of a client, of
  yt-dlp or of a handler: the process exits whatever they do.

## What the checks found

Each of these runs checks one statement of the repository and ends in its
counterexample.

| Run | The repository says | The code does |
|---|---|---|
| `Converter_one_run` (`NoRunOfCached`) | "the same video requested by 30 players at once = **one** yt-dlp run" (README.md:25, convert.go:183) | The cache is looked up before the lock and not again under it. A request that missed before a flight landed and takes the lock after it was deleted converts a second time. |
| `DailyLimit_kept` (`DailyLimitKept`) | reserve and release "so concurrent requests can't slip past the daily limit" (convert.go:259) | Rows are counted, reservations read and the own one made in three steps, and the reservation is released before the row is written: two requests may pass together, or one between release and insert. |

More disagreements, which the modules contain as the code has them and no run of its own
shows:

- `TOO_LONG` means longer than the limit (README.md:93). A request that waited for
  two leaders with stricter limits leaves the retry loop (convert.go:233) and is told
  so about a video its own limit allows. `TooLongHonest` speaks of the answers before.
- "`dailyConversions` counts fresh conversions" (README.md:162). The insert runs
  under the request's context (convert.go:484): whoever leaves while waiting is not
  charged for the conversion, which goes on; nor is one who played the track within
  the last 60 s (store.go:205-212). `OvershootBounded` counts rows.
- "LRU eviction above this size" (README.md:178). Every conversion starts an eviction
  with its own account of the size (stream.go:241): two that measured the same excess
  both evict.
- "sliding: counted from the last play" (README.md:177). The janitor removes what it
  listed as expired without another look (stream.go:162), also a track converted
  anew since.
- `SaveRankLimits` "atomically writes the file and swaps the in-memory copy"
  (config.go:250). Two saves share one temporary name and no lock: the file may be torn,
  and the last swap need not belong to the last rename. `SaveAtomic` speaks of saves
  that met no other.
- `RATE_LIMIT_SERVER_MAX` is for "server requests without a player" (README.md:183).
  The identity knows a player from a token only (auth.go:124-132): every request of the
  server, also one that names a player, is counted for the server. `OwnPermits` holds,
  because nobody but a player's own token can use the player's permits.
- "Rate limits only apply to work that actually starts a conversion" (README.md:117).
  `/api/info` and `/api/playlist` ask the limiter too, and a new Spotify track asks it
  twice (convert.go:431, 457). `TrackProgress` shows that it is converted all the same.
- `getToken` is serialised "so concurrent callers don't all request a new token"
  (spotify.go:70). Callers whose second attempt forces a refresh do request one each,
  one after the other. `RetryIsFresh` is what that buys.
- `MAX_QUEUED_CONVERSIONS` jobs wait according to README.md:23 and :185; the code
  compares with `MaxQueued + MaxConcurrent` (`ytdlp.go:354`) although jobs with a
  slot are no longer counted, so that many may wait behind a full pool.
  `QueueBounded` states the bound the code keeps.
- "Limits are enforced on cache hits too" (convert.go:191, README.md:93). A run whose metadata line tells no duration, or cannot be read, stores
  the track with duration 0 (ytdlp.go:432-434), and `0 > maxDur` is false: whoever ran it
  was held to the limit by yt-dlp's filter, and every rank gets it from the cache.
  `LimitRespected` of `Converter` exempts exactly these copies, and the abstract service
  allows them.
- `LIVE_UNSUPPORTED` says that "live streams can't be converted" (README.md:94). Where the
  metadata line cannot be read, exit code 101 is taken for `TOO_LONG`, also of a player
  without a limit (ytdlp.go:405-413). `TooLongHonest` of `Converter` therefore says that
  the filter rejects the video, which is not always that it is too long.
- "Playlists and Spotify lookups are cached and de-duplicated" (README.md:28).
  `/api/info` of a Spotify track calls `GetTrack` outside `spotifyGroup`
  (convert.go:529-545): any number of them may fetch one track at the same time, beside
  its resolution; only `trackCache` saves the next. `FlightsLed` and `FetchShared` speak
  of resolutions and of playlists.
- The flood limiter is asked before anybody is turned away (auth.go:95-101). Behind an
  address that players share (`Allow("ip:"+ip, 240)`), requests without valid credentials
  can use up its permits, and a player there with a valid token is answered 429 as long
  as they go on; "requests are keyed per player when we know one" (auth.go:121-123) is
  true of the work limiter only. `NotStarved` promises a player something only past
  `withAuth`, or at an address that nobody else uses but the server.
- `DELETE /dev/api/rank-limits/{rank}` deletes a rank; it saves a copy of all of them
  (dev.go:303-305), so what another save put in force after the copy was taken is put
  back as it was, and both are answered with success. `DeleteKeepsOthers` says that
  nothing else is.
- `Block` and `Unblock` of one player that cross may leave the table and memory
  different until the next change or restart (store.go:458-476). `BlocksAgree` exempts
  them.
- A limiter "permits `max` events per window" (auth.go:150). A token bucket refills while
  it is used, so nearly twice as many fit into some windows, and a late reading of the
  clock turns it back (rate.Limiter takes the older time for its last).
  `WindowBounded` is the exact statement.

## The proofs

`tlapm <Module>Proofs.tla` checks them; no step is left without a proof. They hold for every
value of the constants that satisfies the module's assumption: the sets that are
counted are finite, limits are natural numbers, the pool and `metaSem` have at least
one place, stand-ins for "none" are no members of the sets they stand beside, in
`Admission` there is some address and some video to ask for, and for `RateLimiter` a call of `Allow` takes at most half a window (`LimiterAssumption`;
windows are a minute or more). The requests, videos and limits of `Converter` may be
any sets of any size, and `Lifecycle` assumes nothing.

| Module | Theorems (property) | Inductive invariant and why it is needed |
|---|---|---|
| `WorkerPoolProofs` | `TypeCorrect`, `NothingLeaks` (`CountersExact`), `SlotsBounded` (`RunsBounded`), `QueueKept` (`QueueBounded`), `NoTmpLeft` (`TmpOwned`), `LimitsKept` (`LimitRespected`), `Refines` (`ImplementsPool`) | `CountersExact` makes the tests of the counters tests of the sets they count, from which the bounds follow. `TmpListed` (what is in `TMP_DIR` and belongs to no run is on the sweep's list or the sweep is still to come) gives `TmpOwned` when the list is empty. `OkAtRelease` says a result is only there between a run and its return. |
| `ConverterProofs` | `TypeCorrect`, `NoLostWakeup` (`FlightsConsistent`), `MutualExclusion` (`OneRunPerVideo`), `LimitsKept` (`LimitRespected`), `TooLongIsHonest` (`TooLongHonest`), `Refines` (`ImplementsService`) | `CacheReports` and `FlightReports` say what a row and a landed flight tell about a video: its reported length or 0, that it is no live stream, and for a flight that the filter let it pass. `LoopBounded` ties the attempt counter to the place in the loop. The refinement needs a second invariant, `SInv`: a flight has a result only when its run is over (`FlightLate`), a request is through with its loop exactly when it has an answer (`AnsweredOnce`), what a row or a landed flight offers was produced by some run (`CacheProduced`), and successful runs that nobody was charged for yet are finitely many, so that they can be counted (`UnpaidFinite`). |
| `DailyLimitProofs` | `TypeCorrect`, `ReservationsExact` (`InflightExact`), `LimitAlmostKept` (`OvershootBounded`) | `OvershootBounded` counts the rows together with the requests that may still add one; that sum only grows at the check, where it is below the limit, and only by requests that are not pending, of which there are fewer than slots. `FreshLate` keeps `fresh` to the steps after `ensure`. |
| `CacheStoreProofs` | `TypeCorrect`, `GraceSuffices` (`OrphansHaveNoRow`) | `RenamedFresh` (a file between rename and row is young), `UnreadFresh` and `SuspectsFresh` (a file with a row that the janitor did not read is young until its last look at files) carry the freshness of a file over both gaps. |
| `LookupsProofs` | `TypeCorrect`, `OneLeader` (`FlightsLed`), `MutexReturned` (`MutexHeld`), `SemaphoreExact` (`MetaExact`), `FreshRetry` (`RetryIsFresh`), `Refines` (`ImplementsLookups`) | `FlightOwned` (a flight names a request that looks up its item) and `Placed` (who is busy has an item; who may share a fetch does not ask `/api/info`) carry the flights over a request that begins or ends. `MetaExact` keeps the semaphore from going below zero. |
| `RateLimiterProofs` | `TypeCorrect`, `BoundedPerWindow` (`WindowBounded`), `HeldKept` (`HeldNotCollected`), `Refines` (`ImplementsBucket`) | `Covered` keeps an account per key: what was granted, together with what the limiter holds, is covered by the window, the lateness and the time up to its last grant; a limiter that is full again is covered by the time up to now. `Recent`, `Held` and `Seen` bound how old a reading, the entry of a call and an entry's last grant may be, from which an idle limiter is full and unused. |
| `DevConsoleProofs` | `TypeCorrect`, `SavesAtomic` (`SaveAtomic`), `CopiesAgree` (`BlocksAgree`), `DeletesOne` (`DeleteKeepsOthers`) | `Apart` and `CrossedMixed` make a request that met no other the only one on its file or player; `SoloSave` and `SoloBlock` say what such a request finds at each of its steps. `Copied` (a delete under way since no other save took effect is the limits in force without its rank) and `Cut` give `DeletesOne`, also for saves that met others. |
| `ServerProofs` | of `Admission`: `TypeCorrect` (`TypeOK`), `PermitsOwned` (`OwnPermits`); of `Lifecycle`: `LifeTypeCorrect`, `IndexSurvives` (`IndexKept`) | Only `Pay` empties a bucket, and `WorkKey` gives a player's key to the player's own token alone; `ResolvesTracks` (what is resolved is a Spotify track) keeps what is stored typed. `DrainedIdle` (nothing converts once the store closes after a full drain) and `DownAccounted` (what a forced end leaves is written down by the time the next process starts). |

Where the code falls short of what the repository says of it, further theorems say what it
takes: without that, the statement holds and no exemption is needed.

| Theorem | Without | holds |
|---|---|---|
| `ConverterProofs!NoRunWasted` | two requests for one video under way at once | `NoRunOfCached`: no run of what is in the cache (violated in `Converter_one_run`) |
| `ConverterProofs!HonestUnderOneLimit` | requests with different limits | `Honest`: `TOO_LONG` is always about what the filter rejects under the own limit (`TooLongHonest` speaks of the answers before a third leader) |
| `DailyLimitProofs!KeptOneByOne` | two requests at the same time | `DailyLimitKept` (violated in `DailyLimit_kept`), whatever fails, disconnects or crashes |
| `RateLimiterProofs!SurplusTakesTwo` | two calls of one key under way at once | `BurstAndRefill`: the bound of `WindowBounded` without what readings turn back; the ticks one call may be late remain |
| `DevConsoleProofs!OneAdminAgrees` | a second admin | `SaveAtomic` and `BlocksAgree` without exempting what is `mixed` |

And three say in the callers' terms what the refinements and invariants give:
`OnlyProduced` (no request is told of a track that no run produced; a consequence of the
refinement, step by step), `ChargedToLeader` (a request is charged exactly when a run of its
own succeeded, by `FlightLate`) and, of the lookups, `FetchShared` (no track is
resolved and no playlist listed twice at the same time, and whoever waits has a fetch to
wait for).

The arguments are laid out one step per action. Refinement: initial states map to
initial states, and, given the invariant, every step of the detailed module maps to a
step of the abstract one or to a stutter.

- `WorkerPool` → `BoundedPool`: a job is admitted, starts, withdraws or finishes.
- `Converter` → `ConversionService`: a lead starts a run, its end counts what it
  produced and what is to be charged, and each way out of `ensure` is one answer;
  lookups, the map of flights, closing a channel and retries are not seen. That an
  answer charges for a run at most once is what `Unpaid` counts.
- `Lookups` → `LookupService`: `Fetching` is whoever leads, or asks `/api/info` for
  itself, at whichever step; `Waiting` whoever joined. `Lead` may start a fetch
  because, by `FlightsLed`, a listed flight is led and a fetch that is led is listed;
  tokens, retries, the semaphore and deadlines are not seen.
- `RateLimiter` → `TokenBucket`: looking up, refusing and dropping an idle limiter
  change no bucket.

Only model-checked: the liveness properties (`JobsReturn`, `EnsureReturns`,
`RowsHealed`, `OrphansCollected`, `SizeEnforced`, `LookupsReturn`, `NotStarved`,
`TrackProgress`, `Exits`), as fairness and `ENABLED` are out of the proof system's
reach. Every safety property and refinement of a passing run is proved. The types of
`CacheStore`, `Lookups`, `RateLimiter`, `DevConsole` and `Lifecycle` are proved and not
repeated by their runs.

## What the models assume and leave out

- **Time in `CacheStore`.** `GracePasses` assumes that the janitor takes less than
  ten minutes from reading the table to its last look at a file, and a run less
  than ten minutes from the rename to `PutCache`. The code does not enforce
  either; both are short sequences of local operations. `OrphansHaveNoRow` rests on it.
- All tracks have one size, so the total is a number of rows, and a batch of
  `LRUCacheIDs` is the whole table in any order. Which track is evicted first is
  not a property here.
- In `CacheStore` a flight may start whether or not there is a row: a lookup may
  have missed a while ago. In `Converter` a row and its file come and go together.
- Files can be removed while they are open, as on Linux.
- In `WorkerPool` any number of metadata lookups may fill and expire `infoCache`;
  how they come about is `Lookups`.
- In `RateLimiter` time is in ticks and a bucket in shares, so nothing is rounded;
  `rate.Limiter` counts in floating point. A max of 0 or less never reaches a limiter.
- In `Lookups` an `/api/info` of a video whose mp3 is cached counts as remembered
  metadata. A server without Spotify credentials, the second name Spotify has for the
  tracks of a playlist (another page to the model), and playlists without tracks, are
  left out. Which
  search result is taken (`pickBestMatch`) no property depends on.
- `Admission` has no failing database: a mapping or row that cannot be read counts as
  unknown there, and is then paid for.
- `DevConsole` sees files as a process does. `SaveRankLimits` does not `fsync`; what a
  loss of power leaves of a renamed file is not modelled.
- `Admission` tells `/api/info` of a track from that of a video by the item only: both are
  paid for once and resolve nothing.
- `SizeEnforced` says that the cache gets below its limit. It would hold if evictions
  with stale sizes removed too much, and it is checked without failing deletes, during
  which both loops of the janitor spin (stream.go:156, 231).
- `Lifecycle` does not repeat what `CacheStore` has: failing writes, the janitor and
  evictions, which a crash may interrupt anywhere there.
- Panics are not modelled. `run` and `Convert` contain none that their control
  flow would show; `ensure` does not land its flight by a `defer`, so one would
  leave the flight listed.
- HTTP, JSON, SQL text, logging, drawing and parsing of URLs are left out.

Not modelled, and why:

- metrics and the log ring: counters and a ring that nothing reads back. (A negative
  `limit` of the log endpoint passes its clamp and panics in `make`, dev.go:233-237;
  the recoverer answers 500 and no state changes.)
- `sweepTmp(false)` and `PruneHistory`: the first removes what is older than any run
  may be, the second rows no count sees any more;
- parsing of media ids and URLs, signatures of client tokens: pure functions, whose
  results are model values;
- ranges and headers of `/stream`: `http.ServeContent`;
- the dev console's page, and the Lua addon: another program, which talks to this one
  over HTTP, where any client may ask anything at any time; that is how the
  models of the server take it.

## Plan

The server's stateful components are modelled. What is left, in order:

1. Proofs about the abstract specifications themselves, from which the modules that
   implement them inherit; an abstract specification for `DailyLimit`.
2. `ConvertServer`, composing `Converter` with the cache's two copies and
   streaming: for how long the URL an answer names can be streamed.
3. The Lua side: `Resolver` (pending answers, time limits, client token renewal),
   `StreamConnect` (connect, retry, late callbacks, stop), `Playlist` (position
   under asynchronous loads), `RankPush`.
