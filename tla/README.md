# FuseStream: a TLA+ verification of the file system core

FuseStream mounts a read-only FUSE file system in which a staged remote file
appears as a local one. The user stages a file (`StageFile`), a browser opens
and uploads it (`Open`, `Read`, `Release`), and its bytes come from a *backing
store* that is being filled from an HTTP server at the same time. All of the
hard behaviour lies between FUSE worker threads, the UI's staging calls, the
download goroutines and the eviction of temporary files. Around it are the life
of the process (start, stop, crash, recovery) and services every operation
uses: logging, the API token, the watchdog, the prevention of sleep. These
modules model all of that from the Go sources, check it with TLC and prove the
safety of it with TLAPS. Paths below are relative to `src/`; `PROJECT.json` gives for every
definition the lines it models.

## 1. Inventory

| Component | State | Operations | Talks to |
|---|---|---|---|
| `TempFileStore` (`internal/fetcher/store_tempfile.go`) | downloaded bytes, error, `closing`/`closed` flags, WaitGroup of readers, `notifyCh`, `doneCh`, shared file handle | constructor, downloader goroutine, `ReadAt`, `CloseWithContext` | the manager (register, access, unregister, eviction callback), HTTP server |
| `TempFileManager` (`internal/fetcher/tempfile_manager.go`) | table of temporary files, their sizes and access times; the files on disk | `EnsureSpaceAvailable`, `Register`, `Unregister`, `UpdateAccess`, `CleanupStaleFiles`, `CleanupAllFiles` | stores, `StageFile`, the disk |
| `RangeLRUStore` (`internal/fetcher/store_rangelru.go`) | chunk cache and order of use, chunks being fetched, semaphore, reference count | `ReadAt` (`getChunk`, `fetchChunk`), `DecRef`, `Close` | HTTP server |
| file system (`internal/fs/fs_fuse.go`) | registry of staged files, each with `tileRef`, `openRef` and a store; table of handles; locks `mu`, `storeMu`, `fhMu` | `StageFile`, `EvictStagedFile`, `EvictAllStagedFiles`, `Open`, `Read`, `Release`, `Start`, `Stop` | stores, manager, API client, watchdog |
| sleep and App Nap prevention (`fs_fuse.go`, `internal/sleep`, `internal/appnap`) | a release function or none, the table of handles | goroutines started by `Open` and `Release`; `Start`, `Stop` | handle table, the system |
| `Fetcher` (`internal/fetcher/fetcher.go`) | as `RangeLRUStore`, with read-ahead | `ReadAt`, `prefetch`, `Close` | HTTP server; called by tests only |
| daemon (`internal/daemon`, `main.go`) | the one instance, its channel of completion, the context | `Start`, `GetFS`, `Shutdown`, `WaitForShutdown`, `UnmountFS` | file system, UI, signals |
| mounting (`fs_fuse.go`) | the mountpoint, `mounted`, the goroutine in `host.Mount` | `Start` with the recovery of a stale mount, `Stop` | the system, manager, registry |
| watchdog (`internal/fs/watchdog.go`) | running operations, monitor goroutine, two channels | `start`, `stop`, `enter` | every FUSE operation |
| token cache (`internal/api/oauth.go`) | token and expiry | `GetToken` | API server |
| logger (`internal/logging/logger.go`) | channel of lines, file, size | `Write`, `writerLoop`, rotation, `Init`, `Close` | everybody, the disk |
| UI, CLI, drag, signals, lifecycle observer, configuration, trace logger | presentation and OS bridges | | |

What makes each correct, and hard:

* **TempFileStore.** The handle all reads share must not be shut under a read;
  a read must return what the server sent, once it is there; every read and
  every close must return. Hard because of flags, a WaitGroup and two channels
  used without a common lock, contexts that expire at any point, bodies of the
  wrong length, and the manager deleting the file at any time.
* **TempFileManager.** Every file on disk is accounted for, also through
  failing removals and crashes; a store learns of its eviction; the limits
  hold. Hard because the lock is dropped between all the steps of
  `EnsureSpaceAvailable`.
* **RangeLRUStore.** One fetch for a chunk, its waiters served, cache and order
  of use agree, a read has the right length. Hard because of hand-over through
  a cache that may lose the chunk at once, cached errors, and `Close` in
  mid-fetch.
* **File system.** A store is closed only when nobody shows or uses it, and is
  closed then. Hard because the two counters are atomics, read and written
  under different locks, and because `Release` finds its object by id.
* **Fetcher.** One fetch for a chunk, whoever asks for it, reader or read-ahead;
  a waiter, which ignores its own context, gets its turn. Hard because a waiter
  looks again in a cache that may have lost the chunk by then.
* **Sleep prevention.** An open handle keeps the system awake, and nothing else
  does. Hard because it is switched by goroutines that run in any order.
* **Token cache.** Callers that miss together ask once, and a token from the
  cache is good at the server. Hard because its life is reckoned from the end
  of a request that may take half a minute.
* **Logger.** `Close` writes out all it was given. Hard because others log on
  while it drains, and because a rotation may fail half-way.
* **Watchdog.** No channel is closed twice, `stop` returns.
* **Daemon and mounting.** A process that ends in time leaves the mountpoint
  free and no file it could have removed, a wait for it says so only when it is true, quitting always comes to an end.
  Hard because `Stop` may hang in `Unmount` or fail there, may run in two
  goroutines, and races with the UI's stagings; and because a crash leaves its
  mountpoint and files to the next process.

The hazards, each at its line, are the `hazards` of `PROJECT.json`.

## 2. Modules

```
ReadersGate            what the shared handle promises (abstract)
TempFileStore          one temp-file store      -- implements ReadersGate
UseOrder               an order of use: what is used moves to its end
TempFileManager        the table and the disk, over the lives of many stores
RangeLRUStore          one range-request store
FuseFS                 registry, references, handles, over abstract stores
SingleFlight           one fetch per chunk, all waiters let go (abstract):
                       RangeLRUStore and Fetcher implement it
Fetcher                the reader with read-ahead
AppLifecycle           main, daemon, Start and Stop, over several processes
SleepPrevention        handles and the goroutines that switch it
TokenCache             GetToken
Logger                 channel, writer goroutine, rotation, Close
Watchdog               start, stop, monitor, table of operations
MC_<module>            constants and symmetry for TLC; <run>.cfg per run
MC_Services            the last six, one of them active in a behaviour
<module>_proofs        theorems about it: TempFileStore, UseOrder,
                       TempFileManager, RangeLRUStore, FuseFS, Fetcher,
                       AppLifecycle
Services_proofs        theorems about the four smaller services, and about
                       the six of MC_Services together
```

The stores appear at three depths: `TempFileStore` shows one store with all its
steps, `TempFileManager` many stores as far as their files go, `FuseFS` many
stores as open or closed, and `AppLifecycle` has of each file how it comes into
the table, out of it and off the disk, for that is what `Stop` and a crash leave. The seams are: the manager's eviction, which is an
action of the environment in `TempFileStore` (`EvictEntry`, `EvictFile`) and in
`FuseFS` (`EvictSome`); and `Close`, one step in `FuseFS`, whose return
`TempFileStore` shows (`CloseReturns`); the fetch of a chunk, of which both
range readers promise the same (`SingleFlight`); the handle table, which
`FuseFS` and `SleepPrevention` each model as far as they use it; and `Stop`,
whose eviction of all files is `FuseFS`'s, of which `AppLifecycle` keeps only
that any store whose downloader has started may be closed and any may stay,
because it has open handles.

The services share no variable with each other, so any behaviour of all of them
is an interleaving of behaviours of each, and a property of one holds of the
whole if it holds of that one alone. `MC_Services` therefore lets the initial
state choose one and leaves the others at rest: that is six checks in one run,
not a smaller check of a product.

**Grain.** A step is one atomic operation, one hold of a lock, one channel
operation or one system call. What happens between two such points is local to
a goroutine and part of the step before. Program counters are strings that
name the place a goroutine has come to.

### TempFileStore

Action prefixes: `Dl` the downloader, `Rd` a `ReadAt`, `Cl` a
`CloseWithContext`, `WaiterStep` the goroutine that waits for the readers.
Sizes count blocks, the unit of one `Body.Read`. `total`, `readErr` and
`downloaded` are the downloader's view and what it publishes, `failed` is `err`
being set, `notify` the tokens in `notifyCh`; `doneCh` and the close of
`notifyCh` are functions of the downloader's place. `path` says what the name
on disk stands for (nothing, the inode the readers have open, or a fresh one
the downloader made with `O_CREATE`), `target` what the downloader writes to.
`inFlight` is the WaitGroup by the readers it counts; a waiter that was woken
and has not returned is a state of its own, for that is where Go's WaitGroup
panics. A body may be shorter or longer than announced (`MaxBody`), or break
off.

### TempFileManager

`files` is the table, kept in the order of access, which is all `LastAccess` is
used for; `disk` the temporary files that exist; `life` how far the store of
each has come. `En...` are the steps of `EnsureSpaceAvailable`: count, space,
snapshot, then for each entry space, count, take, notify, remove, and the two
last looks. `StageFile` calls it once and `NewTempFileStore` again; either call
is one `EnCall`, with `TfGiveUp` for the one no file follows. What the disk has
left is a free choice at every look: other programs write to it. `Crash` ends
the process anywhere, `CleanupStaleFiles` starts the next.

### FuseFS

An object is a `stagedFileFuse`; it exists apart from the registry, as
pointers to it do. Stagers run `StageFile` and the evictions, clients an `Open`
and its `Release`. `mu` is held for writing by whoever sweeps; `Sweep...` is
`tryEvictLocked` with `doEvictLocked`, whose two loads of the counters are two
steps. Releases of the read lock are not seen: a section under it is one step
that needs `mu` free. `stranded` is a history variable: ids one of whose
clients raced an eviction, or whose object was replaced by a second staging.

### RangeLRUStore

`Gc...` are the steps of `getChunk` and `fetchChunk`, `Rd...` those of
`ReadAt`. A chunk is a length or an error, for what the bytes are the code
never asks. The server may send an empty body or all of the file for a range;
history `misled` says that it did. The map that `Close` sets to nil and
`DecRef` makes anew is `hasCache`.

### SingleFlight, Fetcher

`SingleFlight` has two variables: the chunk each caller fetches and the chunk
it waits for. `Begin` demands that nobody fetches the chunk, `Await` that
somebody does, and `End` lets go of all its waiters in the same step; so no
waiter is left without a fetch. `RangeLRUStore` maps its callers' places to it
(`OneFetcher`), `Fetcher` its readers and read-aheads (`FetcherSingleFlight`).

In `Fetcher` a request is the chunks it spans. `ahead` are the chunks `prefetch`
has still to ask for, of all reads together: two read-aheads for the same chunk
are one. The context of a read-ahead is done at any moment, as that of the read
it belongs to. Bodies are of the length asked for; `RangeLRUStore` has the
others.

### AppLifecycle

`main` says where the process is, from "cleanup" (in `daemon.Start`) to
"exited"; `spc` where `Stop` is in the daemon's goroutine and in `UnmountFS`.
`mountpoint` and `tempFile` are the system's and outlive the process: `Die`
leaves a served mountpoint "stale" and every file "left". A file is "made"
before it is "tracked" in the manager's table, or "late" if a `Stop` has
already cleaned up. `TakeOut` and `RemoveTaken` are an eviction for space or a
`Close` by another goroutine, `SpEvict` and `SpClose` the closes of
`EvictAllStagedFiles`, `SpRemove` is `CleanupAllFiles`, which knows only the
table. Any `os.Remove` may fail, which is logged and nothing more: the file is
"kept", out of the table; or "stale", when the next process can not remove it
either. `opening` are the files whose downloader has still to open them: it
does so with `O_CREATE`, and a file an eviction or `CleanupAllFiles` has removed
before is there "again". Files do not act on each other. `Shutdown`, `UnmountFS` and `StopAsync` are exported but
called from nowhere; the first two are actions, and properties that they break
say so in their text.

### SleepPrevention, TokenCache, Logger, Watchdog

* `SleepPrevention` counts the goroutines that have not run yet. A Release and
  the start of its goroutine are one step: a goroutine not started yet and one
  not scheduled yet are the same to everybody. `disabler` is the one between
  its look at the handle table and what it does about it, with `sleepMu`.
* `TokenCache` has a clock. A token is the moment the server lets it expire;
  the cache's `until` is reckoned from when the answer was read.
* `Logger`: a line is its writer and its number. `early` is how far each writer
  was when `done` was closed. `logFile` "dead" is a file that is set but
  closed, which a failing rotation can leave.
* `Watchdog`: operations are of one kind, ticks change nothing.

## 3. Runs

All passing runs but `Services` check for deadlock too: there the calls are
bounded and the components really stop. Times are for two workers; the longest
runs take two minutes.

| Run | Instance | Checks |
|---|---|---|
| `TempFileStore_safety` | 2 readers, 1 closer, 2 blocks, bodies to 3, 1 token, eviction; 1.2 M states | `TypeOK`, `ReadComplete`, `Releases`, refinement `GateSpec` |
| `TempFileStore_liveness` | 2 readers, 2 closers (one with a deadline), 1 block | `ReadReturns`, `CloseReturns`, `GateSpec` |
| `TempFileStore_wakeup` | 2 readers, no closer | `NoLostWakeup`, violated |
| `TempFileStore_panic` | 2 readers, 1 closer | `NoPanic`, violated |
| `FuseFS_safety` | 2 stagers, 2 clients, 1 id, 2 objects, 2 stores; 2.1 M states | `TypeOK`, `StoreOwnership`, `TwoRefRuleUnlessStranded`, `OpenRefCounts`, `NothingForgotten`, `LeakOnlyByRace` |
| `FuseFS_liveness` | 1 stager, 1 client, 2 ids | `StageReturns`, `FuseReturns` |
| `FuseFS_two_refs` | 1 stager, 2 clients, 1 id | `TwoRefRule`, violated |
| `TempFileManager_safety` | 2 stagers, 3 files, limit 1, allowance 2; 175 k states | `TypeOK`, `NoFileLost`, `EvictionKnown`, `OverrunBounded` |
| `TempFileManager_nil` | 2 stagers, 3 files, limit 2 | `NoNilEntry`, violated |
| `RangeLRUStore_safety` | 2 readers, 2 chunks (2 blocks and 1), cache and semaphore of 1, 2 attempts; 205 k states | `TypeOK`, `CacheConsistent`, `OneFetcher`, `ReadExact`, `PanicsOnlyClosed`, `ReadReturns` |
| `Services` | Logger: 2 writers, 3 lines each, channel and file of 2. TokenCache: 2 callers, time to 4, lives of 1 and 3. SleepPrevention: 3 handles, 3 goroutines of a kind. Watchdog: 2 users, 2 operations, 2 starts. Fetcher: 2 readers, 1 read-ahead, 2 chunks, cache and semaphore of 1, 2 attempts, 2 calls. AppLifecycle: 1 file, 2 processes; 82 k states in all | `ServicesTypeOK`, `LogCloseFlushes`, `LogLostByFailure`, `CachedTokenAlive`, `NoNeedlessRequest`, `SleepCovered`, `NoStrayPrevention`, `WatchdogPanics`, `WatchdogStops`, `FetcherSingleFlight`, `FetcherReturns`, `CleanExit`, `ShutdownWaits`, `LifecyclePanics`, `ExitReached` |
| `RangeLRUStore_timeout` | the same | `OwnTimeoutOnly`, violated |

What they show:

* **The gate holds** (`GateSpec`): the flag, the count and the second look at
  the flag keep every `pread` out of a shut handle, also when a close gives up
  at its deadline. It is the property `READAT_CLOSE_RACE_FIX.md` is about.
* **Reads of a temp file are complete** (`ReadComplete`) unless the server's
  body is too short, or the file was evicted before the downloader opened
  it. Both exceptions are in the code: it declares the whole size downloaded at
  the end of any body, and reopens the path with `O_CREATE`.
* **Reads by range are exact or stopped by a chunk** (`ReadExact`), misfit bodies
  aside. A read that a later chunk stops returns what it has and *no error*
  (`store_rangelru.go:167-170`), in the middle of the file, where
  `internal/fetcher/store.go:15` says "(or fewer at EOF)": a caller that relies
  on that comment takes it for the end of the file. What stops it is a failed
  fetch, a context, or a chunk that was fetched and has left the cache again
  before a waiter looked (212). `ReadExact` says that it is nothing else, that
  the read ends at the boundary of that chunk, and that a read with no bytes
  yet returns the error.
* **Calls return** (`ReadReturns` twice, `CloseReturns`, `StageReturns`,
  `FuseReturns`, `FetcherReturns`, `WatchdogStops`).
* **Close releases** handle, entry and file (`Releases`), if it had no deadline.
* **The two-reference rule** of the README of the program holds but for stated
  exceptions (`TwoRefRuleUnlessStranded`), as do the counts it relies on
  (`OpenRefCounts`), and no file without a tile or a user is kept for ever
  (`NothingForgotten`).
* **No file is lost** unless its removal failed (`NoFileLost`), and the number
  of files passes the limit by no more than the stagings under way
  (`OverrunBounded`).
* **A store leaks** (is open, with its download going on, and nobody will ever
  close it) only where two stagings, or a staging and an eviction, race for an
  id: `LeakOnlyByRace` names the one step that does it.
* **Chunks are fetched once** at a time, and no waiter is forgotten
  (`OneFetcher`, `FetcherSingleFlight`, refinements of `SingleFlight`).
* **A process that ends in time** after a `Stop` that went through leaves the
  mountpoint free and App Nap allowed (`CleanExit`). It does not leave the disk
  clean: `tempfile_manager.go:314`, "to ensure all temp files are deleted",
  holds of a file that is in the table and can be removed, whether handles are
  open on it or not. What may stay is a file whose `os.Remove` failed, now or
  at the start; one whose downloader opened it after it was removed; one
  another goroutine has taken out of the table or has not yet registered; and
  one registered after the cleanup. When the unmount fails, `Stop` returns
  before `CleanupAllFiles`, and nothing is promised.
* **The daemon** answers `WaitForShutdown` truly (`ShutdownWaits`), and its
  goroutine does not panic (`LifecyclePanics`), unless `Shutdown` is called, which
  resets the instance both rely on. **Quitting ends** (`ExitReached`), though
  `Unmount` may hang, unless it hangs in `UnmountFS`, which holds the lock that
  `WaitForShutdown` takes before its timer starts.
* **Sleep** is prevented while a handle is open (`SleepCovered`) and, with none,
  no longer than until the goroutines have run (`NoStrayPrevention`): the
  exception is a goroutine that enables prevention after the one that should
  end it has run, which stays on until the next handle is released.
* **Tokens** from the cache are alive and asked for once (`CachedTokenAlive`,
  `NoNeedlessRequest`): the margin of 30 s is just what the client's timeout of
  30 s needs.
* **The log** is written out by `Close` (`LogCloseFlushes`), and a line that was
  accepted is lost only to a failing write or rotation (`LogLostByFailure`).
* **The watchdog** does not close a channel twice (`WatchdogPanics`) unless it
  is started again after a stop, which its one user does not do.

Five runs end in a violation, each a disagreement between the code and what its
documents or comments say (`findings`): a progress token that wakes the wrong
reader; a WaitGroup reused before its waiter has returned; an `Open` overtaken
by an eviction; a table entry dereferenced after it was unregistered; a cached
context error that fails other callers' reads.

### Bounds, and why they are enough

Two readers are what it takes for one to take another's token, to be inside
while another enters, or to wait for another's fetch. Two closers show that the
second returns at once. Two blocks show partial progress; a third in `MaxBody`
a body too long. In `FuseFS` two objects and two stores let an id be staged
again while something of the first life is still held, which every exception
needs; a second id adds only independent objects, and is there in the liveness
run for the sweep over a list. In `TempFileManager` a limit of one with three
files reaches eviction, overrun and a stale snapshot; the code's limit of 10
only makes them longer to reach. `MaxAttempts` 2 for 3 keeps first, middle and
last attempt distinguishable as first and last. `CacheCapacity` 1 for two
chunks forces eviction at every second fetch. In `Services` two of each actor
are enough for one to overtake the other; three handles let one stay open while
others come and go; three lines and a channel of two fill it, rotate the file
and leave a line for after the signal; two processes are one that crashes or
exits and the one that finds what it left, and one file, since files do not
act on each other (`ExitsClean` is proved for any number). `MaxReads` bounds the calls of the
fetcher, without which `FetcherReturns` would not hold: a waiter can lose the
chunk again and again to readers that go on for ever. Symmetry is used in runs of safety
properties alone.

### Fairness

`TempFileStore`: weak fairness for every goroutine's own steps: Go schedules
them, and an HTTP body ends or breaks off within the client's timeout of five
minutes. None for a context to expire, for callers to call, or for the manager.
`RangeLRUStore`: the same, and strong fairness for the semaphore, since Go's
channels serve blocked senders in order. `FuseFS`: weak fairness for steps
within a call, strong for taking `fs.mu`, since Go's mutexes hand over to the
longest waiter and a waiting writer holds off new readers. `Fetcher`: as
`RangeLRUStore`. `Watchdog`: goroutines go on as long as the process has not
panicked. `AppLifecycle`: goroutines are scheduled and the timer of five seconds
fires, but nothing is assumed of what the system is asked for: mounting,
unmounting and the probe may take for ever. Nothing is assumed of the logger,
the token cache and sleep prevention, which have safety properties only. No
call has to be
made, and a handle may stay open for ever.

## 4. Proofs

Every invariant and every refinement the passing runs check, and the action
property `LeakOnlyByRace`, is a theorem of the specification, for all values of
the constants their modules' assumptions allow. TLC has checked each inductive
invariant on an instance as well. Each proof module is laid out alike: the
invariant in named parts, the types, a lemma per part with a step per action
(or per kind of action), and the theorems at the end. `PROJECT.json` lists the
results.

**Assumptions.** Beyond the kinds of the numbers (sizes, limits and capacities
are positive) these matter: who calls is a finite set (`Stagers`, `Clients`,
`Readers`), which is what counting them needs and what a process has; stagers
and clients are distinct, as are readers and read-aheads; the client's timeout
in `TokenCache` is no longer than the margin, which the code's two constants
of 30 s satisfy. The bounds of the models (`MaxObjs`, `MaxReads`, `MaxTime`, ...)
are arbitrary numbers.

**TempFileStore.** `GateInv` is why the gate holds, and is inductive where the
gate itself is not: (a) the WaitGroup counts exactly the readers past `Add`;
(b) at most one `Close` wins `closed`, and sets `closing` before its waiter
starts; (c) the handle is shut only after the waiter is through; (d) once the
waiter is through, no reader is left that saw the flag clear. (d) is the heart
of it: the waiter gets through when the count is zero *and* the flag is set,
and a reader that counts itself later must still pass the second check. From
it, in `GateRefinement`, a `Shut` step has nobody `using` the handle, every
`Acquire` step finds it open, and all other steps are stutters of
`ReadersGate`. `ReadsComplete` rests on `Published`: no more is published than
was written until a body ends, after which neither the file nor what was
written changes, so that what excuses a short read is never taken back.
`CloseReleases` rests on the downloader being gone when a `Close` without a
deadline goes on: only it would bring the file back.

**UseOrder.** Lemmas on sequences without repetitions, used by the two caches
and by the manager's table: taking an element out, putting it at the end,
dropping the oldest ones; what each does to the set of elements and the length.

**TempFileManager.** `ManagerInv`: `Names`, that a call's file is its own, is in
nobody's snapshot and in the table only when its store is there; `Dealing`, that
who removes a file has told its store if it is in use; `Overrun`. The last
is how `OverrunIsBounded` gets through though the check of the limit and the
registration are many steps apart: files in the table and stagers past the
check (`Passed`) together stay below the limit plus the other stagers. Whoever
passes the check finds fewer files than the limit and is one of at most all.

**RangeLRUStore.** `StoreInv`: `FlightInv`, that the chunks in `activeReads` are
those of the readers between its entry and the signal, one each, and every
waiter's is among them; `Semaphore`; `OrderInv`; `Counted`, that `refCount` counts the open
handles, so that the cache is dropped with the last; and `Fitting`, what is known
of chunks in the cache and in hand as long as bodies fit; `Kept`, that a chunk
is where its fetch put it until one is thrown out; and `AtChunk`, that a read
goes on at the boundary of a chunk, whence `ReadsAreExact` has where one stops. `RangeSingleFlight`
is `FlightInv` in the words of `SingleFlight`: a reader adds its chunk only when
nobody has it, and the step that removes it leaves no waiter.

**Fetcher.** The same with read-aheads; `FFlightInv` and `FSlots`. Beside the
refinement, `FetchesBounded` says that the semaphore bounds the requests.

**FuseFS.** `FuseInv` has nine parts. `Places` and `OneIdEach`: what each call has in
hand, and that an object never comes back under another id. `Locked`: who holds
`fs.mu`, and that what its sweep has still to visit is registered and none of
it twice. `Owned`: `StoreOwnership` and that two stagings never have one store. `CountInv`: `openRef` is the
cardinality of the clients counted on the object. `Condemned`: between the
look at the counts and the eviction, whoever got hold of the object has
stranded its id; this is what the window between the two loads comes to, and
why the exception of `TwoRefRuleUnlessStranded` is exactly the race.
`StoreHeld`: a client's store is its object's. `Remembered` is
`NothingForgotten` with the client on the way looking at this very object,
without which the last `Release` could rely on one that visits another. For
`LeaksOnlyByRace` every action but a staging that loses its race is shown to
leave no open store without an owner.

**AppLifecycle.** `LifecycleInv` has a part per place: before `Start` has
returned nobody stops (`Beginning`), `daemon.mu` has one holder (`MuHeld`), the
directory is served as long as `host.Mount` has not returned (`Mounting`), App
Nap is allowed once a `Stop` has got so far (`NapLeft`), and the channel is
closed only after the daemon's `Stop` (`Completing`). `FilesLeft` is what becomes
of the files, whichever removals fail: a `Stop` has files in hand only while it
closes stores, once one has cleaned up what is registered is "late", and
"left" is nothing after the start. It rests on how any one file can move in a
step (`FilesMoved`).

**Services.** `TokenInv` adds who holds the lock (exactly who asks) and how the
two reckonings of a token's end differ: at most by the time the request took,
hence by the timeout; that is where the margin enters. `SleepInv` adds the
goroutine between its look and its act: if a handle was opened in between, it
was the first, so that one that enables waits for `sleepMu` (`EnablerWaits`).
`LoggerInv`: `Ending`, that the goroutine ends only after the signal and with no
early line in the channel, and that Close waits for it; `Filing`, that the file
is open until then unless something failed. `WatchdogInv`: `OneShot`, which holds until a start comes after a
stop: each channel is closed by one goroutine. `ServicesTypesCorrect` puts the
six invariants together: `ServicesInvStep` shows that a step of one, with the
others at rest, keeps them all, which is the argument of section 2 for checking
the services one at a time.

**What is only model-checked**: liveness (`ReadReturns` twice, `CloseReturns`,
`StageReturns`, `FuseReturns`, `FetcherReturns`, `WatchdogStops`,
`ExitReached`), for TLAPS as installed proves nothing from fairness; and of
course the five violations. No recursive definition is used in the models, so
nothing was lost to induction over data.

## 5. Not modelled

The components marked `not_modelled` in `PROJECT.json`, with the reasons there:
the UI and the command line (they call `StageFile` and `EvictStagedFile`, which
`FuseFS` offers its stagers), the configuration (read once), the lifecycle
observer and signals (they log). Of the logging package `fuse_logger.go`,
a second logger that nothing initialises, and `fuse_trace.go`, which logs
through it; of the API package the job and
download requests, which keep no state.

Within the modelled ones: the contents of files, the reference count of
`TempFileStore` (nothing but a log reads it), the URL and the HEAD request,
`GetFileCount`, file attributes, `ForceUnmount` and `StopAsync` (no callers), the
commands that free a stale mountpoint (their outcome is modelled), a second `Init`
of the logger after its `Close`, the watchdog's reports, bodies of the wrong
length in `Fetcher`. Real time is modelled in `TokenCache` only; elsewhere a
deadline may pass at any moment, or never. That an open file that is deleted
frees no space, while the manager no longer counts it, has no property: what the
disk has left is a free choice in `TempFileManager`.

## 6. Plan

Done: 1 `ReadersGate`, `TempFileStore` and its proofs; 2 `FuseFS`;
3 `TempFileManager`; 4 `RangeLRUStore`; 5 `SleepPrevention` and, in
`AppLifecycle`, `Stop` in its order; `LeakOnlyByRace`; 6 `SingleFlight` and
`Fetcher`; 7 `AppLifecycle`, `Watchdog`, `TokenCache`, `Logger`; 8 the refinements
of `SingleFlight`; 9 the safety of `RangeLRUStore`, `FuseFS` and
`TempFileManager`; 10 that of `TempFileStore`, `AppLifecycle` and `Watchdog`.

Next:

11. The safety half of the liveness properties: that no place of a call is one
    where nobody can take it further (who waits for a lock, a slot, a chunk or a
    channel waits for somebody who is elsewhere and not waiting for it).
12. What the invariants give beyond the runs' properties: that the manager's
    snapshot is the only place a stale entry comes from, that `stranded` grows
    only by the steps its comment names.
13. Abstract specifications of the registry (an id is offered or not, a store
    open, handed over or closed once) and of the log (lines accepted, written or
    lost), and the refinements.
