# A verification project for cf-tcp-router

The router keeps a table of TCP routes in step with the routing API and keeps
HAProxy configured from it. This directory holds TLA+ models of that code, the
TLC runs that check them and TLAPS proofs of what matters most. `PROJECT.json`
lists components, runs, the source lines behind every definition, findings,
hazards and theorems.

## The system

| part | state | operations | hard about it |
|---|---|---|---|
| routing table (`models/routing_table.go`) | key (port, SNI hostname) to backends, each with modification tag, TTL, time | upsert, delete, prune | tags decide what counts as newer; a key goes with its last backend |
| updater (`routing_table/updater.go`) | the table, `syncing`, `cachedEvents`, `isDraining`, one mutex | `HandleEvent`, `Sync`, `PruneStaleRoutes`, `Drain` | `Sync` works on the table without the mutex; syncs may overlap; `Drain` polls and copies |
| watcher (`watcher/watcher.go`) | event source, stop flag, cached-token flag | subscribe and resubscribe, hand on events, syncs and signals | broken streams, revoked tokens, a goroutine nobody waits for |
| syncer (`syncer/syncer.go`) | ticker | ask for a sync, at start and at every tick | a send that is dropped when the watcher is busy |
| HAProxy configurer (`configurer/haproxy`) | configuration, backup and temporary file, a lock | `Configure` | crash between two steps, two callers, a failing script |
| configuration (`models/haproxy_config.go`, `config_marshaller.go`) | none | table to file | map iteration order, entries that are left out |
| monitor (`monitor/monitor.go`) | a flag, HAProxy's PID file | poll once a second, on and off around a reload | two reloads share one flag |
| main (`main.go`) | flags, ordered group of members | checks, start, signals, stop, reap children, prune | order of start and stop, reaper against `exec` |
| config file (`config/config.go`) and port checker (`router_group_port_checker`) | none | which settings and PEM files are accepted; reserved ports against router groups | checks that rely on each other, limits, attempts |
| metrics reporter and HAProxy client (`metrics_reporter`) | a round of statistics | read, convert, emit | answers that end anywhere, missing numbers, sums that wrap |

The routing API's events reach `Updater.HandleEvent` through the watcher; the
syncer's ticks start `Updater.Sync` goroutines, again through the watcher; a
third goroutine prunes. All three change one table and call `Configure`, which
turns the monitor off, writes the file, runs the reload script and turns the
monitor on. SIGUSR2 starts a fourth, `Drain`, and its end interrupts the process.

What makes each part correct: the table reports a change whenever HAProxy has
to know of it; no event is lost around a sync; HAProxy has what the table has
and the table what the API has; a drain is not undone; the file HAProxy starts
from is always whole; HAProxy reads from it what the table says; the end of
HAProxy ends the process; every reason to stop stops it, and a drain is waited
for; the process starts only with settings the others can rely on; the metrics
of ports and proxies agree with their totals. `PROJECT.json` lists the hazards, line by line, with the properties that
watch over them.

## The modules

**RoutingTable** has the table's operations as operators. A backend
(address, port, TLS port, instance id) is one model value: the table only
compares it. `UpsertBackendServerKey` is given in one piece, for code under the
mutex, and as `UpsertLookup` and `UpsertStore`, for `Sync`, which another
goroutine can interrupt between the two. A modification tag is a guid and an
index; tags without a guid, which older routing APIs sent, are not modelled.

**Updater** has one action for each stretch of code that nothing can interrupt:

| actions | code |
|---|---|
| `CacheEvent`, `ApplyEvent`, `HandlerConfigure` | `HandleEvent`, `handleUpsert`, `handleDelete`; `Configure` runs with the mutex held |
| `SyncStart`, `SyncFetch...` | `Sync` up to the routes, with errors and the one retry |
| `SyncLookup`, `SyncStore`, `SyncReplace` | the loop over the routes and the comparison of sizes, without the mutex |
| `SyncFinish`, `SyncReplay`, `SyncUnchanged`, `SyncChanged`, `SyncConfigure`, `EndSync` | the deferred function, under the mutex |
| `PruneStaleRoutes`, `Tick` | the pruner and the clock |
| `DrainRequest` ... `DrainWaited` | `Drain`; `detached` is the old map it still works on when a sync has replaced the table's |

`Configure` is one step here that HAProxy either takes over or refuses. A store
of a sync into an entry that is no longer in the map is lost (`Lost`, `Detach`);
one into a map that `SyncReplace` has taken away is not seen by a `Drain` that
still reads that map. Go may end the program on a concurrent map write; the
behaviour ends there.

**TableSync** composes Updater with a routing API that registers and
unregisters routes, the event stream, which breaks, and the subscription. The
process may restart at any point, with an empty table, while HAProxy runs on with
what it had. `missed` says whether events were lost that no sync has made up for,
`unsent` which routes lost their Delete event, `inherited` what HAProxy has served
since before the process started: no `Configure` follows a start by itself, so that much
may stay until the first change.

**Configurer** is `Configure` step by step. A file's content is the number of the
call that wrote it, `Partial` or `Absent`. Any step may fail, the process may
crash between any two; the reload script ends with the process. `ReapChild` is
main's SIGCHLD goroutine, which may take the status the script runner waits for.

**AtomicConfigure** is the operation that the updater takes `Configure` for: a call
has its effect at one moment between start and return, or none; HAProxy then has the
routes and the drain flag of that call; nil is returned only after an effect.
Configurer implements it (`ConfigureIsAtomic`): the call a caller is in is `pending`,
it is `applied` when HAProxy runs with the call's flag, and what HAProxy runs with is
the effect. The moment of the effect is the script's reload. An error may be returned
after an effect, which is what the reaper can do; the atomic operation says so.

**Monitor** adds the monitor and HAProxy's life to Configurer. While the script
runs the PID file may be found or not. A crash ends the monitor too, and both start
again.

**HAProxyConfig** is `NewHAProxyConfig` and `Marshal`. `VisitKey` takes the keys
in any order, as Go does with a map. The backends of a key come in any order too and
are then sorted: `Servers` are the sorted orders of them, more than one where address
and port are equal. `Marshal` is one pass of its loop, for the least port that is left.
Strings are numbers; the file is a sequence of records, one for a port, of what HAProxy
reads. `HAProxyServes` says what HAProxy does with them.

**Lifecycle** is the process: start in order, signals, the syncer's send, the
watcher's select, drains, stop in reverse order. The group is ifrit's and external: it
stops its members with the signal it read, one after the other, and a different signal
that it reads meanwhile takes the place of the first, for the member it waits for and
for those after it. SIGUSR2, interrupts and the end of HAProxy come in any order and
number once the group runs; signals during the start are left out. Each SIGUSR2 that
reaches the watcher starts a goroutine, `drain[d]`, with the poll, the look at
`isDraining` and the setting of it as three steps. Of `Sync` only `syncing` is left: every
sync sets it and every end clears it, so one flag stands for any number of them. The
metrics reporter reads no signal while it waits for HAProxy's statistics.

**Watcher** is `Run` and the goroutine it starts (the pump), which share the stop flag,
the event source and the channel of events, together with `Sync` as the other user of
the token fetcher and the client. A token is a number and the API accepts the newest;
event sources are numbered by subscription. It has the pump after `Run` has returned.

**Startup** is `main` up to its group: `config.New`, the configurer's files, the flags,
UAA, `checkPorts`. Each step goes on or exits. A PEM file is the sequence of its parts,
blocks and text; durations count half seconds, so that truncation shows.

**Metrics** is a round of the metrics reporter. HAProxy's answer is read by columns, so
that it can end inside a line; `Columns` is how many a line has and `Used`, 62 in the
code, how many the conversion takes for granted. `Convert` is one pass of its loop, for
one row. `Word` stands for 2^64, and sums are taken modulo it; `Sum` in the properties
counts units, which needs no recursion. A proxy's name is the sequence of its parts
between underscores. `sent` has the integers handed to `Send`, which makes a float64
of each: beyond 2^53 that rounds, and what the firehose shows need not add up.

The modules named `...Proofs` hold the proofs;
`MCUpdater`, `MCTableSync`, `MCHAProxyConfig`, `MCStartup` and `MCMetrics` the values
of constants. Operators
whose comment describes a fault (`NoLock`, `SyncBlocking`, ...) are mutations:
each breaks the property it is listed with in `PROJECT.json`, so the property
does depend on that line of the code.

## The runs

| run | instance (distinct states) | shows |
|---|---|---|
| `updater` | one sync at a time, again and again, one drain, two keys, two backends, clock to 2, failing reloads (1.2 million) | `TypeOK`, `CacheOnlyWhileSyncing`, `Served`, `NoEventDropped`, `DrainSticky` |
| `table_sync` | two backends, three changes of the API, one break or restart (1.8 million) | `NoRouteMissing`, `NoStaleRoute` |
| `table_sync_live` | one backend, two changes, two breaks or restarts (31,000) | `EventuallyServed` |
| `reload` | two callers, four calls, a crash, HAProxy dying, the reaper (208,000) | `ConfigurerTypeOK`, `ConfigComplete`, `ReloadsOwnContent`, `BackupBeforeReplace`, `ConfigureIsAtomic`, `DeathNoticed` |
| `haproxy_config` | all tables of two keys and two backends out of every kind (120,000) | `RoutesAsInTable`, `Deterministic` |
| `lifecycle` | the whole group, any number of syncs and signals, two drains at a time (197,000) | `DrainedBeforeExit`, `ProcessExits` |
| `watcher` | two revocations, streams that break up to the second one (28,000) | `OneSourceOpen`, `StopsSubscribing`, `SubscribesAgain`, `FetchesAgain` |
| `startup` | PEM files of up to three parts, two ports, flags at their limits (337,000) | `SettingsInRange`, `BackendTLSChecked`, `NoReservedPortRouted`, `StartupEnds` |
| `metrics` | answers of up to two lines of three columns out of six, words of two bits (70,000) | `SumsAgree`, `NeverPanics`, `NothingFromFailedRead` |

That `CacheOnlyWhileSyncing` and `DrainSticky` also hold when syncs overlap and several
drains run is proved (below), not a matter of the run's bounds.

The other three are expected to fail; each checks one thing the repository's tests
say and the code does not do:

| run | what happens |
|---|---|
| `updater_overlap_drops_events` | a second sync empties the first one's cache |
| `table_sync_stale_backend` | a backend whose Delete was lost survives every sync that finds as many keys as before; in the code the pruner takes it from the table after its TTL, and HAProxy keeps it until the next `Configure` |
| `monitor_down_unnoticed` | after a failed `Configure` the monitor stays off |

The models reach more that a maintainer should know of and that has no run of its own:

* With two syncs at once `Served` fails as well: a store without the mutex brings back
  a route the other sync has just taken from HAProxy, and reports no change.
* Pruning is not followed by a `Configure`; HAProxy keeps the route. The test "prunes stale
  routes" (`main_test.go:192`) expects it gone; the routing API of the test expires the route
  as well, and its Delete event would take the route away.
* A `Configure` that fails is not tried again; the change reaches HAProxy with the next one
  that is made (`updater.go:83`).
* Two `Drain` calls can both find `isDraining` unset, and a sync can replace the table
  while `Drain` configures HAProxy from the old map. A later one finds it set, returns at
  once and interrupts the process in the middle of the first one's wait.
* A SIGUSR2 that the group reads while it stops for another reason (an interrupt, the end of
  HAProxy, the end of an earlier drain) becomes the signal it stops the others with. If the
  watcher has stopped by then, syncer, monitor or metrics reporter ignore it
  (`syncer.go:48`, `monitor.go:56`, `metrics_reporter.go:58`) and the process stays until
  the next interrupt. `ProcessExits` excepts this state, `Overtaken`, and one other.
* Of two `Configure`s the first turns the monitor on during the second's reload.
* Backends with equal address and port come out in map order (`Deterministic` says
  nothing of a key that has two such), and two that differ in the
  instance id only give one server name twice (`RoutesAsInTable` leaves names out and
  takes both as served).
* The syncer's first send finds no watcher when it runs before the watcher is up.
* When `Run` stops, the pump may be about to subscribe: it does so once more, and the
  connection stays open, with a goroutine that no one reads from, until the process ends.
* After a restart HAProxy keeps routes that are gone from the API until the first event
  or sync that changes the new table; with an empty API that may be never.
* The marshaller names proxies `frontend_<port>` and `backend_<port>`, with the hostname as
  a third part; `proxyKey` expects the port as the third of three (its comment says
  `listen_cfg_9001`). Metrics of a port are therefore emitted only for a hostname that
  is a number, and under that number.
* An expiry below one second is accepted and truncated to a default TTL of 0. An interval
  that is not positive passes the comparison with the expiry and makes the pruner's ticker
  panic. A CA file without any content is accepted.
* The watcher may set its old token on the client between `SetToken` and the call of a
  sync's retry, which then gives up; a later sync recovers (`FetchesAgain`).
* A drain that ends before main has called `SetProcess` interrupts nobody, and the group
  waits on (`Unheard`, the other state `ProcessExits` excepts).

### Bounds

Named in the modules: `MaxCached`, `MaxTime` (Updater), `MaxChanges`, `MaxBreaks`
(TableSync), `MaxCalls`, `MaxCrashes` (Configurer), `MaxKeys`, `MaxBackends`
(HAProxyConfig), `MaxDrains` (Lifecycle), `MaxRevocations`, `MaxSubscriptions` (Watcher),
`MaxRows`, `Columns`, `Word` (Metrics). Two backends of one key, a second key and two versions of a tag make every branch of
upsert and delete happen, the last backend of a key going included. Two syncs are
enough for one to disturb another, two drains for both to find `isDraining` unset or one
to find it set, two callers for one to wait in `Configure`,
four calls for a call after a failed, a crashed and a successful one. One break
of the stream is enough to lose an event, the state after it being the one
before subscribing. In HAProxyConfig a key meets at most the key without a
hostname on its port, so two keys suffice; the backends have every reason to be
left out among them. Two revocations can hit the pump and `Sync` at two different
places; with two subscriptions a stream breaks before and after the stop. PEM files
of three parts have text before, between and after a pair, a block too many and one
too few. Two lines of an answer are enough for two lines of one proxy, and for a cut
after the first; with three columns, of which two are used, a cut line may be too short
and still, cut in its last column, be accepted; a word of two bits makes every sum wrap.

`CHECK_DEADLOCK FALSE` is set where the system stops by itself: the process has
exited or started its group, the file is written, or the bounded calls are used up.

### Fairness

TableSync: the ticker goes on, Go's mutex starves nobody, UAA and the API do not
refuse for ever (the code retries at every tick, and that is all it can do). No `Configure`
fails in the runs of TableSync, since the code does not retry one; a failed one is
outside `EventuallyServed`, `NoRouteMissing` and `NoStaleRoute` as checked there.
Monitor: its ticker and the callers inside `Configure` go on; nobody has to call
`Configure` again. Lifecycle: goroutines run; `select` picks among ready cases at
random, hence strong fairness for its signal cases (one condition for the four members,
of which the group has but one stop at a time). Two conditions are assumptions about the
surroundings, and `ProcessExits` shows nothing where they fail: HAProxy answers the metrics
reporter or ends, there being no deadline on the read; and `Drain`'s poll, ten times a
second, meets a pause between two syncs, which syncs longer than their interval could
deny it. No signal has to be sent. Watcher: a call made again and again that could succeed does
in the end, and an "unauthorized" is told as such in the end. Startup: `main` goes on; no
attempt has to succeed. A restart in TableSync is never assumed to happen. No property assumes fairness of a failure, of a crash or
of the environment's changes.

## The proofs

For all values of the constants, the bounds included, from the named assumptions of
the modules:

* `TypeCorrect`: `TypeOK`. Its conjuncts on pending upserts are needed: a store has to
  find its entry in the table unless pruner or replacement have marked it lost.
* `CacheIsTemporary`: by the lock invariant `LockInv` (who holds the mutex is where),
  for overlapping syncs too.
* `DrainModeStays`: by `LockInv` and `DrainInv` (a drain past its `DrainSet` implies
  `isDraining`) and `LockedInv`: the flag a holder of the mutex has read is the present
  one, because `Drain` needs the mutex to change it.
* `EventsAreReplayed` and `TableIsServed`: `NoEventDropped` and `Served` under
  `[]AtMostOneSync`, without which TLC refutes them. `SoleSyncInv` says that `syncing`
  and the cache belong to the one sync there is. For `Served`, `StoreServed` says of a
  sync between lookup and store that its route is known to HAProxy or the sync will
  configure, and `RoutesInv` the same of the table; both survive pruning because
  pruning only removes.
* `StaleRoutesGo` and `NoRouteGetsLost`: `NoStaleRoute` and `NoRouteMissing`, the two
  halves of "the table mirrors the API", under `[]AtMostOneSync` too; see below.
* `ConfigAlwaysComplete`, `ReloadsAreWhole`, `ReplacedIsBackedUp`: from `FilesInv` and
  `CallerInv`, which say, for every place of the holder of the file lock, what the three
  files contain; whoever is outside the lock has no part in them. `ConfigurerTypes` is
  the type invariant among them, with the lock held by whoever is past it.
* `ConfigureImplementsAtomic`: Configurer implements AtomicConfigure. Beside `FilesInv` this
  needs `AtomicInv`: calls are numbered once, so that no two callers are in the same call
  and a call that has not reached its script is not what HAProxy runs with; and a caller
  whose script has run and was not refused has had its effect. Without the first, a new
  call could map to one that is `applied` already; without the second, a return of nil
  would have no effect before it. Every step of Configurer then is a step of the abstract
  specification or leaves its variables alone (`Stutters`).
* `DrainBeforeExit`: `DrainedBeforeExit`, by `InterruptInv`: as long as nobody interrupts the
  process, HAProxy is up and no drain has returned, no interrupt is anywhere on its way
  through the group, neither unread nor passed on nor at a member, and no member has
  exited (`NoInterrupt`); and the watcher has been sent one SIGUSR2 at most, however many
  came, so that no second drain finds `isDraining` set and returns early (`OneDrain`).
* `AtMostOneSource` and `SubscribingStops`: by `PumpInv`; the pump has closed its source
  whenever it is on its way to a new one, and after the stop it is either at the
  subscription it had or at the next one and past subscribing.
* `SettingsAreInRange` and `ReservedPortsAreFree`: by `SettingsInv` and `GroupsInv`, which say
  what the checks passed so far have established. The range of the default TTL
  rests on the ticker's refusal of an interval that is not positive.
* `BackendTLSIsChecked`: by `BackendTLSInv`, and by the lemmas `DecodeFirst` (what
  `pem.Decode` returns is the first block and all that follows it; that there is a first
  one is the well-foundedness of the numbers) and `AcceptedIsPair`, for files of any length.
* `FileRoutesAsTable` and `FileIsDeterministic`: by `ConfigInv`. `FrontendInv` says that `conf`
  has only keys of the table that are valid and have a usable backend, with servers in
  an order the sort allows; `VisitedInv` that no such key is missing among those visited;
  `OutputInv` that the file is what the ports written so far make, in ascending order,
  and that the ports left are all above them. The rest are lemmas about data:
  `HostnamesSorted` (every hostname of a frontend has its place, in ascending order),
  `ServersExist` (the sort always has a result, so no key stops `NewHAProxyConfig`),
  `ServersUnique` (and one only, where it tells the backends apart), `RulesForIs` and
  `StanzasOf` (a port and hostname select one rule and one backend stanza).
* `FailureEmitsNothing`: by `FailedInv`; there are no statistics before an answer has been
  read to its end.
* `ConversionNeverPanics`: by `ReadInv`. When `encoding/csv` accepts the lines they are as long
  as the first, and when there is a second the first is whole. That a whole line has the
  62 columns is an assumption about HAProxy, `ColumnsAssumption`.
* `EmittedSumsAgree`: by `ReportInv`, which says of the rows added so far what `SumsAgree` says
  of all, and that a port has an entry as soon as one of its rows was added. It rests on
  `SumAdd` (adding to one key of a map adds to the sum of it, modulo `Word`), from
  `SumSplit` and `ModAdd`, a law of remainders for any divisor.

Where a lemma is about data of any size (a sort, a sum, the first block of a file) the
induction is written as the choice of a least counterexample, which is first-order:
`LeastNumber` is the well-foundedness of the numbers, and the smallest set that cannot
be sorted, say, becomes sortable when its last element is taken out (`SortedExists`). Sums
are cardinalities, so that the library's facts about finite sets apply.

`TableSyncProofs` compares the table with an API that goes on changing. The key is the
sequence `Pending` of the events that are still to be applied: what the running sync has
cached and not yet replayed, then the stream. Caching an event does not change it
(`QuietPending`), handling or replaying one takes its first (`AppliesFirst`), a change of
the API appends one (`PublishPending`). What is said of a route is therefore said of its
last event in `Pending` (`Settles`). On top of UpdaterProofs' invariants, which `BaseInv`
collects (`UpdaterProofs` states them for `AnyNext`, any event and any fetch, so that
TableSync inherits them), the inductive invariant has these parts:

* `LoadedInv`: HAProxy has no route outside the table unless a reload is to come or it
  had the route before the process started.
* `TagInv`: among tags of one guid none in the table, in a fetch, in a pending upsert or
  in an event is newer than the API's, nor than that of a pending Delete. Without
  it a Delete could be refused as outdated (`DeleteBackendServerKey` compares tags).
* `StaleInv`: if a route that is gone from the API is still anywhere, the last pending
  event about it is its Delete, unless that was lost. So an old fetch or an old event may
  bring a route back, but what undoes it is behind it in the queue.
* `UpsertInv`: what is pending about a route of the API ends in an Upsert. Under a sync
  that began while no stream was open this is false, since the Upsert after a cached
  Delete may be lost; hence the history variable `clean`.
* `StoreInv`: while a sync fills its fresh table the old one has all routes of it, but for
  the one that is about to be stored, so that it does not matter which of the two
  `SyncReplace` keeps.
* `MissingInv`: when nothing was missed, a route of the API is in the table (or, while a
  sync fills its tables, in the fetch or the fresh table), or its Upsert is pending.

TLC checked the whole invariant on the instance of `table_sync` before it was proved.

`UpdaterProofs` begins with lemmas on RoutingTable, which say of each table operation that
it yields a table and which routes it may add or remove.

Only model-checked: what needs fairness (liveness and `ENABLED` are beyond the prover), that
is `EventuallyServed`, `DeathNoticed`, `ProcessExits`, `SubscribesAgain`, `FetchesAgain` and
`StartupEnds`. Every invariant and every action property of a passing run is proved.

## Not modelled

Logging, the debug server and the syntax of the command line; what ifrit does with signals
beyond the order of its group; `isValidDNSName`, a regular expression, of which
HAProxyConfig only needs which names pass; test helpers and generated fakes, of which
nothing runs in the router. Modification tags without a guid. In Watcher the content of
events (TableSync has it), in TableSync the clock, the pruner and the drain (Updater has
them). Signals that reach the group while it starts.

## Plan

1. Done: RoutingTable, Updater, TableSync with restarts, Configurer and the atomic
   operation it implements, Monitor, HAProxyConfig, Lifecycle, Watcher, Startup, Metrics.
2. Done: all safety properties of the passing runs proved, `RoutesAsInTable`,
   `Deterministic`, `SumsAgree` and `NeverPanics` last.
3. Left: shorter proofs where one lemma can serve several actions, in TableSyncProofs above
   all; the liveness properties, should the prover learn to reason about fairness.
