# LynxDNS in TLA+

LynxDNS is a DNS forwarder in Go: it answers queries from a cache, by custom
rules, from Geo data or from one of two groups of upstream servers, and is
configured at run time through a management API. These modules model its
concurrent core, TLC checks them on small instances, and TLAPS proves the most
important invariants for every instance.

Paths below are relative to `src/lynxdns-core/`. `KG` is
`docs/LynxDNS_Kernel_Guide.md`, `AP` is `docs/LynxDNS_API_Protocol.md`.

## 1. Inventory

| Component (file) | State | Operations | Hard behaviour | What makes it correct |
|---|---|---|---|---|
| Answer cache (`internal/cache/cache.go`) | map key -> list element, LRU list, `maxSize`, `lazy` | Get, Set, Delete, Clear, Entries, evictOne | Get releases its lock between the lookup and the touch; the element it holds may be evicted, replaced, dropped or cleared meanwhile | right key, cleared means cleared, size bound, LRU order, the listing ends |
| Circuit breaker (`internal/upstream/breaker.go`) | state, failure run, opened-at, trip and recover counts | AllowRequest, RecordSuccess, RecordFailure, Snapshot | unlocked load before the locked check; results that arrive after a trip; wall clock | only a completed cooldown ends the open state; counters agree with the state; probes and recovery happen |
| Upstream client (`internal/client/client.go`) | map address -> upstream (transport, stats, breaker) | AddUpstream, Query, QueryGroup, UpstreamStatuses | nested read locks; replacement of upstreams in use; waiting for every server | no deadlock, the fastest answer when one server answers, results recorded where they were earned |
| Upstream statistics (`internal/upstream/stats.go`) | counters, latency ring | Record*, Snapshot | ring overwrite against the running sum; counters read one after the other | counters and percentiles are those of the requests and of the window, and so should the average be |
| Configuration (`internal/config/config.go`) | `m.config`, the file, the API secret | Load, Save, Get, Update, Reload, OnChange | callback under the lock, pointer handed out, partial decoding, write after unlock, truncation before the write | what was answered 200 is in force and on disk, and the secret survives |
| Rule engine (`internal/rules/rules.go`) | slice of rule pointers, `nextID` | Add, Update, Delete, Reorder, List, Match | ID read outside the lock, check-then-add, update in place that may fail | one rule per ID, no rule lost, a rule matches what it says |
| Resolver (`internal/resolver/resolver.go`) | `r.cfg`, counters, query log | Resolve, Lookup, UpdateConfig, stats | several reads of the configuration, the rules and the Geo data, each at another moment | the documented decision; no leak; every query counted once |
| Geo data (`internal/geodata/geodata.go`) | domain sets per category, ad list, progress and history of updates | Load*, Match*, HasGeositeCategories | replaced between two looks of one query; lenient parser | all or nothing replacement |
| Geo updater (`internal/updater/updater.go`) | cron schedule, progress | Start, Stop, Reconfigure, update | concurrent updates share a temporary file; failover; a crash between rename and load; unlocked cron pointer | whole files in force, honest history, one schedule |
| Management API (`internal/api/api.go`) | HTTP server, WebSocket clients | HTTP handlers, Start, Stop | handlers are sequences of calls, each with its own lock | as the components |
| Logger (`internal/log/log.go`) | queue, outputs, subscribers, file | Log, Subscribe, Unsubscribe, rotate, Close | send on a closed channel, shared slice, failed renaming or reopening, two writers on one file | nobody blocks, nothing accepted is lost, the newest lines are on disk, the file keeps to its size |
| DNS server and lifecycle (`internal/server/server.go`, `cmd/lynxdns/main.go`) | listeners, `stopCh` | Start, Stop, restart, signals | restart while requests run, second restart, Stop before the listener is there | every restart comes up again |
| LuCI interface (`src/luci-app-lynxdns`) | none | presentation | none | not modelled |

How they interact: one goroutine per DNS query runs `Resolver.Resolve`, which
calls the cache, reads `r.cfg`, calls the rule engine and the Geo data, then the
client, which calls the breaker; afterwards it calls the cache again. API
goroutines call the configuration manager, whose `onChange` callback calls
`Resolver.UpdateConfig` and so `DNSClient.AddUpstream`. Every component has one
mutex; no lock spans two calls of a query, while `Update` holds the manager's
lock over the callback. Panics are recovered in API handlers and nowhere else.

`PROJECT.json` lists every hazard at its line.

## 2. Modules

| Module | Models | State and actions |
|---|---|---|
| `GoList` | Go's `container/list` (external), as pointers | `PushFront`, `MoveToFront`, `ListRemove`, `ListInit`, `Back`. A heap of pointers, because `Init` keeps the owner and pointers of old elements while `Remove` clears them: that decides what a late call on a stale element does |
| `DNSCache` | `cache.go` and the Get/Set sequence of `Resolve` | `entries`, `lru`, `value`, the progress of each Get. Get is `GetLookup`, `GetCheck` (no lock), then `GetTouch` or `GetDrop`; Set is `SetReplace`, `SetInsert`, `SetPanic` or `SetSkipped`; `Clear`, `Delete`, `Expire` |
| `LRUCache` | the abstract promise | `order`, with `Use`, `Insert`, `Remove` |
| `Breaker`, `UpstreamBreaker` | `breaker.go` as operators on a record, and `client.Query` around it | one operator per critical section; `AllowLoad` (unlocked), `AllowLocked`, `RecordSuccess`, `RecordFailure`, `Tick`, `StepBack`, `Toggle` |
| `RWMutex` | Go's `sync.RWMutex` (external) | a writer announces itself, which keeps new readers out, then waits for the readers it found; read locks do not nest |
| `HotReload` | `config.Manager`, the handlers that change or read it, `UpdateConfig`, `AddUpstream`, `UpstreamStatuses`, the locks of a query | a handler is the sequence of its lock operations and data steps; goroutines interleave after each |
| `RuleEngine` | `rules.go` and the handlers of `/rules` | `object` (rules by pointer), `rules`, `nextID`, `request`; POST is `AddList`, `AddCompare`, `AddBuild`, `AddAppend`; `Update`, `Delete`, `Reorder` (`Chosen` is the loop of Reorder that takes each rule once) |
| `Resolver` | `Resolve`, `Lookup` and what changes under them | a query walks the stages of the code, one step per call into another component; `Changes` is `PatchDecode`/`Notify`/`Install`, `ReloadLoad`/`Notify`, `LoadGeosite`, `LoadAdFilter`, `SetRules`; `Expire`, `ClearCache`. `Policy` is the documented decision as a table; the history `gap` says after how many changes the protection of each kind (`Shielded`) was last interrupted |
| `Upstreams` | `DNSClient` over its upstreams and `stats.go` | an upstream is an object with a `Breaker` record and statistics, found through `upstreams`; a call of `Query` is `Find`, `Answer` or `Fail`, `Record`; `QueryGroup`, `Return`; `StatusBegin`, `Probe`, `SnapshotRequests`, `SnapshotRest`, `StatusEnd`; `UpdateConfig`, `AddUpstreamLock` (waits for `c.mu` and keeps new readers out, the nested one of GET /status too), `AddUpstream`; `Cool` |
| `GeoUpdate` | `updater.go` (updates) and progress, history and loading of `geodata.go` | a goroutine per update: `Begin`, `RequestFails` or `Create`, `Copy`, `EndOfBody` or `BreakOff`, `Rename` or `RenameFails`, `Load` or `LoadFails`, `Finish` or `FailOver`; `Start`, `Reconfigure`, `Restart` (crash and next start) |
| `Logger` | `log.go`, the log stream of `api.go`, the opening of the log file in `main.go` | `Log`; `flushLoop` is `Take`, `WriteConsole`, `WriteFile` (with `Rotate`, whose rename and whose reopening may fail), `Pick`, `Offer`, `EndItem`; `Subscribe`, `Unsubscribe`, `Receive`; `Reopen`; `CloseQueue`, `CloseOutputs` |
| `Lifecycle` | `main.go`, `server.go`, the schedule of `updater.go`, the file of `config.go`, `Start` and `Stop` of `api.go` | as in `HotReload` a handler is the sequence of what it does; `Crash` and `Boot` end and start the process |
| `DNSCacheProofs`, `BreakerAndRulesProofs`, `GeoUpdateProofs`, `LoggerProofs`, `ResolverProofs`, `LifecycleProofs`, `UpstreamsProofs`, `HotReloadProofs` | theorems | section 5; definitions there are parts of inductive invariants |
| `MC*` | small instances for TLC | model values, sets, symmetry |

Composition. `Resolver` uses the other components through what they tell it:
the rule engine is a ruling per domain, the Geo data sets of domains, the cache
the group each answer came from. Their own modules treat the detail. `HotReload`
and `Resolver` share one idea of a configuration reference: `onChange` hands out
the pointer `m.config`, through which later in-place updates are seen until
`Load` makes a new object, whereas `Get` returns a copy. `Upstreams` composes the
operators of `Breaker` with the statistics, for many upstream objects at once;
`UpstreamBreaker` has the steps inside one breaker, and `HotReload` the nesting of
`c.mu` with the other locks. `Lifecycle` composes the configuration file, the update schedule and the
two servers as far as their order matters; what an update does is in `GeoUpdate`,
what a configuration change does to the resolver is in `HotReload`.

Abstractions. Answers, addresses, names and rule patterns are model values. A
configuration is a version number in `HotReload`; in `Resolver` it is the four
fields the decision reads, and the configured category lists are taken as fixed
(`Geo` gives the union of their domains). In `RuleEngine` a pattern is the set
of names it matches through the text of the field and through what `compile`
stored; the two can differ after an update that failed. Time is "expired or not"
in the cache and ticks since the trip in the breaker. `GET /rules` and the
counters of hits are not state any property tells apart. A file is an inode with a
body (`GeoUpdate`, `Logger`): a rename or an unlink leaves the descriptors of those
who have it open. Downloaded bodies are chunks named after the job and the source;
log lines all have one size; latencies are small numbers; a configuration of
`Lifecycle` is a version and a secret. The nearest-rank formula is written with
exact integers: the code's `ceil(p*n)` in floating point gives the same rank for 0.95
and 0.99 and every n up to 1024. Variables like `overlapped`, `overtaken`, `split`, `disturbed`
or `hist` remember that a race happened, `unmoved` that renames failed and `gap` when
protection was interrupted; they occur in properties only, as their exceptions or bounds. Definitions whose names
say what is wrong with them (`GetTouchRelink`, `FailedAgain`, ...), each marked
"Mutant", are plausible bugs that the properties have to notice.

## 3. Runs

Every run is exhaustive within its bounds. The one "violation" run records a
disagreement between the code and its documentation. Each module also states its type
invariant `TypeOK`; it is a part of the inductive invariants of section 5, which hold for
every instance, and is no question of its own, so no run lists it.

| Run | Checks | Bounds, and why they are enough | Shows |
|---|---|---|---|
| `cache_races` | KeyIntegrity, RightAnswer, ClearIsEffective, ListingTerminates | 2 goroutines, 2 keys, 3 elements, cache of 1, one Clear, not lazy. One goroutine can stand between its sections while the other replaces, evicts, drops or a Clear comes; a cache of 1 evicts at once | Whatever happens to the list, the key and epoch of what is served are right, and the walk of `Entries` ends. A panic is a legitimate end of this run (`CHECK_DEADLOCK FALSE`) |
| `cache_lru` | ListMatchesMap, ImplementsLRU, HitIsMostRecent | 2 goroutines, 3 keys, 4 elements, cache of 2, lazy, no Clear. Two cached keys have an order, the third forces an eviction, the fourth element can be held by a late hit | In lazy mode and without Clear the cache is an LRU cache although a hit is recorded one lock section late |
| `breaker` | ClosedBelowThreshold, TripAccounting, OpenUntilCooled, OpenIsProbed, Recovers | 3 requests, threshold 2, cooldown 2, 3 trips, clock set back once. Two failures trip, the third request is the late one; three trips allow failed probes after a recovery | The bookkeeping survives late results; the breaker probes and recovers |
| `config_reload` | AppliedWhenQuiet, EveryoneReturns | 2 endless sources of DNS queries, so that the readers of a mutex can overlap for ever; 1 PATCH, accepted or rejected; 1 reload; a disk that fails at any time | Everyone is answered; unless a PATCH was rejected the resolver ends with the manager's configuration. It takes two PATCHes for one change to overtake another, so the exception `overtaken` never applies here; the theorem covers any number of changes |
| `config_status` (violation) | EveryoneReturns | 1 query source, 1 GET /status, 1 PATCH | Deadlock through the nested read lock |
| `rules_races` | MatchesItsDomain, LeavesOnPurpose | 2 POST goroutines, 3 rules ever, a suffix, an exact and a malformed pattern, orders of up to 2 IDs. Two rules can share an ID while a third does not; two listed IDs and the rest give every permutation of three and every kind of repeated, missing and unknown ID | The order operation loses nothing but one of two rules with the same ID; a decision is always covered by the rule's accepted pattern |
| `routing_reference` | Decided | every configuration, Geo data, ad list and ruling, with a public and a local domain, one query and one lookup | The stages of the code take the route of the documented decision table `Policy`, with two named exceptions: a lookup sends names in both kinds of categories to the remote group, and without Geo data of both kinds strict mode forwards what it should refuse (section 4, `resolver.go:307`) |
| `routing_churn` | Decided, ActionsAddUp, LeakNeedsGap | 2 queries, a public and a local domain, 2 versions of the rules and 3 changes (a whole PATCH; or a reload and another change), among them the switches between strict, standard and no protection, which change the default group as well, and the loss and return of the Geo data. Two changes can take protection away and give it back while a query is under way, a third can be neither | Undisturbed queries follow the table; a disturbed one goes to the default servers unprotected only if at some moment since it began protection was not in force, also when it crosses configurations and Geo data |
| `upstreams` | FastestAnswer, OwnRequests, WindowStatistics, ReportIncludesProbe, EveryGroupReturns | 2 addresses, one of them added and the other replaced by 1 change; 2 calls of QueryGroup and GET /status, 3 requests in all; concurrency 0 and 3, latencies 1 and 2; threshold 1, ring of 2. Two answers of different speed, a late result for a replaced object, a probe next to a query and the lock cycle of GET /status all occur; three samples wrap the ring | The fastest answer is returned after everyone was heard; replaced upstreams neither lose nor inherit results; GET /status includes its own probe; QueryGroup returns unless GET /status and a configuration change wait for each other (`Stuck`, which is the deadlock of `config_status`) |
| `geo_update` | WholeDownload, RestartAgrees, HonestHistory, CleanEnd, EveryUpdateEnds | 2 jobs, 2 targets, bodies of 2 chunks, the first target without a source, the second with one or with a backup, history of 2, 1 crash. Two chunks are the least that can be torn or mixed; two jobs overlap on one target or work on two | Without an overlap only whole downloads are in force, also after a crash; with one, still no litter and no progress that never ends |
| `logger` | Accounted, OfferedOnce, PanicNeedsRace, KeepsNewest, CloseReturns | 2 streams with channels of 2, queue of 2, 3 entries, files of 1 line, the first writer and one reopened by a restart, a file that may be impossible to rename or to open. Two streams let one shift the other in the array; the third entry finds a full queue, and a file of one line rotates at every line | Nothing accepted is lost or overtaken on the console; the file is too long only for the renames that failed and the writer that was left; the panics are those of section 4. A dead or closed logger is a legitimate end (`CHECK_DEADLOCK FALSE`) |
| `process` | AcceptedKept, ScheduledOnce, PanicExplained, AccessKept, BackInService | 2 restarts, a PATCH that turns the schedule off and a reload, of which 2 are made; SIGTERM; 1 kill; 2 starts; with a file or without one at first. Two requests are every pair of concurrent handlers; the second start sees what the first left | Settings and secret survive restarts and kills unless one fell into a change; the schedule runs once unless two goroutines exchanged it at once; restarts come back |

Symmetry is used over goroutines, keys and elements, only with invariants and
step properties that do not name them.

Fairness. `HotReload` assumes strong fairness of each goroutine: Go's scheduler
runs what can run, and a goroutine waiting for an `RWMutex` that becomes free
again and again gets it, since writers keep later readers out and `Unlock` lets
the waiting readers in first. The counterexample of `config_status` is a real
deadlock: nobody in the circle can move, whatever the fairness.
`UpstreamBreaker` assumes that time passes, that an admitted request ends (the
query has a context deadline and its timeout is recorded) and that the upstream
goes on being asked. Nothing is assumed of the upstream (`Toggle`), nor that the
clock is ever set back. `Upstreams` assumes weak fairness of the goroutines of a
query, of GET /status and of `initUpstreams`: a request ends by its context, and nobody
is starved of `c.mu`, as a waiting writer keeps readers out only until it has had its
turn. When everything has returned or is stuck for good (`Stuck`) the run stutters, so that
TLC still reports any other deadlock. `GeoUpdate` assumes it of
each update: the HTTP client gives up after ten minutes, so a request or a read ends
one way or the other. `Logger` assumes it of `flushLoop` and of the waiting Close,
neither of which waits for a stream (`Receive` has no fairness: streams may be as
slow as they like). `Lifecycle` assumes that some goroutine runs as long as one can;
handlers are finite, so all of them end. Nobody is assumed to make a request, to kill
or to start the process.

## 4. Findings and observations

One finding has a run (`PROJECT.json`, "findings"): the lock cycle of `GET /status`
(`client.go:377`), run `config_status`. `Upstreams` has it too, and `EveryGroupReturns`
excepts it (`Stuck`).

Other differences between code and documentation, or between two parts of the code,
met while modelling. The models contain each of these behaviours where the component
is modelled; no property is stated that they would violate, and where a property
makes an exception for one of them it says so.

- `resolver.go:307`: without Geo data of both kinds, as before the first download, strict
  mode forwards the names nothing matches to the default servers ("未匹配任何规则的域名返回
  NXDOMAIN", KG:172, 237). `Policy` has the documented route; `Decided` names this as an
  exception.
- `resolver.go:372`: leak protection is judged by the configuration read first,
  `forwardToDefault` reads `r.cfg` again. A query that crosses a switch between "no
  protection, default remote" and "strict, default domestic" goes to servers neither
  configuration would have asked ("PATCH 配置时，内核保证原子性", AP:1365). Such switches, and
  Geo data that comes and goes, are in `routing_churn`; what does hold there is
  `LeakNeedsGap`: between two protected states no name slips through.
- `stats.go:75`: `latSum` keeps the samples that the ring has overwritten while `latCount`
  stops at its size, so that from the 1025th sample on the reported average is that of no
  samples and only grows ("基于历史样本的平均延迟", AP:1014; "延迟总和（ns，计算平均值，O(1)）",
  `stats.go:41`). `latSum` is in the model, and no property takes the average for right. That the ring and the percentiles are right all the
  same is `WindowStatistics`.
- `cache.go:245`: a hit that had found its element before a Clear relinks it into the
  emptied list (`Init` leaves the owner of the old elements set) and leaves `Back()` at
  the sentinel; when the cache is full again `evictOne` asserts the nil value of the
  sentinel and panics in a query goroutine that nothing recovers (`SetPanic`;
  "缓存满时淘汰最近最少使用的条目（使用 container/list 实现）", KG:79).
- `api.go:295`: of two concurrent PATCHes the one with the older copy may install
  last, and the resolver keeps working with it ("PATCH 配置时，内核保证原子性", AP:1365; `overtaken`).
- `rules.go:77`: two concurrent POST /rules get the same ID, and the next reordering
  drops one of the two rules ("规则 ID 格式为 `rule_XXX`，由内核自动生成", AP:1369).
- `cache.go:78`: an expired entry is deleted by key; of two Gets that found it,
  the second deletes what a Set stored in between and leaves its element in the
  list, so an eviction can be spent on an orphan and the map can outgrow
  `max_size` ("缓存满时淘汰最近最少使用的条目", KG:79).
- `cache.go:158`: a hit overtaken by Clear puts a cleared entry back into the
  listing of `GET /dns/cache` ("清空全部", KG:70).
- `cache.go:69`: lazy mode serves expired entries and nothing refreshes them
  ("后台异步刷新", KG:77).
- `breaker.go:78`: the half-open state admits every request ("半开，放行一次探针请求",
  `breaker.go:13`, `src/CHANGELOG.md:33`).
- `config.go:240`: of two concurrent PATCHes the older bytes may be written last
  ("内核保证原子性", AP:1365).
- `config.go:279`: a PATCH that is answered 400 has decoded its other fields into
  the running configuration ("内核会自动校验配置合法性", AP:329).
- `api.go:431`: two concurrent POST /rules, or a PUT, make rules with the same
  type and domain ("规则重复", AP:1176).
- `rules.go:118`: an update whose pattern does not compile is answered 404 and
  has changed the rule (AP:1175).
- `api.go:426`: a rule of an unknown type is accepted, is the first match and
  decides nothing, so block rules behind it are not consulted ("规则类型不合法", AP:1173).
- `resolver.go:337`: a failed query is counted as `timeout` and as `failed`
  (AP:397-401 shows a partition).
- `resolver.go:352`: an answer asked for before a change is stored after
  `DELETE /dns/cache` (AP:1367).
- `client.go:234`: a concurrency of 0 asks nobody and every query fails; QueryGroup
  waits for every server it asked, so a silent one delays the fastest answer to its
  timeout.
- `client.go:153`: every PATCH or reload gives every upstream a new breaker and new
  statistics, and addresses that left the configuration are still probed by
  GET /status (`RemoveUpstream` has no caller).
- `updater.go:304`: overlapping updates of one target share the `.tmp` file; an empty
  or mixed file can be put in force and reported as a success (`overlapped`).
- `log.go:202`: an Unsubscribe while `flushLoop` delivers closes a channel it is about
  to use, and the process panics; or it shifts the shared array, so that an entry
  skips a stream or reaches it twice (`disturbed`).
- `log.go:146`: the error of the rename is ignored. The file is opened again at its full
  size, and as long as the rename fails it grows by every line that is written (`unmoved`),
  whatever `max_size` says.
- `log.go:289`: whoever logs after Close panics on the closed channel.
- `main.go:208`: after POST /restart two writers have the log file open; when one
  rotates it the other goes on writing to the backup (`split`).
- `server.go:117`: Start does not renew `stopCh`, so the first stop after a
  POST /restart, be it a second restart or SIGTERM, panics.
- `server.go:109`: a Stop that comes before the listener is bound leaves a listener
  nobody can stop.
- `updater.go:85`: two goroutines in Reconfigure, Start or Stop: a nil pointer is used,
  or two schedules run (`raced`).
- `config.go:229`, `:240`: the file is cut before it is written. A kill in between leaves
  it empty, and the next start runs with the defaults and a new secret, or torn, and
  it runs with no secret and so an open API. A reload or restart that reads the file in
  this moment loses the settings without any crash; and a PATCH that a Load overtakes
  is answered 200 and gone (`disturbed`).
- `config.go:197`: while there is no file, every start makes up another secret.

## 5. Proofs

`DNSCacheProofs`: for all finite or infinite sets of keys, clients and elements,
any cache size, lazy or not, and any number of Clears,

- `CacheKeyIntegrity`: the element under a key holds an entry of that key;
- `CacheRightAnswer`: the entry Get reads without the lock is for the key asked;
- `CacheClearIsEffective`: a Get that starts after a Clear serves nothing older.

None is inductive by itself. While a client stands between its lock sections it
holds an element others may change, so the inductive invariant `IInv` adds
`HeldElement` (the held element has an entry of the key asked, not older than
the lookup) and `MappedIsCurrent` (the map holds only entries stored since the
last Clear: that is why the lookup finds nothing older). The steps that could
disturb it are Set, which writes into an element a client may hold, where key
integrity gives the same key, and the allocation of an element, where `Free`
gives one nobody holds. For these the shape of the list does not matter, only that
the list operations map pointers to pointers (`ListOps`): they hold on corrupted
lists. They use `ListConstants`, `CacheConstants` and `NilIsNoEntry`.

Two further invariants are about the shape of the list. `Traced` holds in every mode:
each element of the list that the map or a client still refers to is one of a set that
the pointers do not leave but for the sentinel, and on which `prev` undoes `next` and a
rank falls from element to element, also after a Clear has cut them off (`Live`). So

- `CacheListingTerminates` (finitely many elements): the walk of `Entries` meets no element twice.

`InOrder` gives every element of the map its place in one ring around the sentinel, in
the order of their last use. It holds in lazy mode and until a Clear runs: without
lazy mode the late deletion of an expired entry deletes by key (`cache.go:78`), and
Clear leaves elements with an owner (`cache.go:245`), and both break the ring
(section 4). Under these conditions

- `CacheListMatchesMap`: the list is one proper ring of exactly the elements of the map;
- `CacheHitIsMostRecent`: a hit leaves its element at the front, unless it was evicted
  since the lookup;
- `CacheImplementsLRU`: every step of the cache is a step of `LRUCache` or leaves the
  order alone, with the order read off the ring as refinement mapping. It needs
  `maxSize >= 1` (a cache of size 0 evicts nobody and stores anyway).

`BreakerAndRulesProofs` has two small components. It extends both their modules, which is why
the initial states, steps and specification of `RuleEngine` have names of their own
(`EngineInit`, `EngineNext`, `EngineSpec`). For every threshold and cooldown of at least 1 and
every set of requests,

- `BreakerClosedBelowThreshold`, `BreakerTripAccounting`, and the step property
  `BreakerOpenUntilCooled`.

`IInv` says that the record is `Sound` between critical sections;
`SectionsAreSound` shows it per critical section from any sound record, and the
theorem about requests only needs that every step is one of these sections.
Assumptions: `BreakerConstants`, `UpstreamConstants`.

For all types, patterns and names, and any number of requests, rules and listed IDs
(`RuleConstants`),

- `RulesTypeOK`, `RulesMatchTheirDomain`, and the step property `RulesLeaveOnPurpose`.

`EngineInv` adds that no rule is listed twice, that a request about to append has a pattern
that compiles and an ID given out before (`Serving`), and that what a rule was compiled from is
its domain unless that is malformed. `ChosenIs` says what Reorder picks from a list: it
follows the fold as a table (`ChosenTable`), the first wrong entry of which would have a right one
before it.

`GeoUpdateProofs`: for all sets of goroutines, targets and sources, bodies of any number
of chunks, any length of the history and any number of crashes (`GeoUpdateConstants`),

- `GeoTypeOK`, `GeoWholeDownload`, `GeoRestartAgrees`, `GeoHonestHistory`, `GeoCleanEnd`.

`IInv` says where each chunk is. `AllInPlace` and `WholeFiles`: as long as the updates of a
target did not overlap, the `.tmp` file of the one at work holds exactly the chunks it has
copied, all from one source, so that what a rename puts in place is whole. `Apart`:
without an overlap only one goroutine works on a target, and a descriptor leads to the
file its place in the code says. `Attended`: a progress that shows and a `.tmp` file that
lies there have an update that will clear them away. `EntryIsTrue` ties the newest entry
of the history to the data in force, also while the next update is under way.

`LoggerProofs`: for any number of streams, entries and writers and every capacity of the
queue, the channels and the file (`LoggerConstants`),

- `LoggerTypeOK`, `LoggerAccounted`, `LoggerOfferedOnce`, `LoggerPanicNeedsRace`,
  `LoggerKeepsNewest`.

`InOrder`: console, the entry in flushLoop's hand and the queue together are all accepted
entries in order. `Listed`: the live part of the array is the streams that are on, each
once. `Steady`: as long as nobody unsubscribed, the view of flushLoop, shared with the
array or not, holds the members it started with, open, each once, and those already
visited are the ones that were offered the entry. `Opens`, `Near` and `Newest`: which
descriptors lead to the log file, and that one nobody has open, which could be neither
renamed nor opened, is full; how far the file is ahead of the size its writer
believes in (one line at most, and only while an entry for the writer before a restart is in hand);
and that backup and file are the end of what was written. A rename that fails adds one line to
the bound, one that works takes them all away (`unmoved`). The proof gave the exact bound of
the file, which the model-checked property had left loose.

`ResolverProofs`: for all domains, configurations, Geo data, ad lists and rulings, and any
number of queries, lookups and changes (`ResolverConstants`),

- `ResolverTypeOK`, `ResolverDecided`, `ResolverActionsAddUp`, `ResolverLeakNeedsGap`.

`OnCourse` says of a query that nothing has overtaken what the stages behind it have
found out, and that they would find the same now (`Undecided`), so that the stage that
decides agrees with the decision table or is one of the two exceptions of `Decided`. `Begun` keeps the number of changes a query has
seen below the current one. For the counters, `Routable` says that a query that has been
decided carries one of the actions counted, and `SumIs` what the sum over the record of
counters is. For `LeakNeedsGap`, `Watched` says that protection is in force unless `gap`
names the last change, and `Covered` what a query has read if protection was never
interrupted since it began: protected configurations only and, between the two looks,
Geo data of both kinds. A stage that reads the configuration or the Geo data finds them
protected by `Watched`, the others keep what the query has (`StaysCovered`).

`LifecycleProofs`: for all sets of requests, versions that disable the server or the
schedule, and any number of starts and crashes (`LifecycleConstants`: the kinds of
requests are disjoint, the defaults are disabled),

- `LifecycleTypeOK`, `LifecyclePanicExplained`, `LifecycleAcceptedKept`,
  `LifecycleScheduledOnce`, and the step property `LifecycleAccessKept`.

`Control` relates a position in a handler to who holds `m.mu` (`LockHeld`), who has bytes
to write (`InHand`) and what a dead process leaves (`Down`). `Restarted` and `StopOnce`
explain a closed `stopCh`, `HasCron` says that without a race nobody is about to use a
nil cron, `Secured` that no request is served before main has read the file. `Undisturbed` holds as long as no change was disturbed:
the file is readable, it is empty exactly while someone writes, whoever changes something
is alone, and what is in force, in a hand or in the file is what was accepted last. A
handler is a sequence of elements; the lemmas `MainAt`, `RestartAt`, `PatchAt`, `ReloadAt` and
`Where` say once which element is at which position, and `AsideKeeps` settles all
steps that touch neither the configuration nor the file together. `ScheduleKept`: even
with a race, whoever takes the schedule away is followed by one who makes it again
(`Renewed`, `Lasting`); without one, a single goroutine is between two uses of `u.cron`, and
no other cron object runs (`Orderly`).

`UpstreamsProofs`: for all finite sets of addresses and of calls of QueryGroup, every
concurrency, threshold, cooldown and size of the ring, and any number of configuration
changes (`UpstreamsConstants`, `BreakerConstants`),

- `UpstreamsTypeOK`, `UpstreamsOwnRequests`, `UpstreamsReportIncludesProbe`,
  `UpstreamsFastestAnswer`, `UpstreamsWindowStatistics`.

The counters of an object are cardinalities of sets of calls (`Counted`); a step moves one
call, which enters at most one more of the sets (`CountGrows`) or none (`CountStaysOnly`).
For that `Standing` ties what a call knows to how far it is, and `NotYet` says that no
call is made twice. `Sobers`: a breaker's run of failures is never longer than what its
object has counted, and only failures enough for the threshold make it trip. `Probing`:
while GET /status has the read lock the upstream it probes is not replaced, so that its
probe and its snapshot are of one object, and a probe that was answered is one of the
successes the snapshot reads (`CountBounds`). `Reports` follows a report through its two
halves; what is recorded between them is what `late` counts.

`Heard` relates the results QueryGroup has collected to the calls that were made, and
`FoldIs` gives the best result as a table of the best of the first i. That the function
a fold defines by recursion exists is shown from the least size of a set for which it
would not.

`Window` gives every place of the ring the sample that lies there: all of them until the
ring is full, then the newest before `latIdx` and the oldest that are left from there on.
The ring is therefore its newest samples, turned (`TurnedBag`). Sorting needs no induction:
the place of a value in the order, equal values staying in theirs, is a permutation
(`OrderExists`); there is one ascending sequence only with the same values
(`AscendingUnique`), and the values it has up to x are its first ones (`AscendingRank`),
which is what a nearest rank asks for (`PercentileIs`).

`HotReloadProofs`: for any number of PATCHes, reloads, status requests and queries, any
number of upstreams and a disk that fails at any time (`HotReloadConstants`),

- `HotReloadAppliedWhenQuiet`.

The inductive invariant `Reaches` is `Shape` (types) and two more parts. `Guarded`: whoever is
between the Lock and the Unlock of `m.mu` owns it. `Delivered`: unless a change was rejected
or overtaken, what anybody is going to install is what `m.config` says, and the resolver has
that too or somebody who changed `m.config` is still to install it. A handler contains a loop over the upstreams, so that its length is not a
number: `Joined` and the lemmas built on it say which element is where for any number.

Where a theorem excepts a race (`overlapped`, `disturbed`, `raced`, `split`), so does the
property the run checks; the exceptions are the observations of section 4.

Model-checked only are the liveness properties (`OpenIsProbed`, `Recovers`,
`EveryoneReturns`, `EveryGroupReturns`, `EveryUpdateEnds`, `CloseReturns`,
`BackInService`): fairness is beyond the prover.

## 6. Plan

The models are complete along the order planned at first: cache, breaker, hot reload,
rules, resolver, upstreams and statistics, Geo updates, logger, lifecycle with the
configuration file. Every safety property of the passing runs has its theorem; what is left
to TLC is in section 5.

## 7. Not modelled

The transports (UDP, TCP, DoT, DoH) beyond how they end, message formats and TTL
arithmetic, truncation of UDP answers, parsing of Geo files (the protobuf decoders can
panic on a length that does not fit; `GeoUpdate` has a file load or not) and of time zones, the
status fields of Geo data, paging and formatting of the API, authentication beyond the
secret, and the LuCI interface (presentation): pure data or I/O. The query log of the
resolver (`emitLog`, its history of 200 and its stream) is not modelled either: unlike
the logger it holds its lock while it sends, and nothing else depends on it. A group that
lists a server twice is outside `Upstreams`, whose calls of one QueryGroup are told apart by
their address. A PATCH of
the secret, of addresses to listen on and of an invalid cron expression are left out
of `Lifecycle`; a disk that fails is in `HotReload`, not in `Lifecycle`.
