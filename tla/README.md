# A TLA+ development of ksbh

ksbh is a reverse proxy on pingora. Its configuration comes from a file or
from Kubernetes; requests are routed by host and path, run through a chain of
modules (shared libraries behind a C ABI) and go to a backend. Modules keep
per-session values and a per-session score in a store that lives in memory and
in Redis. This directory models the parts of it that are hard to test: code
that runs on several threads, holds locks, awaits, fails half way, or publishes
its state piece by piece.

Paths below are relative to `src/crates/`. The repository has no tests; its
documentation is `src/README.md` and comments in the code.

## 1. Inventory

| Component | State | Operations | What is hard | What makes it correct |
|---|---|---|---|---|
| Session store, `ksbh-core/src/storage/redis_hashmap.rs` | `container` (scc::HashMap, one lock per bucket), Redis, the list of the watch task | reads (`get_sync`, `get_hot*`, `get_cold`, `get_hot_or_cold_sync`), `set_sync`, `set_with_ttl_sync`, `*_redis_sync`, `remove*`, `watch` | entries that lock their bucket, reads that then write, two stores that are changed one after the other, restarts, failing commands | no value without a call that set it; expired values go to Redis; calls return |
| Host functions, `ksbh-core/src/modules/abi/host_functions.rs` | none of their own | `session_get/set/set_with_ttl/free`, `good_boy`, `get_score` | half-done calls (memory set, Redis not), read-modify-write | as the store and the score |
| Module host, `.../abi/module_host.rs` | `modules`: type to loaded library | `load_module`, `call_module` | an entry owned across an await | calls return; a reply stops the chain |
| Proxy service, `ksbh-core/src/proxy/`, `ksbh-bin/src/proxy/mod.rs` | a context per request | `request_filter`, `upstream_peer`, `upstream_request_filter`, `response_filter`, `logging` | tasks on few threads, early stops, failing writes | a backend sees a request only after its whole chain |
| Metrics, `ksbh-core/src/metrics/mod.rs`, `ksbh-bin/src/services/metrics/mod.rs` | a bounded channel, a score per session in the session store | `log_request`, `good_boy`, `get_score` | full channel, lost updates, saturation | every answer counts once |
| Rate limit, proof of work, OIDC: `ksbh-modules/` | values in the store, the provider's metadata | `process` | flows of one session that overlap, late and repeated requests, values that outlive their time | a limit ends; who passes has logged in or solved a challenge; a login leads where it was started |
| Router, `ksbh-core/src/routing/router.rs` | entries per host, two registries of modules, the modules of each ingress | `upsert_module`, `delete_module_config`, `insert_ingress`, `delete_ingress`, `reload_ingresses`, `find_route` | host-by-host publication, copies of chains that go stale | deleted ingresses leave nothing; nobody else's route changes; chains become current |
| Path matching, `routing/hosts.rs` | three tables | `HostPaths::find` | precedence, prefix boundaries | the most specific rule wins |
| Certificates, `ksbh-core/src/certs.rs`, `ksbh-bin/src/tls/mod.rs` | `certs`, `certs_domains` | `add_cert`, `delete_cert` (no caller), `get_cert`, the TLS callback | maps changed name by name, by several tasks | a name gets a certificate for it, also while it is exchanged |
| Kubernetes provider, `ksbh-config-providers/kubernetes/src/` | copies of the cluster's objects, references from secrets and services to what uses them | reconciliations of ingresses and modules, finalizers, watches | retries, partial failures, changes at any moment | nothing is left behind; the router converges to the cluster |
| File provider, `ksbh-config-providers/file/src/lib.rs` | the events it has yet to take | `load_and_apply_config`, `watch_config_file` | changes during a load, half-written files, a full channel | what the file holds comes into force |
| Static files, `ksbh-bin/src/apps/static_content/` | a cache of mapped files | `render_static_file`, `FileCache::get` | a look at the file before the lock, its opening after it | nobody gets an older file than was there |
| The rest: redirect and robots modules, cookies, configuration, HTTP types, SDK, process | | | pure or start-up code | |

How they interact: the provider is the one writer of the router and the
certificates and runs on a service with one thread (the reconciliations of
different objects overlap at their awaits). Requests are tasks of the
proxy's runtime and read the router, call modules synchronously through the
ABI, and send a record of each answer through a channel to the metrics service.
Modules call back into the session store, one `RedisHashMap` for their values and for
the scores (`ksbh-bin/src/server.rs:8-20`), which all threads share; its watch task runs
every hour.

Everything in the list above that can go wrong in a way a test would hardly
reach is listed with its line under `hazards` in `PROJECT.json`.

## 2. Modules

| Module | Models |
|---|---|
| `SessionPromise` | what the store promises whatever its threads, Redis and restarts do |
| `SessionStore`, `SessionStore_proofs` | the store and its watch task; implements `SessionPromise` |
| `ProxyRequests`, `ProxyRequests_proofs` | the life of requests: threads, chain, module entries, answers, metrics channel |
| `SessionScore`, `SessionScore_proofs` | the score of a session: counted, credited, compared with the limit |
| `PathMatch` | the paths of a host and the search among them |
| `Router`, `Router_proofs` | the router, its writer and what a request reads at any moment; extends `PathMatch` |
| `FileProvider`, `FileProvider_proofs` | the file provider over `Router`, which it extends and drives |
| `Certs` | the registry of certificates |
| `KubeProvider`, `KubeProvider_proofs` | the controllers of modules and ingresses over `Certs`, which it extends and drives |
| `ModuleSession` | the session store as one module sees it, with its two ttls |
| `OidcLogin` | the login flow over `ModuleSession` |
| `ProofOfWork` | the challenge over `ModuleSession` |
| `Login`, `Login_proofs` | `OidcLogin` and `ProofOfWork` over one store |
| `StaticFiles`, `StaticFiles_proofs` | requests for static files and their cache |
| `MC...` | constants for TLC |

In each module every constant is named after the thing in the code it stands for, the
assumptions on the constants are named (two modules state apart that `None`, the code's
`Option::None`, is not one of the things that may be there), and each mutant that
`PROJECT.json` names is an operator in front of the definition it replaces, marked
`mutant`. Mutants are used by nothing in the specifications.

### SessionStore

`container` and `redis` map a key to a value and the number of clock ticks it
has left; `Tick` lets time pass. Each access to one of the two is a step, so
the calls of different threads interleave exactly where the code releases its
locks: `host_session_set` is `BeginSet`, `SetSync` (memory), `SetRedis`;
`host_session_get` is `BeginRead`, `ReadSync`, perhaps `Remove`, `GetRedis`,
`Fill`. `bucket_lock` is the `OccupiedEntry` that `get_sync` returns: `scc`
locks the bucket as long as the entry lives. `get_sync` and `get_hot_sync`
still own the entry when they call `remove_sync`; `get_hot` and `get_cold` have
dropped it. That difference is the difference between `ReadSync` and
`ReadAsync`. `watch` is `WatchTick`, `WatchSweep` (one bucket of `retain_sync`)
and `WatchStore` (one `SETEX`). Every Redis command may fail (`RedisMayFail`),
and `Restart` replaces the process at any moment.

The scores are in the same map, under keys of their own, and reached by the same calls.
The hash counters (`incr_hash_*`) have no caller and are left out.

`SessionPromise` is weak where the code is. It permits that a read returns an older value
than was set, that a `SETEX` or a removal comes late, and that a set call answers false
though later reads return its value. `SweepKeepsValues` permits that a pair is lost with
a `SETEX` that fails. Nothing in the source says that these do not happen; what the
modules make of them is the matter of `ModuleSession` and the modules over it.

### ProxyRequests

A request is a task that runs only on one of `NumWorkers` threads (`running`). Where the
code awaits, the step ends with `Suspend`; `Schedule` gives the task a thread again.
Waiting for the entry of a module (`get_sync` in `call_module`) blocks the thread:
`GetModule` is simply disabled and the request stays in `running`. The entry lives until
`call_module` returns, hence across the await of `write_response`; `module_lock` says
who owns it. `Reject` is every early return of `_request_filter`; the wrapper compares
the result with `ModuleReplied` only and nothing assigns `ctx.proxy_decision`, so
`Reject` ends at the page of 404, whatever its code was and although `upstream_peer` has
a branch for the decision (`ksbh-core/src/proxy/service.rs:94`). `Log`, `Send` and
`LogRequest` are the channel and its consumer.

A call of the store may never return (`SessionStore`, `WedgeForEver`), and the two
places of this module that make one have that outcome: the filter of a module that reads
sessions or scores (`Stateful`), which then keeps its thread and the module's entry
(`wedged`), and `log_request`, which ends the consumer (`metrics_service`). `Halted` lists
what can then keep a request from its end: it is in such a call; it waits for the entry
of such a call; it waits for a place in a full channel that nobody empties; or all threads
are taken (`Exhausted`), by such calls or by requests that wait for an owner which has no
thread to finish its write. `FinishesUnlessHalted` says that there is no other way (for
the states in which nothing can move, the theorem `NoOtherHalt`), and `HaltIsPermanent`
that there is none back. That a module stops a request and the failed
write of its answer lets the request go on, to later modules and the backend, is what
`WriteResponse` says and `ChainRespected` permits: the code asks
`session.response_written()` only.

What a module computes, headers, cookies and bodies are not modelled: a module
replies, passes, or fails.

### SessionScore

Three parts of the program change or read the score of a session: the consumer
of the metrics channel (`LogRequestRead`, `LogRequestWrite`), the credit for a
solved challenge (`GoodBoyRead`, `GoodBoyWrite`) and the rate limit (`RateLimit`).
The first two read, compute and write back, and the store locks only the read
and the write, so these are steps of their own. `Solve` may not start while
another credit is under way: `call_module` owns the entry of the proof-of-work
module during the call. The consumer takes one record after the other (`Recv`).

The score is a `u64`; `MaxScore` stands for its largest value and the two
saturating operations are what the code calls. A score is read from memory only,
so what the watch task takes out (`Sweep`) is gone for the program, and a restart
is the initial state. `Hang` is the read of an expired entry that waits for
itself (see `SessionStore`); here it only takes the session out of play. What it
does to other sessions, by the module entry that stays owned or by the consumer that
stops, is in `ProxyRequests`. `logged` and `past` are history variables: the sum of what was added,
saturated as the score is, and whether a credit or an expiry has happened.

### Router and PathMatch

The provider's operations never overlap (one thread, no await), so `writer`
holds the one that runs. An operation that changes several hosts does so host by
host (`InsertHost`, `ReloadHost`, `DeleteFromHost`), and `find_route` (`Answer`)
is a function of the state at any moment between two of these steps, because
requests read from other threads. A scan of a registry visits names in the
order `HashOrder`: one order, fixed in an instance. The code's order is that of
a hash map and may change when the map grows; it only decides between global
modules of equal weight.

`PathMatch` has `HostPaths::find` and the trimming of the request path on
sequences of characters, as the code compares them, and beside it `Owed`: the
same question answered by the ancestors of a path and by ranks.
`AnswersAreOwed` compares the two over what the operations leave of a host.

Modules run by the weight of their type and, among equal weights, in the order
the ingress names them (`ChainIsCurrent`, which says what a reload brings up to date).
The comment in `ksbh-core/src/proxy/mod.rs:8-10` promises another order, that of the
configuration whatever the types ("a->b->c->backend"): code and comment disagree where an
ingress names a lighter module first, which `ReloadIsComplete` covers with two weights.

### FileProvider

`Read` is the reading and parsing of the file: what it holds is a configuration,
something broken, or nothing. `Apply` calls the router for one module or
ingress after the other, through `Router`'s own actions; `Loaded` returns to the
loop. `watch_config_file` watches the file and not its name: writing in place
(`Save`) is told, and `Exchange` (an editor that renames, a deletion) is told
once at most and ends the watch. The events go through the watcher's thread and
a channel with `Capacity` places (`Deliver`, `Receive`). `unheard` and `previous`
are history variables: whether a change was made that no load follows, and what
the load before the last one parsed.

### Certs

`add_cert` is `RecordCert`, then one `Publish` for every name and every wildcard,
with awaits between them; the caller's task keeps the names still to enter.
`get_cert` is one look at both maps: by name, by the name without its first
label, then a scan that meets the certificates in any order, so its result
is a set. The steps of a lookup are not interleaved with writes. Names are opaque;
`Parent`, `Suffixes` and `NameLen` say what the code finds out by cutting
strings. `delete_cert` is left out: nothing calls it.

### KubeProvider

`cluster` and `data` are what the API server holds. They are changed from outside at
any moment, and the server may be out of reach. `store` is the controller's copy
(`Observe`); `due` when an object is reconciled next; `task` the reconciliation
of each object, cut at its awaits (`finalize`, `get`, `upsert`, ... are the
places); `events` what the watches of secrets and services have yet to
tell; `refs` whom they wake (`secret_refs` and `services_refs`). The framework
keeps one place per object in its queue and runs one reconciliation per object.
That a change wakes an object that is being reconciled is `due` while `task` is
busy; `Requeue` takes the earlier of two times.

Of the router this module keeps what the provider caused: `registry`, what
`upsert_module` was called with, and `route`, what the first entry with a path
resolves to, as the first entry answers (`Router` has the tables). An ingress
has one rule, one TLS secret and one service at most. `BeginIngressDeletion`
takes the routes of its namesakes with it, as `delete_ingress` goes by the name
without its namespace. An earlier process leaves finalizers behind and nothing
else, which is what `Init` begins with.

### ModuleSession

For a module a call of the store is one step: the calls of one module exclude
each other (`LockInv` of `ProxyRequests`), and what threads can do to one key
is the matter of `SessionStore`. What is kept is what a module can notice: a
read of a value that has expired in memory never returns (`LoadWedges`), and the
watch task may have moved it to Redis just before, for `RedisTtl`, from where a
read brings it back into memory for `StoreTtl`. So a value outlives the ttl it
was set with, and the module has to look at the time it wrote into it. It may also go
early: the host cuts every ttl at a day (`Clamped`, `MAX_TTL_SECS`), a negative one, which
has become a large `u64`, too.

### OidcLogin

`process` from call to call: load the session, then pass, refresh, start a login,
or take a callback; every exchange with the provider is a step of its own and may
fail after the provider has acted. The state, the nonce and the verifier of a flow are
drawn together and stand for each other: here they are the number of the
flow. The browser may repeat, mix and delay what it sends, and bring the callback of one
session with another. `session_ttl_seconds` is any `i64` (`SessionTtl`), as long as the sum
with a time does not overflow; a login of a longer ttl than a day lasts the day
(`LoginLasts`). `granted`, `started`
and `login` are history: when the provider granted tokens, the logins started, the
logins completed in this process.

Three things the model shows that its properties do not judge. A refresh happens only
when the watch task has moved the expired login to Redis before the next request reads
it, and the refreshed request gets an empty 200 instead of its page
(`ksbh-modules/oidc/src/lib.rs:451`). A callback that arrives after the login has
expired is not taken for one (line 462): its own uri becomes the page of a new login.
And where `session_ttl_seconds` is set below the five minutes of a flow, a repeated
callback of the newest flow is refused once its login has left memory
(`NewestFlowCompletes` is about larger values, see section 4).

### ProofOfWork

A page shows a challenge and a difficulty that follows the score; the
verification takes the base difficulty. A hash is its number of leading zeros. A nonce
is 0 or another one: the verification takes 0 for a field that is missing or cannot be
read (`Filled`), but the page tries it first, so that what it has solved may be refused.
`OnlyZeroIsRefused` says that this is so, and the only such case. That
a page which cannot be built lets the request pass (lines 116-119 and 128-131) is left
out: template and header are fixed.
The score is changed by others at any moment (`ScoreChanges` stands for
`SessionScore`). `challenges` and `solved` are history: the pages sent, and when a
solution was stored.

### StaticFiles

A request looks at the file (`Look`: time and length), waits for the lock of the
cache, and takes the entry with that time (`Hit`) or opens and maps the file as it is
then (`Miss`). Versions are numbered, and the number stands for the time of
modification: files are replaced by others, and a time does not come back. An
entry may describe one version and map another, so it holds both. The body is written
chunk by chunk, and a slice that is out of range ends the task. A matching
`if-none-match` is answered with 401 (line 172; HTTP has 304 for it). What a
compressor makes of the chunks is left out, as are the other pages, which are
fixed answers.

## 3. What the runs check

| Run | Checks | Shows |
|---|---|---|
| `store_buckets` | `TypeOK`, `WedgeInv`, `WedgeIsPermanent`, `SweepKeepsValues`, `KeepsPromise` | a bucket is locked between steps exactly by a reader that found its entry expired and waits for itself; it and everything under it stays so until a restart; the watch task takes only expired values and drops one only with a failed command; the store implements `SessionPromise` with every operation of the library, its ttls, failures and restarts |
| `store_progress` | `CallsReturn`, `ExpiredLeaveMemory` | calls return and expired entries leave memory unless a bucket is lost |
| `store_flush` | `StoredAfterExpiry`, violated | without that "unless" it is false: one read of an expired session ends the flushing of the whole store |
| `proxy_chain` | `TypeOK`, `LockInv`, `ChainRespected`, `HaltIsPermanent`, `FinishesUnlessHalted`, `AnswersAreRecorded` | who owns a module's entry and when; a backend is reached only after the whole chain, a stopped request never reaches one; the ways in which a request can be kept from its end, that each is final, and that otherwise every request ends and every answer is counted |
| `score_races` | `TypeOK`, `NoOvercount`, `ExactUnlessCredited`, `FallsByCreditOnly` | although reads and writes interleave, no answer counts twice, answers are lost only through a credit or an expiry, and a score falls only where a credit is written |
| `score_limit` | `LimitIsLifted`, violated | a client that comes back after a 429 as the reply tells it is turned away for ever |
| `router_routes` | `TypeOK`, `NoOrphanRoutes`, `AnswersAreOwed`, `RoutesChangeOnPurpose`, `ReloadIsComplete` | a deleted ingress leaves no route; a path gets the rule it deserves; operations change only the answers they are about, at every moment; a reload leaves no stale chain |
| `router_update` | `UpdateTakesEffect`, violated | an ingress inserted again keeps answering with its former backends |
| `file` | `FileComesIntoForce`, `SecondLoadRepairs` | which changes of the file come into force, however events pile up and however broken the file was in between; a load leaves stale the chains of ingresses it changed, and the next load of the same file repairs them |
| `kube` | `KubeTypeOK`, `NoOrphan`, `NotSleptThrough`, `HandshakesCovered`, `DeletionsComplete`, `ModulesConverge`, `RoutesConverge`, `CertsConverge` | nothing is left behind; a module never sleeps through a change of its secret; handshakes are answered while certificates are exchanged; deletions complete, and what the router and the registry hold follows the cluster, also where no watch wakes anybody (by the resync) |
| `login` | `LoginTypeOK`, `PassesWereGranted`, `LoginLasts`, `NewestFlowCompletes`, `PassesAreEarned`, `OnlyZeroIsRefused` | nobody passes by a value that outlived its time; a login lasts although Redis fails, for its ttl or the day of the host; the flow started last can complete; a challenge solved as it was shown is refused for the nonce 0, and for nothing else |
| `files` | `AnswersAreFresh`, `AbortsOnlyAcrossReplacement` | nobody gets an older file than was there when he came; an answer breaks off only if the file became shorter between the look and the opening |

The three violated properties are what a comment or a message of the program
says; `findings` in `PROJECT.json` quotes each. Two further findings are shown by
properties that hold of the code and contradict what the repository says elsewhere: the
order of the modules (`ReloadIsComplete`) and the refusal of what the page has solved with
nonce 0 (`OnlyZeroIsRefused`).

### Bounds

* Store: two threads and two keys in two buckets. A lost bucket needs
  one key and one thread; a race needs two threads; a bucket that stops the
  sweep of another key needs two buckets. Ttls of one or two ticks put expiry
  before, between and after any two steps; ttl 0 is the one Redis refuses.
  There is one value: what comes to a wrong key or comes back after its last copy
  is lost is seen with one, and the theorem covers the others, and any buckets.
* Proxy: three requests on two threads: one may be blocked while another is
  suspended, which is the least in which the threads can be exhausted without a call
  that is lost in the store (theorem `ExhaustionTakesMore`). One of the modules is
  `Stateful`, so that a halt of either kind can be reached beside the other.
  A channel of one place, so that it is full while others want it. Two
  loaded modules in opposite order and one that is not loaded.
* Score: one session, because sessions meet only in the channel and in a lost
  bucket; two requests of it, so that an answer, a credit and the consumer are
  under way together and a second credit can be tried. `MaxScore` = 6 lets a few
  answers pass the threshold, saturate, and a credit cut at zero; an answer
  costs 1, a refused one 2; one tick of ttl, a channel of one place.
  `score_limit` has one request, no challenges and no expiry: each record renews
  the ttl, so a client that comes back every minute never sees its score expire.
* Router: two hosts, so that an operation is half published; two ingresses that
  share a host; `MaxEntries` = 2 entries per host, the one bound that is not in
  the code: an ingress can be inserted twice or two ingresses once, which is
  when first-match and deletion become interesting. Two modules of two weights.
  Rules for `/`, `/a`, `/a/` and `/ab`, and requests with and without a slash at
  their end, with a segment that continues another, and with slashes only.
* File provider: one host, and four contents of the file that differ in what an
  ingress names, in where a module is registered and in which ingresses there are;
  a channel of one place, so that events are held back; three changes, enough
  for one during the first load, one during a reload and one that repairs;
  `MaxEntries` = 8, more than these loads append.
* Kubernetes: small groups of objects (one module and its secret; one ingress and its
  service, or its TLS secret; two modules with one secret; two ingresses with one TLS
  secret; two of one name), each with one to three changes from outside:
  what objects can do to each other goes through a shared dependency, a name or
  the registry, and each group has one of these. Two certificates, of which one
  adds a wildcard, and three names. An instance begins with new objects or with
  objects on which an earlier process left its finalizers.
* Login: one session, as sessions share nothing in the store (the theorems are for any
  number); two logins or two challenges. The day is two ticks: for so long the store keeps
  a value, the host keeps what a module saves, and a solution is good. Redis keeps what
  the watch task stores for four, `session_ttl_seconds` is three, longer than the host
  allows, a flow and a challenge last one, and time runs to three.
* Static files: one file with three versions, long, short and long again, the
  outer two with one ETag; two requests, of which one may enter what it saw between
  the look and the lock of the other; ranges within a version, within the longer
  ones only, and past all; a file is written in two chunks.

Deadlock is checked except in `ProxyRequests`, where the system stops when all
requests are done or halted; in `FileProvider`,
where the provider may be stopped and otherwise waits for the next event; and in
`KubeProvider`, whose cluster may be empty.

### Fairness

* `SessionStore!Fairness`: threads and the watch task run. `WatchTick` stands for
  an interval at whose end a connection to Redis is there, so its fairness
  assumes that Redis is reachable again eventually; commands may still fail for
  ever. Nothing is assumed of callers, of time or of restarts.
* `ProxyRequests!Fairness`: the runtime gives a suspended task a thread when one
  is free, and running tasks step: clients and upstreams answer or disconnect, and
  modules and `log_request` return or are lost in the store. A task that blocks in
  `get_sync`, or is lost, is not helped by it, its step is not enabled. `scc` serves the waiters of a bucket in
  turn, and an instance has finitely many requests.
* `SessionScore!FairSpec`: requests under way and the consumer step, and the
  client comes back (`Arrive`). Nothing is assumed of challenges or of time.
* `FileProvider!ProviderSpec`: the provider's service and the watcher's thread run
  (`ProviderStep`, `Deliver`). Nobody has to change the file.
* `KubeProvider!FairSpec`: reconciliations step and timers expire (`Run`), watches
  deliver (`Observe`, `Notify`) and an outage of the API server ends (`Recover`).
  Nothing is assumed of changes in the cluster; they are bounded, so the
  convergence properties say what happens after the last one.
* `Router`, `OidcLogin`, `ProofOfWork` and `StaticFiles` assume none.

## 4. What is proved

`SessionStore_proofs` proves, for all keys, values, threads, buckets, ttls and
both environment switches, under `SessionStoreAssumption` alone:

| Theorem | States |
|---|---|
| `TypeCorrect` | `Spec => []TypeOK` |
| `WedgeCharacterised` | `Spec => []WedgeInv` |
| `WedgeForEver` | `Spec => WedgeIsPermanent` |
| `SweepsKeepValues` | `Spec => SweepKeepsValues` |
| `StoreKeepsPromise` | `Spec => KeepsPromise`, the refinement of `SessionPromise` |

The inductive invariant is `TypeInv /\ WedgeInv`. `TypeOK` is not inductive: that
`GetRedis` leaves a well-formed call depends on the call of a thread that is not idle
being a call at all, and of the kind its step belongs to (`CallInv`), and that `Tick`
leaves a natural number depends on Redis never holding an entry with no time left
(`RedisInv`; `SETEX` refuses 0). `WedgeInv` is then inductive on top: a lock between
steps is set by `ReadSync` on an expired entry only, and every action that could touch
that entry or that reader needs the same lock. `WedgeForEver` follows from it action by
action. `SweepsKeepValues` goes the other way round: for each action, whether it takes
an entry out of memory (`WatchSweep`, `Remove`) or a pair off the list of the watch task
(`WatchStore`), and that it may. For the refinement each action is mapped to `Bring` (a
set call begins), `Keep` (values move between memory, Redis, the watch list and calls,
or are lost) or a stutter.

`ProxyRequests_proofs` proves, for all requests, threads, modules, buckets, chains
and capacities, under `ProxyRequestsAssumption` alone:

| Theorem | States |
|---|---|
| `TypeCorrect` | `Spec => []TypeOK` |
| `EntryIsOwned` | `Spec => []LockInv` |
| `BackendAfterChain` | `Spec => []ChainRespected` |
| `HaltsForGood` | `Spec => HaltIsPermanent` |
| `NoOtherHalt` | `Spec => []OnlyHalts`: where nothing can move, who is not finished is halted |
| `ExhaustionTakesMore` | `Spec => []ExhaustedByMore`: without a lost call, only more requests under way than threads exhaust them |

`LockInv` is inductive with `TypeOK`; `LockStep` says what a step of a request does to
the locks and `OthersKeep` that it leaves the other requests where they are.
`ChainRespected` is not inductive, as it does not say where a request stands:
`Progress` adds what holds at each place of the code (in the chain nothing has been
written and no module has replied; behind it the request was stopped, forwarded, or
answered by its last module). The other three theorems are about `Halted`.
`HaltsForGood` goes by its cases: an entry owned by a lost call is released by nobody,
a full channel without a consumer stays full, and with all threads exhausted no
request has a step. `NoOtherHalt` needs `LockInv` and that a request has no thread
while it waits for the channel (`RunsInv`): if no request has a step, whoever waits in
`get_sync` waits for an owner that has no step either. `NoOtherHalt` speaks of what a
state allows; that requests do move while something can is `FinishesUnlessHalted`,
which TLC checks. `ExhaustionTakesMore` bounds the requests that are under way in that
state, not those of the behaviour: the owner that the threads wait for is one more
than they are. `OnlyHalts`, `ExhaustedByMore` and, of the file provider,
`ProviderTypeOK` are proved; no run checks them.

`SessionScore_proofs` proves, for all sessions, requests, costs, credits, ttls
and word sizes, under `SessionScoreAssumption` alone:

| Theorem | States |
|---|---|
| `TypeCorrect` | `Spec => []TypeOK` |
| `NeverOvercounts` | `Spec => []NoOvercount` |
| `ExactBeforeCredit` | `Spec => []ExactUnlessCredited` |
| `FallsOnlyByCredit` | `Spec => FallsByCreditOnly` |

None of the three is inductive, because a value that was read and is still to be
written back is not in the score yet. Each invariant therefore says what that
value is: no more than was added (`OvercountInv`); exactly the score, as no credit
can be about to be written before the first is read (`ExactInv`); for the third, a
credit in progress has read no more than the score and `log_request` no less,
unless the watch task took the score out between, and there is one credit at a
time (`FallInv`). The lemmas `ScoreStep`, `CreditStep` and `CountStep` say once what a
step can do to a score and to a value that was read; the invariants use only
these.

`Login_proofs` proves, for all sessions, pages, flows, challenges, difficulties and
ttls, under `SessionAssumption`, and `OidcAssumption` with `NoneAssumption` for the
logins or `PowAssumption` for the challenges:

| Theorem | States |
|---|---|
| `PassesAreGranted` | `OidcSpec => PassesWereGranted` |
| `LoginsLast` | `OidcSpec => LoginLasts`: for the ttl of the login, or the day of the host where that is less |
| `NewestFlowsComplete` | `OidcSpec => NewestFlowCompletes`, if `FlowTtl <= SessionTtl` |
| `GetsAreEarned` | `PowSpec => PassesAreEarned` |
| `ShownSuffices` | `PowSpec => OnlyZeroIsRefused` |
| `LoginTypes` | `Spec => []LoginTypeOK` |
| `ModulesTogether` | the five properties above of `Spec`, the two modules over one store, `NewestFlowCompletes` if `FlowTtl <= SessionTtl` |

It begins with what each operation of the store does to the copies of a value, in memory
or in Redis. What may never happen rests on all the copies, since the store can
return any of them. The invariant of `PassesAreGranted` is that every copy, in a
call too, carries a time of login no later than the last moment at
which the provider granted the session tokens. Expiry plays no part in it: that is why
a value the store brings back does no harm. `GetsAreEarned` has the times of the
solutions in the same place, and `ShownSuffices` needs an invariant of the pages: the
difficulty that is shown is never below the base difficulty, whatever the score was.

What must still be there rests on the entry in memory. `LastInv`: while a login is good
and the host still keeps it, it is the entry of its session, for at least as long, and a call that has loaded its
session found no such login, so nothing is saved over one. `NewestInv`: as long as a
flow is young, memory has it or the login that came of it, except between the two saves
of its callback. `LeadsInv`, of all copies again: a flow leads to the page its login was
started for. `NewestInv` is where the hypothesis enters: the login that takes the place
of a flow in memory must stay at least as long as the flow would have. Without it the
property is false, as TLC shows with a session of one tick and a flow of two; the
default of the code is an hour (`ksbh-modules/oidc/src/lib.rs:389`), and nothing keeps
an operator from less than five minutes.

`Router_proofs` proves, for all hosts, ingresses, modules, weights, orders of the
registries and paths, under `RouterAssumption` and `PathMatchAssumption`:

| Theorem | States |
|---|---|
| `TypeCorrect` | `Spec => []TypeOK` |
| `RoutesHaveOwners` | `Spec => []NoOrphanRoutes` |
| `ReloadsComplete` | `Spec => ReloadIsComplete` |
| `RoutesStay` | `Spec => RoutesChangeOnPurpose` |
| `FindsWhatIsOwed` | `Spec => []AnswersAreOwed` |

The code filters and sorts lists, which would be recursion over sequences. The model
says instead which position each element has: how many come before it in a total order.
That each has a position of its own (`RanksTaken`) follows from counting, so a list
holds each element once and in order (`Listing`), and the merged chain is the one that
`ChainIsCurrent` asks for (`MergeIsCurrent`); no induction over data is left. `RInv`
adds to `TypeOK` and `NoOrphanRoutes`, neither of which is inductive alone: there is
room for the entries an insertion still has to add, what is inserted is configured, and
the hosts a reload has been at are current. `RoutesStay` compares the first entry that
matches before and after each step. `FindsWhatIsOwed` is about the search alone
(`FindIsOwed`): for any table of rules and a path of any length, what `HostPaths::find`
finds by exact match, longest prefix and catch-all is what the ancestors of the path and
the ranks of the rules say it should.

`FileProvider_proofs` proves, for all contents, channel capacities and constants of the
router, under `FileProviderAssumption` and the router's:

| Theorem | States |
|---|---|
| `ProviderTypes` | `ProviderSpec => []ProviderTypeOK` |
| `ProviderUsesRouter` | `ProviderSpec => Spec` of `Router` |
| `LoadsAreInForce` | `ProviderSpec => LoadsTakeEffect` |
| `SecondLoadsRepair` | `ProviderSpec => SecondLoadRepairs` |

By the second, the theorems of `Router` hold of the tables that a file fills. The last
two share `LoadInv`, which says how far a load has come: the modules passed on are
registered or overridden by a later one of their name, the ingresses passed on are
configured and their rules published or in the hands of the insertion that runs, and
while a file is loaded again its ingresses have had their configurations from the
beginning, so that the reload a module causes leaves every chain as it is due.
`LoadsTakeEffect` is stated beside its proof and not checked by a run: it is the step of
`FileComesIntoForce` that needs no fairness.

`KubeProvider_proofs` proves, for all objects, dependencies, contents and bounds, under
`KubeAssumption`, `ObjectAssumption` and `CertsAssumption`:

| Theorem | States |
|---|---|
| `KubeTypes` | `Spec => []KubeTypeOK` |
| `NothingLeftBehind` | `Spec => []NoOrphan` |
| `NothingSleptThrough` | `Spec => []NotSleptThrough` |
| `HandshakesStayCovered` | `Spec => []HandshakesCovered` |

None of the last three is inductive, because a reconciliation acts on the controller's
copy of an object while the object, and what it depends on, may change. `ObjectInv` says
of one object what the copy tells of the cluster (a copy with the finalizer: the object
is still held; a copy of an object that is being deleted: the object is leaving) and
what each place of a reconciliation may rely on (behind `ensure_finalizer` the object is
held; before the finalizer is removed nothing is routed any more). `WakeInv` says of a
module that what a task has read, what the module is registered with and the copy a task
works on are the present ones, unless something is left that will wake the module.
`CertsInv` says that a name in the registry, or still to be entered by a task, is one of
the keys of a certificate a secret may hold. A handshake is then covered because the
entry under its own name, or under its parent, is for it, and because a scan that finds
several certificates takes one of the longest (`SomeEndIsLongest`, by well-founded
induction). `HandshakesCovered` asks this of names for which no certificate of another
secret competes (`Alone`).

`StaticFiles_proofs` proves, for all files, versions, lengths, ranges and chunk sizes,
under `StaticAssumption` alone:

| Theorem | States |
|---|---|
| `TypeCorrect` | `Spec => []TypeOK` |
| `AnswersStayFresh` | `Spec => []AnswersAreFresh` |
| `EntriesDescribeTheirMap` | `Spec => []DescribedAsMapped` |
| `NoRangeAborts` | `Spec => []AbortsOnlyAcrossReplacement` |

They share one invariant: an entry maps the version it describes or a later
one, a request that looked at a file saw a version that exists, and an answer has an
entry whose version is no older than what the request saw.

Only model-checked: the properties under fairness, `CallsReturn`, `ExpiredLeaveMemory`,
`FinishesUnlessHalted`, `AnswersAreRecorded`, `FileComesIntoForce`,
`DeletionsComplete`, `ModulesConverge`, `RoutesConverge` and `CertsConverge`, as the
prover does not do liveness. Every invariant and every action property of a passing run is
a theorem.

## 5. Not modelled, and why

* Conversions and wording: headers, cookies and their encryption, query parsing,
  HTTP types, templates, log lines. They keep no state.
* The redirect and robots modules: stateless replies, which `ProxyRequests` covers as
  modules that reply or pass.
* The inside of libraries: `scc` is one lock per bucket, `tokio` a set of
  threads, Redis a map with expiry, the controller framework a queue of objects.
* Loading of module libraries, buffers across the ABI (they are leaked, never
  reused), the module SDK, start-up, configuration parsing and the connections to
  Redis, which are made with a fixed number of attempts at start.
* What `remove_finalizer` does to the finalizers of other controllers (it takes them
  away), which are outside the model.
* Of the static service, the compressed answers (what a dropped write has sent is
  decided in pingora), the fixed pages, and files that are rewritten in place or whose
  time of modification comes back: an entry is then taken for current by its time alone.
* In `KubeProvider` a certificate is entered under its secret, where the code takes the
  secret's name without its namespace (`ingress.rs:215`): two secrets of one name in two
  namespaces, which would replace each other, are not in the instance. And
  `ensure_finalizer` is a forced apply, which an API server also accepts for an object
  that is being deleted and has the finalizer already; `Accepts` is stricter, and nothing
  would change by such an apply.
* Code that nothing calls: `ModuleRegistry`'s writes, `HostRegistry`, `delete_cert`, the
  hash counters of the store.

## 6. Plan

Done: all components with state of their own, each with proofs of the safety properties
that its runs check.

What would come next:

1. Several rules and services per ingress in `KubeProvider`, over the tables of
   `Router` instead of their first entry; then `RoutesHaveOwners` and `RoutesStay` would
   hold of what the controllers do, as they do of the file provider.
2. The safety parts of the liveness properties as theorems: which step is the next one a
   waiting call, load or object has, and that nothing takes it away.
3. That `SessionStore` keeps for one module what `ModuleSession` says, which is argued in
   section 2 and not checked.
