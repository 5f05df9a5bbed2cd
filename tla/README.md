# A specification of entitlements-api-go

TLA+ modules, TLC configurations and TLAPS proofs for the Go program in `src/`: the
entitlements API of console.redhat.com and its init container `bundle-sync`. Paths and
line numbers are relative to the repository's root.

The API answers *what may this organisation use?* It reads a list of bundles from
`bundles.yml`, asks the IT Feature Service which features an organisation holds, caches the
answer, and turns it into `{bundle: {is_entitled, is_trial}}`. Apart from a second cache of
organisation ids it holds no other state. What makes it hard is that requests share a cache and three package variables without a lock, that
every failure of the Feature Service has to end in *no access* (fail closed) and be signalled,
and that answers arrive late, cut off, or not at all.

## 1. Inventory

### Components, state, operations

| Component | Source | State | Operations |
|---|---|---|---|
| `GET /services` | `controllers/subscriptions.go`, `controllers/client.go` | per pod: the feature cache (ccache, org → features with a TTL), `featuresQuery`, `paidFeatureSuffix`, the lazily built HTTP client; per request: the handler's locals | look up, build the query, call, conclude (features, garbled body, other status, no answer), evaluate, reply |
| Bundle rules | `controllers/subscriptions.go:88-104, 295-338`, `types/main.go` | none (pure) | kinds of bundles, features asked for, section of a bundle, filters |
| `bundle-sync` | `bundle_sync/main.go` | `bundles.yml` as read, position in the list of features | read configuration; per feature: GET, compare, POST; exit at the first error |
| IT Feature Service | external | per organisation the features held; per feature its SKU list | `featureStatus`, GET and POST of a feature |
| AMS client and search query | `ams/client.go`, `ams/query_builder.go` | cache platform org → AMS org (30 minutes) | quota cost, subscriptions, delete, authorise a quota, convert an org id |
| BOP client | `bop/client.go` | none | look up a user |
| Seats API | `controllers/seats.go`, `controllers/seats_error_mapper.go` | none of its own (AMS holds it); off by default | list (a page, with links to others), assign, delete a seat |
| `GET /compliance` | `controllers/compliance.go` | none | put a user to the Export Compliance Service, pass its answer on |
| HTTP pipeline | `server/routes.go`, `server/metrics.go` | status recorded per response | order of middlewares, metrics, panics → 500 |
| Configuration, certificates, start-up | `config/*.go`, `main.go`, `server/main.go` | a singleton, built at the start | read settings, load certificate, key and CA, `SetBundleInfo`, register the routes, listen |
| Status, lub-dub, OpenAPI, logging | `controllers/status.go`, `controllers/lubdub.go`, `apispec/`, `logger/` | none | constant answers, output |

### How they interact

net/http runs each request in a goroutine. `Services()` calls `GetFeatureStatus`, which reads
the cache, perhaps builds the query (writing two package variables that all handlers read),
calls the Feature Service over HTTP with the client's timeout, and writes the cache; the handler
then evaluates every bundle. `bundle-sync` runs to completion in each pod before the API starts,
on the same `bundles.yml` and `FEATURES`; it writes the SKU lists from which the Feature Service
computes the features the API asks for. Kubernetes restarts both and runs old and new pods at
the same time in a rollout.

### What is hard

* **Shared state without locks.** `featuresQuery == ""` (line 128) is the only guard of a lazy
  initialisation that sets the suffix first and the query last. Reading or writing a Go string
  is two machine words, so a reader may see a length without its bytes.
* **Late results.** A handler keeps nothing locked during its call: an older answer may
  overwrite a newer cache entry, and then lives a full TTL.
* **Failures that look like data.** A failed call is cached as an empty feature set, and from
  then on is only recognised by its emptiness; the errors of reading a body are dropped.
* **Forced freshness.** `trial_activated=true` must bypass an entry other requests keep filling.
* **Two programs, one convention.** The API's query, its evaluation and bundle-sync each derive
  feature names from `bundles.yml` and `FEATURES` by code of their own.
* **Check, then act, elsewhere.** The seats handlers ask BOP and AMS one question after the
  other and act on the answers, while users, seats and organisation ids change, the id may come
  from a cache half an hour old, and the answer to the last call may be lost. Neither client has
  a timeout.
* **Pages of a list that moves.** `GET /seats` turns an offset into a page of AMS, rounding down,
  computes its links from the offset as sent, and keeps nothing between two requests, while seats
  are assigned and removed.
* **Two files, one pair.** Certificate and key are read one after the other from a volume that is
  renewed, and only once in the life of a pod.
* **Two statuses, one reply.** net/http sends the first status it is given, the metrics record the
  last one; an encoding error and a recovered panic give it two.
* **bundle-sync under failure.** It stops in the middle, starts again, loses answers, and meets
  pods with another version of the configuration.

`PROJECT.json` lists each hazard at its line, with the properties that would catch it.

### What makes each component correct

* `GET /services`: fail closed; an undegraded reply is a snapshot of one recent moment; forced
  requests are served live; failures are signalled, also when they come from the cache; every
  request ends.
* Bundle rules: the query asks for what the evaluation needs; filters only select; more
  features never hurt.
* bundle-sync: success means in sync; paid lists never get ahead of the bundle's own; after a
  rollout every SKU grants exactly its bundle; every container finally succeeds.
* Seats: a seat is assigned and deleted only within the administrator's organisation; a refusal
  changed nothing; every error a client is sent is counted. A list shows only what the caller may
  see and asked for; its links lead to the neighbouring pages; a client that follows them misses
  nothing and sees nothing twice.
* Start of a pod: it serves with a matching pair or not at all, opens the seats API only if told
  to, and, deployed right, finally serves.
* Compliance and the pipeline: a verdict is the service's own, for this request; what is counted
  is what is sent; every request ends.

## 2. The modules

| Module | What it is |
|---|---|
| `Bundles` | Constant-level operators: bundle kinds, `QueryFeatures`, `Section` (one turn of the handler's loop), `Selected`, `Entitlements`. Used by all components. |
| `BundleRules` | Puts the rules to every caller: a state is one evaluation, a step changes one input. |
| `ServicesConfig` | Constants of the endpoint, their assumption, the two readings of `ENT_ENTITLE_ALL`. |
| `Services` | The handlers of one pod, cache, globals, and the Feature Service they ask. |
| `ServicesClaims` | What the documents say of `GET /services` and the code does not do. |
| `ServicesContract` | What a client may count on: no cache, no globals, no network. |
| `ServicesRefinement` | `Services` implements `ServicesContract` (`KeepsContract`). |
| `ServicesInvariant` | The inductive invariant of `Services`. |
| `SyncConfig` | Constants of `bundle-sync`, and what a `bundles.yml` wants of each feature. |
| `BundleSync` | The init containers of several pods, the rules store of the Feature Service, the ConfigMap; its inductive invariant. |
| `SyncContract` | What `bundle-sync` promises: whoever succeeds has seen every feature in sync. |
| `SyncRefinement` | `BundleSync` implements `SyncContract` (`KeepsSyncContract`). |
| `SeatsConfig` | Constants of the seats API, requests, `Window`. |
| `Seats` | The seats API: the handlers, the AMS client with its id cache, the BOP client, the error mapper, the status the metrics record; AMS and BOP as they change. |
| `SeatsContract` | What the seats API promises: no calls, no id cache, no order of checks. |
| `SeatsRefinement` | `Seats` implements `SeatsContract` (`KeepsSeatsContract`). |
| `SeatsInvariant` | The inductive invariant of `Seats`. |
| `SeatList` | `GET /seats` as its caller sees it: the query, the page, the links, and a client that follows them while seats come and go; its inductive invariant. |
| `Pod` | A pod from its start to its end: settings, certificates, bundles, routes, while the secret is renewed. |
| `Compliance` | Extends `Pod` by the handlers of `GET /compliance`, the Recoverer and the metrics around them, and the service they ask. |
| `ServicesProofs`, `ServicesContractProofs`, `RulesProofs`, `BundleSyncProofs`, `SeatsProofs`, `SeatsContractProofs`, `SeatListProofs`, `ComplianceProofs` | The TLAPS proofs, a module for each component, and one each for the contracts of `Services` and `Seats`. |
| `MC...` | Small instances for TLC. |

`Bundles` is what ties the components together: the API's query and evaluation (`Services`), the
expansion of a bundle into features by bundle-sync (`BundleSync`) and the rules on their own
(`BundleRules`) all use the same translation of `bundles.yml`, so that `SettledMeansEntitled` can
speak of both programs at once. Each of the three contracts shares with its program only what it is
configured with (`...Config`); what a contract calls pending, looked or seen is computed from the
program's state by the refinement. `Compliance` composes the requests with the life of the pod that
serves them: the certificate a pod holds decides what the service makes of a call, and a pod that
ends takes its requests with it.

### `Services`: state and actions against the code

A member of `Handlers` is a goroutine; `pc` is where it is between two accesses to something
shared. One action is everything between two such accesses.

| `pc` | Actions | Code (`controllers/subscriptions.go`) |
|---|---|---|
| `idle` | `Arrive` | 213-228, identity and query parameters |
| `lookup` | `CacheHit`, `SkipUpstream`, `CacheMiss` | 109-126 |
| `query` | `FindQuery`, `FindNoQuery`, `FindTornQuery` | the unlocked read of `featuresQuery`, 128-139 |
| `suffix`, `store`, `stored` | `SetSuffix`, `StoreQueryLength`, `StoreQueryPointer` | `setFeaturesQuery`, 88-104: the suffix (90), then the string's two words (103) |
| `await` | `Respond` (Feature Service), `ConnectionError`, `Timeout` | 139-152; the timeout is set in `controllers/client.go:23` |
| `answered` | `ReceiveFeatures`, `ReceiveGarbled`, `ReceiveFailure`, and again `ConnectionError`, `Timeout` | 141-183; each also caches (`Conclude`) |
| `evaluate` | `Evaluate` | 230-358, one step: the handler works on its locals and the suffix |
| `replied` | `Finish` | the goroutine ends |

The environment: `ChangeOwned` (subscriptions change), `Evict` (ccache prunes above its maximum
size, any entry), `Restart` (a crash or a rollout loses everything the pod held), `Tick`.

Abstractions. A feature is the pair of a bundle's name and a suffix, so that appending a suffix
that is still empty yields the bundle's own feature as it does in Go. The query is represented
by whether it is unset, half stored or stored: its content is the same whoever builds it.
Identity is the four Booleans the handler derives. Status codes are 200, 0 and the members of
`FailureCodes`. `origin` in results and cache entries, and `age`, are history: no guard reads
them. `age[o][f]` counts the ticks since organisation `o` last held exactly `f`, so that "held
within the last n ticks" is a state predicate. A second writer storing the same string leaves it
readable, so `StoreQueryLength` tears the query only when it was unset. The query string's
filters become sets of names; logging, metrics and Sentry are left out, and so is
`failOnDependencyError` (186-200), which nothing calls. `json.Marshal` of the reply's map cannot
fail and its error branch (342-347) is left out.

### `BundleSync`: state and actions against the code

`Places`, `FeatureAt` and `Endpoints` (in `SyncConfig`) are the list of lines 189-206: FEATURES first, then the paid
features of those that have one; `index` is a place in it. `LoadFails` (certificates or
`bundles.yml`, 173-191), `Start`, `Skip` (178-181); per feature `GetCurrent`, `GetErrorBody`,
`GetFails` (`getCurrent`, 52-80), `NoUpdates`, `Differs` (218-236), `PostUpdate`, `PostDryRun`,
`PostFails`, `PostAnswerLost` (`postUpdates`, 145-167), and `NextEndpoint`. `Fail` is `log.Fatalf`
or the panic that a network error causes at line 55. `SkusFor` is `getBundlesConfig` (82-143).
`Init` is every pod's init container (`deployment/clowdapp.yml` 15-35) before it runs. Kubernetes: `Restart`, `Replace`, `Deploy`. SKU lists are compared after sorting, so a list is a bag.
The Feature Service keeps one list per feature; the rule structure around it is flattened as lines
225-229 flatten it. `SyncContract` keeps of a container whether it runs and which features it has
`seen` in sync; in the program these are the ones it has *checked* (see section 4).

### `Seats`: state and actions against the code

`Program(kind)` is the order in which each handler of `controllers/seats.go` does its steps, with
the conversions inside `GetQuotaCost` and `GetSubscriptions` (`ams/client.go:129-193`) in their
places; `at` is the handler's position in it. `Continue` goes on to the next step or, after the
last, replies (`Succeed`); every early return is a `Refuse` (an error of the handler's own) or a
`Fail` (an error of a client, through `MapResponse`).

| Step | Actions | Code |
|---|---|---|
| before the first | `Arrive`, `RefuseCaller`, `RefuseRequest`, `Begin` | `seats.go` 57-63, 119-131, 200-211 |
| `user` | `FindMember`, `FindForeigner`, `FindNobody`, `UserFails` | `seats.go` 213-222, `bop/client.go` 89-141 |
| `convert` | `ConvertFromCache`, `ConvertMalformed`, `ConvertByAms`; then `ListOrgs` (AMS), `Converted`, `ConvertedToNothing` | `ams/client.go` 248-302 |
| `subscription` | `FindSubscription`, `SubscriptionGone`, `SubscriptionWithoutOrg` | `seats.go` 65-76 |
| `compare` | `RefuseForeign`, `Pass` | `seats.go` 84-89 |
| `filter` | `RefuseStatus`, `Pass` | `ams/client.go` 168-177 |
| `subs`, `quota` | `Read` | `ams/client.go` 129-145, 195-209 |
| `authorize` | `Authorize`, `Deny` | `seats.go` 230-243, `ams/client.go` 222-245 |
| `delete` | `PerformDelete`, `SubscriptionGone` | `seats.go` 91-96 |
| any of AMS's | `AmsFails` | the errors of `ams/client.go` |

AMS and BOP change by `Remap`, `Transfer` and `Move`. `written` is the sequence of statuses passed
to `WriteHeader`: net/http sends the first, `server/metrics.go` counts the last. A seat is an id and
the AMS id of its organisation; what the searches return beyond that, quotas (`Deny` may happen at
any time), the filters and the pages are abstracted here and modelled in `SeatList`. `age[o][a]` counts ticks since AMS
knew organisation `o` by `a`; `member`, `heldBy` and `changed` are histories of one request. A crash
of the pod loses requests and the cache, which is what an idle pod with an empty cache is: the
initial state covers it. A foreign organisation is another member of `Orgs`.

`SeatsContract` knows a request as pending or done. The step that ends it either changes AMS, and
answers with a success or, when the answer of AMS is lost, a 500; or it refuses and changes nothing. In the program
that step is `PerformDelete` or `Authorize`, everything before it is internal, and a listing has
*looked* when it is past the search of the subscriptions.

### `SeatList`: state and actions against the code

A client asks, follows links, retries; the server has no state. The calls behind a GET are one
step here, taken when AMS reads its list (`Seats` has them one by one).

| Definition | Code |
|---|---|
| `Ints`, `Limit`, `Offset`, `Acceptable` | `controllers/seats.go` 103-111, 120-131 |
| `PageOf`, `PageAsked`, `NextOffset`, `PreviousOffset`, `Wrap` | 133-135, 166-176 |
| `StatusClauses`, `Supported`, `Query` | `ams/client.go` 163-195, 304-324, `ams/query_builder.go` 27-71 |
| `List`, `Refuse`, `Fail` | `controllers/seats.go` 113-195 and its early returns |
| `Ask`, `FollowNext`, `FollowBack`, `Retry` | the client, by the links of 172-176 |
| `Assign`, `Remove` | AMS |

A query is the set of its clauses, each a field and the values it may have; a subscription is its
number in AMS's order and its fields. Limits and offsets are Go's `int`, of a width that is a
constant (`MaxInt`): `Wrap` is what its addition does, so that the offset of a link, and the page number,
can come out negative; a client's walk ends at a link that the API would refuse. The links carry no
filters, so a client adds them or not.
`walk` is the history of a client that started at the first page and has followed `next` with the
same filters since: the seats there were when it set out, the seats it has met, whether one was met
twice, whether seats were added or removed meanwhile.

### `Pod` and `Compliance`: state and actions against the code

| Phase | Actions | Code |
|---|---|---|
| `settings` | `LoadFromEnvironment`, `FindVolume` | `config/main.go` 130-187, `config/certificates.go` 23-52, 126-156 |
| `cert`, `key`, `ca` | `ReadCertificate`, `ReadKey`, `ReadCA` | `config/certificates.go` 158-168 (two files read by one library call), 89-124 |
| `bundles` | `SetBundleInfo` | `main.go` 17-41, `controllers/subscriptions.go` 60-86 |
| `routes` | `DoRoutes` | `server/routes.go` 48-82, construction of the clients in `ams/client.go` and `bop/client.go` |
| `serving` | `Die` | `server/main.go` |
| `failed` | `Restart` | Kubernetes |

`Renew` and `Expire` are the secret behind the volume; all its files change together. A version
of the pair is a number, 0 the one of the tests. `AsBool` is how viper reads a text as a Boolean.
`Refuse`, `Ask`, `Screen` (the service), `PassOn`, `PassOnPanics`, `Fail`, `Timeout` are the returns of
`controllers/compliance.go` 39-99: a body that breaks off is passed on as far as it came (line 96
drops the error), and a status below 100, which Go's client accepts from a server, makes
`WriteHeader` panic, which the Recoverer turns into a 500. `written` and `Sent`/`Recorded` are as in
`Seats`.

## 3. What TLC checks

| Run | Question | Properties |
|---|---|---|
| `rules` | Are the rules consistent with each other and with the query? | `QueryIsEnough`, `FiltersOnlySelect`, `MoreFeaturesNeverHurt` |
| `services_cache` | Two requests of one organisation: races on query and suffix, expiry, eviction, late answers, failures, crashes | `TypeOK`, `ServicesInv`, `FailClosed`, `UndegradedIsASnapshot`, `LiveWhenForced`, `FailuresAreSignalled`, `KeepsContract` |
| `services_progress` | Does every request end? | `EveryRequestEnds` |
| `services_entitle_all` | Does `ENT_ENTITLE_ALL=true` do without IT? | `EntitleAllMocksIT` |
| `seats` | Two administrators with every kind of request at the same time, a cached id, lost answers | `TypeOK`, `OwnOrgOnly`, `AssignedToMember`, `StatusTells`, `ErrorsAreCounted`, `KeepsSeatsContract` |
| `seat_list` | A client with any page and filter follows links while seats come and go | `TypeOK`, `OnlyMatching`, `LinksAreNeighbours`, `NoneSkipped`, `ShortPageIsTheLast`, `NoneTwice` |
| `pod` | A pod starts, right or wrong, while its certificate is renewed; serves two screenings; ends; starts again | `TypeOK`, `ServesWithItsKey`, `SeatsOnlyIfEnabled`, `VerdictIsTheServices`, `RecordedAsSent`, `ServesInTheEnd`, `EveryScreeningEnds` |
| `sync_rollout` | Two pods and a dry run, through a change of `bundles.yml` | `TypeOK`, `PaidIsPartOfBase`, `DoneMeansInSync`, `SettledMeansEntitled`, `StaysInSync`, `KeepsSyncContract` |
| `sync_progress` | Does a container that keeps failing succeed in the end, also with a name in FEATURES that `bundles.yml` lacks? | `SyncEnds` |

The properties in a sentence each:

* `FailClosed`: an SKU-based bundle is granted only if the organisation held its feature within
  `Window` = TTL + client timeout, and shown as paid only if it held the paid feature at the
  same moment. The bound is exact: an answer may be a call old when it is cached and a TTL older
  when it is read; an answer that overwrites a newer one is no exception.
* `UndegradedIsASnapshot`: a reply without the degraded header, whose data was read in full,
  equals the rules applied to the holdings of one moment within `Window`.
* `LiveWhenForced`: with `trial_activated=true` that moment is not before the request.
* `FailuresAreSignalled`: a failed call is signalled by the request that met it and by every
  later one served from the entry it left, and the dependency's status is only in the former.
* `KeepsContract`: all of this as a refinement of `ServicesContract`, where a reply is 500, or the
  rules applied to a part of recently held features, to none of them if it is degraded.
* `OwnOrgOnly`: what a DELETE removes was, since the request arrived, under an AMS id that the
  administrator's organisation had within the cache's time to live and two calls; a GET lists by
  such an id. That is as much as the code gives: both the id and the subscription may have moved
  on when AMS acts.
* `AssignedToMember`: whoever gets a seat was in the administrator's organisation at some moment
  since the request arrived.
* `StatusTells`: a 4xx has changed nothing, a 2xx has; only a 5xx leaves the client in doubt.
* `ErrorsAreCounted`: a reply is counted under the status the client is sent, whatever its handler wrote
  on the way, with one exception: a 200 whose body cannot be encoded is counted as a 500. So no error
  is counted as a success or as another error.
* `KeepsSeatsContract`: all of this as a refinement of `SeatsContract`: a request changes AMS at most
  once and in the way it asks for, for a caller who may, and its reply, sent with that change or
  after a refusal without any, tells which it was; an invalid request, and a caller who may not, get
  their own status whatever else is wrong.
* `OnlyMatching`: whatever the filters, a listed seat is of the caller's organisation and satisfies
  each of them; a status filter of blank texts lists nothing rather than everything.
* `LinksAreNeighbours`: `first`, `next` and `previous` lead to page 1, the following and the preceding
  page, also from an offset that is no multiple of the limit, for which the page shown begins
  earlier than the offset says. `next` is refused exactly when offset + limit is beyond the largest
  int: it never shows another page in place of the following one.
* `NoneSkipped`, `ShortPageIsTheLast`, `NoneTwice`: a client that follows `next` from the first page,
  retrying failures, has met all seats of its first moment up to the page shown, and all of them
  when a page is not full, unless seats are removed meanwhile; it meets none twice unless seats are
  assigned. Both conditions are needed: a removal moves a seat to a page already shown.
* `ServesWithItsKey`: a pod that serves has a certificate and the key of it; those of the tests only
  if there is neither a volume nor an environment to take them from.
* `SeatsOnlyIfEnabled`: the seats API is open only where `DISABLE_SEAT_MANAGER` is set to a text that
  is not true, and never without its clients.
* `VerdictIsTheServices`: a reply with the service's body has the status that the service gave for
  this request; only users with a name are put to it.
* `RecordedAsSent`: what the metrics count is what the client is sent, also through a panic.
* `ServesInTheEnd`: a pod deployed right finally serves, however often its secret is renewed during
  the start. `EveryScreeningEnds`: and every screening ends, though the service may never answer.
* `QueryIsEnough`: knowing what the query asks for, the evaluation of the bundles of FEATURES gives
  what it would give knowing everything. `FiltersOnlySelect`: include and exclude split the
  unfiltered reply in two. `MoreFeaturesNeverHurt`: one more feature takes no bundle away and makes
  no trial of what was paid; bundles for internal users that have paid SKUs too are exempt, because
  line 334 overwrites the access and leaves `is_trial` as the SKUs decided it. (For bundles that ask for
  a valid account or organisation number, lines 320-332 also leave `is_trial` beside a refused access;
  no document says that they must not.)
* `PaidIsPartOfBase`: while everybody works from one `bundles.yml`, a paid feature has no SKU that the
  bundle's own feature lacks, wherever containers stop. `DoneMeansInSync`: a container that succeeds
  has left every feature that wants SKUs with exactly these, and nobody undoes it.
  `SettledMeansEntitled`: once a rollout is over, the API grants a bundle to exactly the owners of
  one of its SKUs, and calls it a trial exactly for those without a paid one. `StaysInSync`: once all
  containers work from the deployed version and the rules are in sync with it, no step but the next
  deployment changes that; in particular the update that follows an error body read as an empty list
  is harmless. `KeepsSyncContract`: with any versions deployed meanwhile, a container succeeds only
  when it has seen, at one moment or another since it started, every feature that wants SKUs with
  exactly these, and nobody writes a list but one that some `bundles.yml` wants, nor in a dry run.
  `SyncEnds`: every container finally succeeds.
* `EveryRequestEnds`: every request of `/services` ends. `EntitleAllMocksIT`: with
  `ENT_ENTITLE_ALL` = `"true"` IT is not called and nobody is told of a degradation; with that and
  every other text that reads as true every bundle is granted.

### Documents that the code contradicts

Each of these runs ends in a counterexample.

| Run | What the document says | What the code does |
|---|---|---|
| `claim_degraded_means_failure` | `README.md:120`: the header is set "when a dependency failure occurred" | an organisation that holds nothing gets it on every cache hit |
| `claim_failure_means_degraded` | the same line, conversely | a 200 with a broken body is served, and cached, without it |
| `claim_sync_error_body` | `docs/ARCHITECTURE.md:216`: correct mappings "before the API starts" | the JSON body of a 500 reads as an empty SKU list |

Further ones met while modelling have no run of their own:

* `docs/performance-guidelines.md:80` says that `featuresQuery` and `paidFeatureSuffix` are set
  before serving requests; the code sets them during the first requests, which is why `Services`
  models the race.
* `docs/ARCHITECTURE.md:27` says that only the first request of an organisation contacts the
  Feature Service; every request that misses does, also while the first waits.
* `deployment/clowdapp.yml:211` says that the entitle-all flag mocks the calls to IT; with a value
  such as `1` or `True` line 120 still calls, and line 310 entitles everyone: the two halves of `EntitleAllMocksIT` have two
  conditions.
* `docs/api-contracts-guidelines.md:55` and the API specification give the limit of `GET /seats` a
  maximum of 1000; the code checks only the lower bound, and AMS is sent any size.
* `docs/ARCHITECTURE.md:135` says of the compliance endpoint that "Failures return 500 with a
  `DependencyErrorResponse`"; a body that breaks off is passed on under the service's status, and the
  counter of failures counts refused callers but not the failures the service itself reports.
* `docs/ARCHITECTURE.md:216` again: in a rollout a pod of the old deployment may post what it has
  computed after a pod of the new one has finished (replace `Losing` by `Changing` and let two pods
  sync in `claim_sync_error_body.cfg`).

### Bounds

* Two handlers: every hazard of `Services` is a pair of requests (one builds the query while the
  other reads it; one fills the entry the other overwrites or reads), and a handler is reused for
  later requests, so sequences of any length are covered. Handlers are interchangeable: `SYMMETRY`.
* Three bundles: trial and paid SKUs; plain SKUs with a further criterion; internal users. Three
  holdings: nothing, trial, paid. The liveness run and the claims take two of them.
* TTL and timeout of one tick: an entry is seen fresh, at its deadline, and expired; a call may
  take no time or a tick. `Window` caps `age`; `ClientTimeout` caps `waited`; an entry's remaining
  time stops at -1. One failure status stands for all.
* `CacheMaxSize` = 0 in `services_cache`: any entry may be evicted at any time. The runs have
  one organisation. That entries, answers and replies of several do not mix, although these share the
  cache, the query and the suffix, is not left to a larger run: `FailClosedAlways` and
  `UndegradedIsASnapshotAlways` hold for any number of organisations.
* Seats: one seat, one user, two AMS ids, one organisation that calls and one with a malformed id;
  seven requests, the three that may succeed and one for each reason to refuse, of which one has two.
  Seats of other organisations, foreign and unknown users, and a seat that is gone all occur. The
  cached id lives a tick and calls take less than one (`MaxCall` = 0); longer calls, longer lives and
  more organisations are covered by the theorems. The clients set no timeout: without `MaxCall`
  nothing could be said about age.
* `SeatList`: three seats of the organisation, one of another, one of another plan; limits from 0 to
  2 (`DefaultLimit` is 2 instead of 10, so that a page is smaller than the list), every
  offset. An int has four bits instead of 64: `MaxInt` = 7 is past the end of the list, as the
  largest int of Go is of any list of AMS. Every kind of filter.
* `Pod`: two renewals (`MaxVersion` = 3), so that one may fall between any two reads and a pod may
  outlive its certificate; nine deployments, of which four can serve. `Compliance`: two handlers, a
  status that cannot be written, one that is a verdict, one that is an error.
* bundle-sync: one bundle with trial and paid SKUs (sharing one) and one with plain SKUs (with a
  duplicate, as `bundles.example.yml` has); two versions that differ in one SKU; two pods
  that post and one that does not; a Feature Service that starts empty or with stale rules. Names
  in FEATURES are in another order than the bundles; in `sync_progress` one is mistyped.

### Fairness

`Services!FairSpec`: weak fairness of each handler's own steps (the Go scheduler) and of its
timeout (`http.Client.Timeout` covers the whole call including the body), strong fairness of
`Tick`, because steps that take no time in the model keep disabling it. Nothing is assumed of the
Feature Service, of the network, or of `Restart`. `BundleSync!FairSpec`: weak fairness of each
container (with Kubernetes' restart), strong fairness of a successful start and, per place in the
list of features, of the successful GET and POST: what is tried for ever succeeds at some time.
Without the latter a container could fail for ever, which the code allows. No pod need be
replaced, and the ConfigMap need not change. `Compliance!FairSpec`: weak fairness of the pod's start
and restart (the process runs; Kubernetes), of each handler's own steps and its timeout, strong
fairness of `Tick`; nothing is assumed of the Export Compliance Service, of the pod's end or of
renewals. `Seats` states no fairness: its clients have no timeout, so the code gives no end of a
request to rely on.

Deadlock is checked in every run.

## 4. What TLAPS proves

For **all** values of the constants that satisfy the modules' named assumptions (any number of
handlers, pods, organisations, bundles, seats, any `bundles.yml` and FEATURES, any times to live and
timeouts), every safety property of the runs is a theorem, refinements included:

| Module | Theorems | Inductive invariant |
|---|---|---|
| `ServicesProofs` | `TypeCorrect`, `Invariance`, `FailClosedAlways`, `LiveWhenForcedAlways` | `ServicesInv` |
| `ServicesContractProofs` | `FailuresAreSignalledAlways`, `UndegradedIsASnapshotAlways`, `ChangesArriveAlways`, `KeepsContractAlways`; `EntitleAllMocksITAlways` | `ServicesInv` with `SignalInv`; `MockInv` |
| `RulesProofs` | `QueryIsEnoughAlways`, `FiltersOnlySelectAlways`, `MoreFeaturesNeverHurtAlways` | none: they hold in every state |
| `BundleSyncProofs` | `SyncTypeCorrect`, `DoneMeansInSyncAlways`, `SettledMeansEntitledAlways`, `SettledMeansInSync`, `StaysInSyncAlways`, `KeepsSyncContractAlways`; `PaidIsPartOfBaseAlways` | `SyncInv`; `PaidInv` |
| `SeatsProofs` | `SeatsTypeCorrect`, `OwnOrgOnlyAlways`, `ExactlyOwnAlways`, `AssignedToMemberAlways`, `StatusTellsAlways`, `ErrorsAreCountedAlways` | `SeatsInv` with `PresentInv` |
| `SeatsContractProofs` | `KeepsSeatsContractAlways` | the same |
| `SeatListProofs` | `SeatListTypeCorrect`, `OnlyMatchingAlways`, `LinksAreNeighboursAlways`, `NoneSkippedAlways`, `ShortPageIsTheLastAlways`, `NoneTwiceAlways` | `SeatListInv` |
| `ComplianceProofs` | `ComplianceTypeCorrect`, `ServesWithItsKeyAlways`, `SeatsOnlyIfEnabledAlways`, `VerdictIsTheServicesAlways`, `RecordedAsSentAlways` | `ComplianceInv` |

Few of these properties are inductive; the arguments, module by module:

* **`Services`.** A reply's features come from a result, that from an answer or a cache entry, and
  that from the Feature Service some time ago. `ServicesInv` bounds their age at each place. An
  answer on its way was true since the request arrived (`AnswerOK`); an entry with `ttl` ticks left
  was true at most `Window - ttl` ticks ago (`CacheInv`), so that time passing takes from one what it
  adds to the other; a result is at most `Window` old, or for a forced request as old as the request
  (`ResultOK`); a reply was computed from its result with a suffix that is set whenever there are
  features at all (`ReplyOK`, `SuffixInv`: a handler reads the suffix long after the query was built,
  possibly by another). `CacheInv` for the entry that an answer leaves needs `waited <=
  ClientTimeout`, which is why the timeout's priority over `Tick` is in the model. `QuietStep` and
  `OthersKeep` carry these bounds through the steps of other handlers, `BackedLater` through `Tick`,
  `ConcludeKeeps` through the ways a call may end; `NextInv` has one step per action.
* **The contract.** `SignalInv` adds what becomes of a failure: the entry it leaves is empty, and a
  reply tells what its result does. With both, the initial states of `Services` map to initial
  states of `ServicesContract`, `Evaluate` maps to its reply (`EvaluateKeeps`), and every other step to
  one of its steps or a stutter (`InternalSteps`, `NextKeeps`). `ChangesArriveAlways` is what all this
  means once holdings have been the same for `Window`: no reply, not even a degraded or a garbled one,
  grants a bundle for features that were lost, and one without either flaw says what is held.
* **`ENT_ENTITLE_ALL`.** `MockInv`: with `"true"` nothing is ever cached and no handler leaves the path
  past the call, so that no result is a failure or taken for a cached one. The other half of the
  property, that every section is granted, is about each text that reads as true, because the code
  reads the setting twice.
* **Rules.** The section of a bundle depends on the features named after it only (`SameSection`),
  and of two bundles of one name the later one counts (`NamedHasTheName`).
* **`BundleSync`.** `SyncInv` says what a container has *checked*: features it is past, and the one
  whose list it has just read and found right. `FirstInv`: while there is one `bundles.yml`, what
  anyone has checked is in sync. `LatestInv`: what nobody needs to check again is in sync with the
  one deployed: whoever posts an older list has read an older file, is therefore not settled, and
  comes again. A step that posts was preceded by a read that differed, and everyone who posts
  for the deployed version posts the same list. `SettledMeansEntitled` then follows from what the
  lists of a bundle are (`SkusOfBundle`, `ClearBundle`) and the evaluation in `Bundles`.
  `StaysInSync` needs no more than that a step updates a feature, if any, as its container's version
  wants it (`UpdatesAsWanted`). For `KeepsSyncContract`, the features *seen* are those checked: a step
  adds one only when it reads the wanted list or posts it (`ChecksInTurn`, whence `SeenInTurn`), a
  container that fails or starts again has seen none (`NothingSeen`), and one that is through has
  passed them all (`AllSeen`).
  `PaidIsPartOfBaseAlways` has the condition `StartsClean`: the Feature Service starts with nothing
  that contradicts the property and `bundles.yml` names every bundle once.
* **`Seats`.** `SeatsInv` follows a handler through its program: what it has found out by each step
  (`FoundInv`), and how old the AMS id is that it holds, at most the age of a cached one and two calls
  (`CacheInv`, `IdInv`); `PresentInv` keeps the histories of a request up to date with the present.
  `ExactlyOwnAlways` draws the conclusion for the usual case: where the organisation has kept its AMS
  id for `Window` and the subscription its organisation since the request arrived, a deleted seat is
  the caller's own at the very step that deletes it.
* **The contract of the seats API.** The checks that a request has passed are facts of its state
  (`CallerInv`, `FoundInv`), so that at the one step that changes AMS all that the contract asks for
  is there; `RefusalsRefuse` and `PerformedReplies` say that every early return is a refusal with a
  status that fits and every reply after a change one that admits it.
* **`SeatList`.** Along a walk all offsets are multiples of the limit (`WalkInv`), so that a page is
  an interval of ranks (`PageRanks`); `Reached` is the rank up to which the walk has come. Assigning a
  seat only moves others towards the end, so none slips below `Reached` unmet (`MetInv`); removing one
  only moves others towards the front, so none met comes up again (`OnceInv`). That a page with fewer
  seats than the limit is the last rests on the ranks of a list having no gaps (`AllRanks`, from
  `RankBefore`) and the pigeonhole principle (`FullPage`). Integers that wrap change none of this: a page number wraps only when it is past
  every page that has a seat (`PageData`), and a walk does not follow a link that has wrapped.
* **`Compliance`.** How source, certificate and key belong together at each phase (`LoadedInv`), and
  what a handler has of the service's and has written (`RequestInv`).

The assumptions are few: the paid suffix is not empty (`config/main.go:160` sets it), failure
statuses are neither 0 nor 200, a status that cannot be written is below 100, limits and offsets are
ints, and the largest int is no less than the number of subscriptions, numbers are natural, `bundles.yml` is a list of bundles. TLC evaluates each of them on a run.

Only model-checked is what is out of the prover's reach: liveness under fairness
(`EveryRequestEnds`, `SyncEnds`, `ServesInTheEnd`, `EveryScreeningEnds`).

## 5. What is not modelled

* `status`, `lubdub`, the OpenAPI endpoint, logging, dashboards and pipelines: constant answers and
  output. The mock clients' answers are constants; that they are used is in `Pod`.
* The race on the package variable `client` (`controllers/client.go:11`): two first requests may
  each build an HTTP client; both are configured alike, and a pointer is one word. Likewise the
  singleton of `config/main.go:187`, which `main` builds before there are goroutines.
* The identity middleware, chi, and the parsing of parameters by the generated code: libraries. An
  identity is the Booleans or the organisation a handler takes from it.
* Retries inside the AMS SDK: they happen below `Send`, and a call may act once or not at all.
* ccache's internals: gets do not extend a life; sets replace; pruning may take any entry.
* `bundles.yml` changing under a running API: documented as requiring a restart.
* The text of an AMS query. An apostrophe in a filter would make one that AMS cannot read; filters
  here are values that it can. AMS is taken to list in a stable order, which the code does not ask
  for and pages need.
* A renewal of the secret that changes the certificate but not its key.
* Bundles that list plain SKUs beside trial or paid ones: the program handles them (bundle-sync
  drops the plain ones), but nothing says what should happen, and `SettledMeansEntitled` leaves
  them out (`IsClear`).

## 6. Plan

Done, in the order of the first plan: `Bundles`, `BundleRules`, `Services` with contract, refinement
and invariant, `BundleSync`, `Seats`; then `SeatList`, `Pod` and `Compliance`, the contracts of `Seats` and
`BundleSync`, and the proofs of all safety properties.

Left, in order of worth:

1. The fate of a certificate that expires in a serving pod: today nothing ends that pod
   (`controllers/client.go:27` copies the certificate once). A property can be stated once the
   program does something about it.
2. Timeouts for the AMS and BOP clients: with them, `Seats` gets a fairness condition and an
   `EveryRequestEnds` of its own.
3. Bundles with both kinds of SKUs, once `bundles.yml` has one.
