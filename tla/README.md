# nats-kv: models, checks and proofs

This directory holds TLA+ models of nats-kv, TLC configurations that check them
on small instances, and TLAPS proofs that hold for every instance. Everything is
translated from the code under `src/`; what the code does is what is modelled,
also where a document says otherwise.

## 1. The system

nats-kv is a key-value store with an HTTP API, kept in JetStream streams that
span many regions, with a control plane and two web apps.

| Component | Code | State it keeps | Operations |
|---|---|---|---|
| Adapter KV handlers | `internal/adapter/server.go` | `localMirrorFor` (bucket -> local mirror stream) | GET (latest, by revision), PUT (plain, If-Match, If-None-Match, TTL), DELETE, incr, history, list, admin views |
| Batcher | `internal/adapter/batch.go` | a queue and a flusher per bucket, a semaphore of flush slots | `put`, `flushLoop`, `flush` |
| Key cache | `internal/adapter/keys.go` | map of accepted keys | poll every 30 s, `Validate` |
| Control plane: tenants, keys, invites | `internal/control/handlers.go`, `store.go` | NATS KV buckets (tenants, keys, invite requests), SQLite (invites, audit) | invite, claim, regen-key, suspend, delete, internal key list |
| Control plane: invite requests | `handlers.go:674-809` | KV bucket of requests | submit, approve, decline, list |
| Control plane: buckets | `handlers.go` | streams `KV_<bucket>` and `KV_<bucket>_mirror_<region>` | create, ensure |
| Placement engine | `internal/placement/engine.go`, `geo.go` | none | `Pick`, `scoreGeo` |
| Latency matrix client | `internal/placement/matrix.go` | the last matrix, for 60 s | `Get`, `refresh` |
| User app | `ui/nats-kv-user/src/lib.rs` | in the browser: gate cookie, API key and tenant in localStorage, and each page's script | gate, login and logout, proxies to the adapter and to the Spin store, claim, dashboard, load test, verification |
| Admin app | `ui/nats-kv-admin/src/lib.rs` | gate cookie and the tables on the page | gate, proxy to the control plane, tables of invites, tenants and requests |
| Mains and deployment | `cmd`, `k8s`, `argo`, `infra`, ... | none | wiring |

How they interact: clients call an adapter, directly or through the user app;
the adapter authenticates with its key cache, which polls the control plane; it
reads from the mirror of its region and publishes to the source stream, through
the batcher for plain PUTs when batching is on; a missing shared bucket makes it
ask the control plane to create it. The control plane asks the placement engine
where to put a bucket, and that one the latency hub. It serves tenants (user
app) and admins (admin app) over the same JetStream and SQLite. The NATS server,
the latency hub and the browser are outside the repository; the modules model
them from how the code uses them and mark those definitions external.

What is hard here, and which properties judge it, is in `PROJECT.json`
("hazards"), each at its line. In short:

- concurrent handlers that read, compute and write (incr, create, suspend,
  regen-key, claim, approve, `materializeBucket`), on records that may be stale;
- publishes that outlive the handler that sent them, lost acks, retries;
- batches of several callers on one connection, whose revisions the adapter
  computes itself;
- a key map that is replaced by a list read while keys change; a matrix that is
  fetched by several picks at once and stored whenever it arrives;
- sequences of calls without a transaction, with failures and restarts between;
- page scripts whose handlers await calls while others run, tabs that share
  cookies and localStorage, and a gate whose token is rotated.

What makes each component correct:

- **KV handlers**: a condition holds when the write is *stored*; an increment
  loses no other write; a success names the revision that holds the request.
- **Batcher**: it is indistinguishable from the put it replaces, stores a batch
  whole or not at all, and answers everybody.
- **Key cache**: a revoked key is rejected after the next poll, an active one is
  not locked out, as far as the replicas of the keys' bucket have caught up.
- **Tenancy and invite requests**: an invite is used up only for a tenant that
  works; regen-key revokes; an approval has its invite, and a request one answer.
- **Buckets**: the first request's settings stay; source and mirrors agree.
- **Placement**: the latency decided on is that of a real majority, the geo is
  the best one, and a hub that is down stops nobody who has a matrix.
- **User app**: the gate neither locks the claim page out nor lets a logged-out
  browser in; the proxies add and hide nothing; what a page shows is about what
  was asked last, its numbers add up, and its buttons come back.
- **Admin app**: its tables show what the control plane has.

## 2. Modules

| Module | Models | Lines up with the code |
|---|---|---|
| `KVStream` | the stream of one bucket and its mirrors (external) | `log` is every message ever stored, `held[r]` what replica `r` still has (history depth, TTL), `applied[m]` how far a mirror has copied |
| `AdapterKV` | `handleKV`, `kvGet`, `kvPut`, `kvDelete`, `kvIncr`, `refreshLocalMirrors` | `pc[p]` is the JetStream call the handler of client `p` waits in; `wire` the publishes on their way; `req`, `ans` its request and answer |
| `KVService` | what the KV API promises its clients (abstract) | `open` are the calls that may still take effect, `busy` the clients that wait, `ans` what they are told |
| `KVPut` | what a plain PUT promises (abstract) | |
| `Batcher` | `put`, `flushLoop`, `flush` of `batch.go` | `queue` is the channel, `flusher` the goroutine's place, `flights` the flush goroutines with their slot, `staged` the server's side of a batch |
| `Tenancy` | claim, regen-key, suspend, delete, invites | `job[j]` is a request with the store call it makes next |
| `InviteRequests` | submit, approve, decline, next to all of `Tenancy` | `decision[j]` is an admin's decision with the call it makes next; `links` the links handed out |
| `KeyCache` | `refresh`, `AllKeys`, `Validate`, restarts | `poll[a]` is a poll under way, `cache[a]` the map |
| `AccessControl` | `Tenancy` and `KeyCache` over the same `keys` | `KeyCache` is instantiated: its `keys` is Tenancy's; `behind` are the keys whose latest record some replica lacks |
| `Buckets` | `createUserBucket`, `materializeBucket`, `internalEnsureBucketHandler`, `ensureBucket` | `source`, `mirrors` are the streams, `job[j].seen` the configuration read before `UpdateStream` |
| `Placement` | `Pick`, `scoreGeo`, `Get`, `refresh` | `Decisions(m, a, k)` are the results the sorts may give; `cached`, `fresh` the client's cache; `picks[c]` a call of `Pick` on its way to a matrix |
| `UserApp` | the request handlers of the user app, without state: `handle`, `is_ui_authed`, `call_nats`, `call_cosmos`, `b64encode` | operators from a request to an answer |
| `Session` | one browser at the user app: tabs, cookie jar, localStorage | `tabs[t]` is the page shown, with the handler that runs, or the request under way; `gate` the token the operator has set |
| `DirectKV` | what a direct caller of an adapter is promised (abstract) | |
| `Proxy` | `/api/nats` and `/api/cosmos`, with the caller's `fetchOp` | `calls[c].at` says how far the call has got, `orphans` are calls that go on after their callers were told of a failure; refines `DirectKV` |
| `Preview`, `BucketList`, `LoadTest`, `Verify` | the scripts of the dashboard, the load test and the verification page | variables have the names of the scripts' variables |
| `AdminPage` | the script of the admin page, its gate and proxy, next to people who claim invites | `inCalls` are the calls under way, `inviteRows` and `tenantRows` the tables |
| `Pages` | the parts of the two apps as one specification | one part per behaviour, chosen by the initial state |
| `..._proofs` | theorems (section 4) | |
| `MC...` | model values for TLC | |

Composition. `AdapterKV` EXTENDS `KVStream`, and instantiates `KVService` to say
what handlers, client library, mirrors and wire amount to. `Batcher` models its own stream, a
log of puts, because it writes only and the order of messages on one connection
matters there; it is tied to the rest by `KVPut`, which states what `kvPut` gets
from `kv.Put` and from `batcher.put` alike. `AccessControl` composes tenancy and
key cache, `InviteRequests` tenancy and the decisions. `Buckets` stands alone: no
handler of `AdapterKV` runs before `ensureBucket` has succeeded; what the
placement engine decides is any tag to it. `Session`, `Proxy` and `Verify` call
the operators of `UserApp`: the gate of the session is the gate in front of the
API calls. The pages share no other state, each has a
script of its own, and a tab runs the script of the page it shows; so `Pages`
lets a behaviour be that of one part instead of multiplying their states.

Choices worth knowing:

- *One call, one step.* A handler's local work between two calls is part of the
  step that ends the first; in a page's script a step is what runs between two
  awaits. A publish is two steps (sent; stored or refused), so that it can land
  after its handler has given up.
- *Reads may be stale.* `kv.Get` may be answered by any replica of the stream,
  the source or a mirror; `GET` goes to the local mirror if the map has one. The
  control plane's own buckets have five replicas, and its reads are as stale: of a
  tenant, its keys, a request for an invite, and the records of a poll. Invites
  are rows of SQLite and are read as they are.
- *Failures are not the end.* A call that its caller was told had failed may go on
  and have its effect later: publishes in `AdapterKV`, batches in `Batcher`,
  `orphans` in `Proxy`, `late` in `Verify`, calls that are "adrift" in
  `AdminPage`.
- *Numbers.* int64 is cut down to `-Half .. Half - 1` with the same wrap-around.
  `strconv.ParseInt` with its error ignored gives 0 for text and the limit for a
  number that is too large. Float milliseconds are natural numbers. Bytes and
  base64 are modelled as they are.
- *Requests, messages and entries are records;* a body is a model value or a
  number, an API key is its hash, ids are fresh.
- *Mutants.* A module also holds operators named as mutants (for example
  `KvUpdateBlindTtl`): a plausible bug in the definition they stand next to.
  `PROJECT.json` says which property each one must break. They are not part of
  any specification.

## 3. The runs

Passing runs:

| Run | Instance | Shows |
|---|---|---|
| `contention` | 2 clients, 2 writes each, 1 key, a mirror, no failures, no TTL, 3-bit integers, 2 increment attempts | `RefusalHasNoEffect` (also for the 409 of an exhausted increment), `AppliedOnce` |
| `faults` | 2 clients, 1 request each of all seven operations, with and without TTL, bodies beyond int64, `?revision=` of every number and 0, a mirror, failing reads, timeouts, lost and late messages | `ConditionsHeldAtCommit`, `IncrementsAdd`, `AnswersAreCommitted`, `EveryRequestAnswered`, and `ImplementsService`: `AdapterKV` refines `KVService` (which includes that with failures, too, nothing is stored twice that a handler publishes once) |
| `batches` | 4 puts, batches of at most 2, 2 flush slots, queue of 2, streams with and without `allow_atomic`, every failure | `BatchesAreAtomic`, `ErrorsAreHonest`, `NoLateOverwrite`, and `ImplementsPut`: `Batcher` refines `KVPut` |
| `batch_live` | 3 puts, 1 slot, queue of 1, another writer, failures | `EveryPutReturns` |
| `requests` | 3 handlers of any kind, 2 tenants, 2 keys, 2 invites, a request for an invite, replicas that lag, failing store calls and restarts | `InviteNotBurned`, `ClaimIsUsable`, `ClaimRecordIsFinal`, `OldKeysRevoked`, `ApprovedHasInvite`, `OneAnswerPerRequest` |
| `access` | 2 handlers, 1 tenant, 2 keys, replicas that lag, 1 adapter with up to 2 errors | `OnePollOfGrace`, `PollKeepsActiveKeys`, `RevocationArrives` |
| `buckets` | 2 requests, 2 regions, a tenant's bucket or the shared one, all settings, failures and restarts | `SourceSettingsStick`, `CreatedIsComplete`, `ListedMirrorsExist`, `RetriesKeepRetention` |
| `pages` | every part: 2 tabs, 2 gate tokens, a claim; 2 callers, 7 kinds of calls, 2 stored writes, a call that goes on late; 4 previews; 2 buckets, 2 list loads; 3 workers, 5 operations; all ten tests on buckets of history 1, 2 and 8; an invite and a tenant, 2 calls | `PagesTypeOK`, `ClaimPageWorks`, `LoggedOutIsOut`, `PreviewIsCurrent`, `CreatedIsListed`, `RunIsAccounted`, `VerdictIsEarned`, `TablesSettle`, and `ImplementsDirect`: `Proxy` refines `DirectKV` |
| `pages_live` | the parts that wait, somewhat smaller | `EveryWaitEnds` |
| `placement` | 9 regions in geos of 5, 3 and 1; 5 anchors, one of them no region; every number of replicas; 29 first matrices, 2 later ones; 2 picks | `QuorumIsReached`, `BestGeoWins`, `StaleRatherThanFail`, `EveryPickReturns` |

Runs that TLC must find violated, each against a sentence of the repository
(`PROJECT.json`, "findings"):

| Run | The code | The sentence |
|---|---|---|
| `relock` | a lock released by DELETE cannot be taken again *with a TTL*: that path expects sequence 0, and the delete marker has one | `docs/recipes/distributed-lock.md:35` |
| `oneuse` | two claims of one invite both get a tenant | `SCOPE.md:22` |

Type invariants are proved; `pages` checks those of the web parts.

### Bounds, and why they are enough

The bounds are `MaxRequests`, `MaxAttempts`, `MaxOther`, `MaxErrors`, `Half`,
`MaxRev`, `MaxPreviews`, `MaxLoads`, `MaxOps`, `MaxCalls`, `MaxSamples`, `Later`,
`Attempts`, `Depths` and the sizes of the sets, of which `Orphan` is the number of
calls that go on at once after they failed for their callers.

- *Adapter.* Two clients are what a race on a compare-and-set needs, and the
  stream serialises writes: a third one can only repeat what the second did. Two
  requests per client make a late message meet a newer request of the same
  client. `MaxAttempts = 2` (5 in the code) has a retry and a last attempt. In
  `contention` the one body is text, which counts as 0 and no increment can
  store; in `faults` it is a number beyond int64, which counts as the limit.
  `Half = 4` lets four increments overflow. `History = 2` lets a message be
  dropped while its successor is there.
- *Batcher.* Four puts in batches of two give two batches that interleave on the
  connection; three puts and one slot make callers block on a full queue.
- *Control plane.* Three handlers cover a claim followed by two racing requests
  about the tenant it made, and two decisions racing with a claim; two invites
  let a second approval mint another. Two regions let a failure hit the first
  mirror or the second.
- *Pages.* Two tabs are what a shared cookie jar and store need; two tokens a
  rotation and a rotation back; one claim is in the jar and in the store of both;
  two stored writes make a conflict, and one late call can come before, between
  or after them; four previews let
  two old answers arrive around a new one; five operations keep three workers
  busy past Stop; the bodies have every length modulo 3. `Attempts = 5`, the
  adapter's own number, bounds what one increment of test 7 may store; `Depths`
  has a history that is too short for tests 3 and 4, one for test 3 only, and
  one that is long enough.
- *Placement.* Geos of five, three and one regions have a choice, exactly
  enough, and too few regions for three replicas. The matrices have ties, differ
  by direction, and some have holes. `QuorumIsReached` and `BestGeoWins` are
  facts about a matrix, so they are looked at once per matrix, in the states
  before the first pick; the cache is then run with two later ones.

All these numbers are constants; the theorems below hold for every value.

Where a property is about a world without failures it says so through a history
variable or a field (`failed`, `errors`, `blame`, `crossed`, `muddled`, `stale`) instead
of a run of its own: `ErrorsAreHonest`, `OldKeysRevoked`, `PollKeepsActiveKeys`,
`CreatedIsComplete`, `RetriesKeepRetention`, `CreatedIsListed`,
`OneAnswerPerRequest`, `VerdictIsEarned`, `TablesSettle`.

Deadlock is checked in `placement`, where picks go on for ever. Elsewhere a
bounded number of requests comes to rest; that nobody is left waiting there is
what the liveness properties are for.

### Fairness

- `AdapterKV`: weak fairness of each handler (`net/http` gives a request its own
  goroutine) and of the stream's processing. Nothing is assumed of clients,
  mirrors, or expiry. A timeout is a step of the handler.
- `Batcher`: weak fairness of each caller, of the flusher (its timer fires), of
  each flush goroutine and of the connection. Disconnects are not fair.
- `AccessControl`: weak fairness of starting, continuing and ending a poll (the
  ticker), and of a record reaching every replica. Polls may fail, but at most `MaxErrors` times: an adapter whose every
  poll fails keeps its map for ever, as the code means it to.
- `Pages`: a call is answered or fails (the browser and the Spin runtime give
  up at some time), for every request under way; the deadline of a load test
  passes; a test that has its verdict is followed by the next. Users need do
  nothing, and calls may all fail.
- `Placement`: a fetch ends, one way or another: the HTTP client of the hub has
  a timeout of 15 seconds (`matrix.go:56`).

## 4. What is proved

All theorems are checked by TLAPS from the named assumptions of the modules
only, which say that sets are disjoint from the values that mean "none", that
bounds, distances and times are natural numbers, and the like.

| Module | Theorem | States |
|---|---|---|
| `AdapterKV_proofs` | `TypeCorrect` | `[]TypeOK` |
| | `ConditionalWrites` | `[]ConditionsHeldAtCommit` |
| | `IncrementsAreAtomic` | `[]IncrementsAdd` |
| | `AnswersHold` | `[]AnswersAreCommitted` |
| | `NothingAppliedTwice` | `[]AppliedOnce` |
| | `AdapterIsService` | `ImplementsService`: `AdapterKV` refines `KVService`, with and without failures |
| | `RefusalsLeaveNothing` | `[]RefusalHasNoEffect`, for `~MayFail` |
| `Batcher_proofs` | `BatchedPutIsPut` | `ImplementsPut`: `Batcher` refines `KVPut` |
| | `BatchesStayAtomic`, `ErrorsStayHonest`, `NothingOverwritesLate`, `BatcherTypeCorrect` | `BatchesAreAtomic`, `ErrorsAreHonest`, `NoLateOverwrite`, `TypeOK` |
| `Tenancy_proofs` | `InvitesBuyTenants`, `ClaimsAreUsable`, `RevokingIsThorough`, `RecordsAreFinal` | `InviteNotBurned`, `ClaimIsUsable`, `OldKeysRevoked`, `ClaimRecordIsFinal` |
| `InviteRequests_proofs` | `ApprovalsHaveInvites`, `RequestsAreAnsweredOnce`, `LinksWork`, `InvitesStillBuyTenants` | `ApprovedHasInvite`, `OneAnswerPerRequest`, `LinksHaveInvites`, and `InviteNotBurned` of the composition |
| `AccessControl_proofs` | `RevocationsCount`, `PollsKeepKeys` | `OnePollOfGrace`, `PollKeepsActiveKeys` |
| `Buckets_proofs` | `SettingsStick`, `CreatesAreComplete`, `MirrorsExist`, `RetriesAgree` | `SourceSettingsStick`, `CreatedIsComplete`, `ListedMirrorsExist`, `RetriesKeepRetention` |
| `Pages_proofs` | `ClaimsGetThrough`, `LoggedOutStaysOut` | `ClaimPageWorks`, `LoggedOutIsOut` |
| | `ProxyIsTransparent` | `ImplementsDirect`: `Proxy` refines `DirectKV` |
| | `RunsAreAccounted`, `StopStops` | `RunIsAccounted`, `StopIsFinal` |
| | `PreviewStaysCurrent`, `CreatedGetsListed`, `TablesGetRight` | `PreviewIsCurrent`, `CreatedIsListed`, `TablesSettle` |
| | `VerdictsAreEarned` | `VerdictIsEarned` |
| | `Base64RoundTrip`, `PagesTypesCorrect` | `atob` inverts `b64encode`, for bodies of every length; `PagesTypeOK` |
| `Placement_proofs` | `DecisionIsQuorum`, `DecisionIsBest`, `HubMayBeDown` | `QuorumIsReached`, `BestGeoWins`, `StaleRatherThanFail` |

Each module also proves its type invariant, and its inductive invariant as a
theorem or lemma of its own.

Two theorems have a hypothesis. `RefusalsLeaveNothing` is about a world without
failures (`~MayFail`): with them a refusal proves nothing, since the answer may
be a timeout (section 5). `ProxyIsTransparent` is about requests without
`X-TTL-Seconds`, which the app drops; so is the run.

The arguments:

- *AdapterKV.* None of the properties is inductive. That a stored write met its
  condition depends on what the message on the wire carried, that on what the
  handler had computed when it sent it, and an answer depends on the ack. `IInv`
  follows a publish along that way: `HandlerInv` (what a handler may be about to
  write), `WireInv` (every message on the wire, even one whose handler is gone,
  serves the request it names, and is the current one of its handler only if the
  tags match), `ReplyInv` (an ack names the message it acknowledges), `LogInv`
  (the properties, entry by entry, about the revision replaced) and
  `AnswersAreCommitted`. The point that needs the strengthening is the late
  message: a handler that timed out may be two requests further on when its
  message is stored, and the ack must not be taken for the newer one's.
  How often a request is stored needs two more invariants. `OnceInv`: without
  failures the only message a client has out is the one its handler waits for,
  and a request with a stored message is one that was told so. `ShotInv`: with
  failures messages outlive their handlers, but a handler that may publish again
  under the same number serves an increment or the library's `Create`, so all
  other requests have one message in all, on the wire or in the log.
  The refinement maps a call to open as long as its handler runs or its message
  is on the wire. `Commit` is the stream storing a message, `Succeed` and `Refuse`
  are the answers, `Forget` is a message that is refused or lost when its handler
  is gone; what the client library, the mirrors and the retries do in between is no
  step at all. A `Commit` must replace the newest message of its key, which the
  expected sequence shows only if the source still holds that message:
  `HeldInv` says it does unless it had a TTL, because the history depth evicts the
  oldest of a key. That a reliable service stores no request twice and none that
  it refuses is `OnceInv` again, and `ShotInv` with failures.
- *Batcher.* `IInv` follows a put: it is in one place only (`PlaceInv`), its
  caller waits until it is answered (`CallerInv`), the flusher and the flush
  goroutines have counters that fit where they are (`FlusherInv`, `FlightInv`,
  `AnswerInv`); of a batch, the stream has staged the beginning and the
  connection holds later messages in order (`WireInv`, `StageInv`), and it is
  stored whole by its last message or not at all (`StoreInv`), where the ack
  says, so that the revisions the adapter computes are those of the puts.
  `HonestInv` adds, while nothing has failed, that no message is missing between
  the staged and the sent ones; `OrderInv`, that what is left of a put that had
  returned lies before a later one's messages on the connection. In the
  refinement the message that completes a batch is one `Commit` of `KVPut`, which
  stores its puts in order; an answer put into a caller's channel is a `Return`;
  and the steps of the flusher and of the other messages stutter.
- *Tenancy.* `JobInv` says what a request has achieved by the store call it is
  at; `Steady` says what no step of anybody undoes (issued keys, revocations,
  claimed invites, tenants that exist), so the others keep it. A restart only
  ends requests.
- *InviteRequests.* Decisions share jobs and invites with Tenancy, so `RInv`
  contains its invariant and reuses its lemmas; `OneInv` says that a request in
  good order has one decision at a time, which has read the record as it is.
- *AccessControl.* A poll's list is the state of no single moment. `PollInv`
  says what is true of it all the same: it has no key that every replica had as
  revoked when it began, and it has, or has still to read, every active key that
  every replica had then.
- *Buckets.* `JInv` says what a request knows at each call, in particular that
  the configuration it read still has the source's age and placement when it is
  written back, although others wrote in between; `Steady` that nobody undoes
  what any request has made. `RetInv` is about a time in which all requests wish
  the same: source, mirrors, and what a request has read or is about to write
  agree with the wish.
- *Session.* A page is judged when it is shown, and decided when its request is
  sent and when it is handled; the invariant follows a navigation through these
  steps for every tab, with the cookie as the others leave it.
- *Load test.* The invariant is the conjunction of the properties themselves: a
  run starts from nothing because the last one left no worker.
- *Preview, bucket list, admin tables.* What a page shows is decided by answers
  that overtake each other. `PreviewInv`: a body that is being read is of the
  newest preview, unless that was asked for in the meantime. `ListInv` and
  `TableInv`: while loads neither overlap nor fail there is one at most, and what
  it has listed, or the table once it is through, is right about everything that
  was done before. Of the admin tables it is right up to claims, which come from
  elsewhere: `joined` are the tenants that they brought since the last list.
- *Verification page.* `VerifyInv`: while no call of a test has failed, nothing
  is late and the bucket holds exactly what the calls made so far write
  (`WrittenBy`), so each answer is one the test accepts, unless a replica lags or
  is slow, or keeps too few messages of a key (no test fails by itself otherwise). With failures the bucket may hold anything;
  then what a test is named for has to follow from the answers it insists on, and
  the writes that come late must not undo it. Test 5 accepts nothing that a
  failed call may be answered with; tests 2 and 6 do, and are excepted.
- *API calls.* An abstract call is open until the app has the backend's answer;
  the gate and the forwarding are stutters, a lost call is a return of silence,
  an error in the envelope a failure, and a call that goes on is an orphan there, too.
  `ApiInv` says what a call carries on its way (what the adapter is sent is what
  `CallNats` makes of the request) and what the cells may hold; `Base64RoundTrip`
  (by the lengths modulo 3) says that the envelope loses nothing.
- *Placement.* Once a matrix is cached there is one for good, on every path. The
  decision reads order statistics off sorted lists; in the model they are sets
  of times, and every set of natural numbers has a least one (well-foundedness
  of `<`), every finite set of regions a farthest one (well-founded strict
  inclusion). From these: the distance that the code reads off is reached by
  enough peers, and closer ones are too few (`EdgeIsOrderStatistic`); so a leader
  commits at its edge (`LeadersCommit`), no leader and majority are earlier
  (`NoneIsEarlier`), and every geo with enough regions has a nearest choice to
  be compared with (`EnoughRegions`).

Only model-checked is liveness, which is out of the prover's reach:
`EveryRequestAnswered`, `EveryPutReturns`, `RevocationArrives`, `EveryWaitEnds`
and `EveryPickReturns`. Every other property of the passing runs has a theorem.

## 5. What the code does not promise

Seen while modelling, and left as the code has it; no passing run claims the
opposite.

Adapter and batcher:

- `kvIncr` retries after *any* error of its write, also after a timeout whose
  write was stored: one increment counts twice. With failures `AppliedOnce`
  and `KVService` (`AtMostOnce`) are therefore about the requests that a handler publishes once: neither increments
  nor the library's `Create`.
- A create whose ack is lost is answered 412 although it is stored: nobody wins
  (`docs/recipes/idempotency-key.md:31` lets the winner go on).
- A GET through the local mirror may miss a PUT that its client has completed.
- `?revision=` that is no number, or 0, is answered with the latest value
  (`server.go:462` ignores the error); a read by revision that fails is a 404.
- DELETE ignores If-Match (`DECISIONS.md:34` lists it as optional): a lock holder
  whose lease ran out deletes its successor's lock.
- When the message of a TTL write expires in a bucket with history, the older
  value of the key is read again.
- A put of a batch on a stream without `allow_atomic` fails, alone it succeeds:
  what a caller gets depends on who else writes. One put that is too large fails
  its whole batch.

Control plane:

- Revocation is polled: the adapters fetch all keys every 30 s (`keys.go:56`), and a
  poll may be answered by a replica that lags, which keeps the key for another
  round. `DECISIONS.md:121` has adapters watch the bucket and revocation in under
  100 ms, and so have the comments at `control/store.go:37` and `:48`; nothing
  watches.
- regen-key and delete ignore errors of listing and revoking, and miss keys that
  the replica which lists them does not have yet. Two concurrent
  regen-key requests leave two active keys; one that found its tenant before it
  was deleted gives the deleted tenant an active key, which the dialog of
  `ui/nats-kv-admin/src/lib.rs:333` rules out. `OldKeysRevoked` is about the keys
  that the tenant had when the request came.
- suspend writes back the record it read: a tenant deleted in between returns.
- Overlapping decisions on a request for an invite may hand out two links, or a
  link for a request that ends up declined; so may a second decision that reads
  the request from a replica that lags. The error of storing a decision is
  ignored: the link works and the request stays pending.
- A key whose record cannot be read is left out of a successful poll.
- A control plane that stops between a shared bucket's source and its mirrors
  never makes the mirrors: ensure finds the source and answers "exists".
- A repeated create with other settings gives new mirrors another age or TTL
  support than the source has (`handlers.go:428`; line 413 means them to agree).

Placement:

- A region the anchor has no distance to counts as 0 ms: it is sorted first.
- A status other than 200 or a body that does not decode fails a pick although a
  matrix is cached; `DECISIONS.md:250` says the cache serves stale on failure.
- Picks that find the cache stale all fetch, so there are several round trips
  per TTL (`matrix.go:40`: at most one), and they wait for the hub (`matrix.go:61`:
  in the background). An older matrix that arrives late replaces a newer one.
- A placement of one replica needs the matrix too, and fails without it.

Web apps:

- A redirect or claim page still under way to another tab sets the cookie again
  after logging out.
- A key saved without its tenant keeps the label of the old one, and handlers of
  two tabs that store a key and a tenant each may leave the key of one with the
  tenant of the other. The logout
  dialog wipes a key that was claimed in another tab since and that it never
  showed.
- `X-TTL-Seconds` is not passed on by the user app; only `?ttl=` gets through.
- The sequence number of a preview is not looked at again after its body has been
  read: a newer choice may get an older placement. Overlapping loads of the
  bucket list, or of the admin tables, may leave an older one; so may, of the
  tenants, a replica that lags, and a tenant that a claim brought shows at the
  next load.
- A direct load-test run counts one operation as two errors if its body cannot
  be read after a bad status.
- The verification's tests 2 and 6 may pass because of a failed call, and tests 3
  and 4 fail on a healthy bucket with a history of less than 3, or of 1
  (`lib.rs:2926-2945`; the page offers any bucket of the tenant).
- The admin app's proxy drops the query: the buttons that ask for more (claimed
  invites) get the same list, and the note of a decision is lost. Create clicked
  twice makes two invites and shows one link.

## 6. What is not modelled, and why

- `kvHistory`, `kvListKeys`, admin and topology views, `meHandler`, `adminOnly`,
  `userOnly`, the audit log: they read, or write what nothing reads back.
- Payload sizes and wording; a publish that is too large is a publish that fails.
- Bucket provisioning: replicas and history, the move of the stream's leader, the
  change-stream mapping.
- User app: the topology map, the playground, the bucket pickers, the API
  explorer and the docs pages show what they read and keep no state between
  steps. Admin app: a missing or wrong admin token, which makes every call fail
  alike.
- Hashing and ids (taken as injective and fresh), the mains, manifests,
  terraform, scripts and dashboards.
- The NATS server itself, beyond what the code relies on. Leader changes that
  lose acknowledged writes are taken not to happen.
- The adapter never sees a tenant, so suspension has no effect in the data plane;
  there is nothing to model.

## 7. Plan

Done, in the order of importance: the KV core (`KVStream`, `AdapterKV`) and its
refinement of `KVService`; the
batcher and its refinement of the plain put; tenancy, the key cache and their
composition; bucket provisioning; invite requests; placement; the two web apps
and their refinement of the direct calls; and proofs of all safety properties,
of the refinements, and of the type invariants.

Next:

1. Reads of the adapter that are left out: `kvHistory` and `kvListKeys` walk a
   stream while others write to it.
2. What the pages of the user app show of it (the key browser and the history
   view), next to `Preview` and `BucketList`.
3. Control plane: what the user API (`meHandler`, the bucket list of a tenant)
   reads while claims and deletions run.
