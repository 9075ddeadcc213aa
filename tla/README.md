# A verification of the Forward Go SDK

The SDK (`src/`, package `forward`) is a client library: it keeps no data of its
own, and almost everything it does is one HTTP request to a Forward appserver.
What can go wrong in it is what happens *around* the requests: which of them may
be repeated, what a lost answer means, what several goroutines share, and what a
sequence of requests makes of a server that changes between them. This project
models those parts as state machines, checks them with TLC on small instances
and proves the safety properties that matter most, for all values of the
constants, with TLAPS.

## The system

### Components, their state and their operations

| component | source | state it keeps | operations |
|---|---|---|---|
| collection operation | `operations.go` (collection half), `collector_tasks.go` | `mu`, `waitMu`, the published `CollectionOperationState`; each `Wait` has a copy, deadlines and `consecutiveMisses` | `StartCollectionOperation`, `ResumeCollectionOperation`, `Handle`, `Current`, `Wait` |
| snapshot operation | `operations.go` (snapshot half), `snapshots.go` | the same for one snapshot | `StartUploadOperation`, `ResumeOperation`, `Handle`, `Current`, `Wait` |
| retry loop | `retry.go` | per call: attempt, body, wait; shared by a client and its `ForNetwork` clones: `cooldown.until` | `Client.send`, `WithIdempotent`, `WithoutRetry`, `RetryPolicy` |
| browser session | `browser.go`, `browser_csrf.go`, `browser_saml.go` | `browserCSRFState{mu, token}`, the cookie jar | a write in browser mode, `Login`, `Impersonate`, `ImpersonateWithServiceCredential`, `SAMLAssertionConsumer` |
| NQE paging | `nqe_paged.go`, `nqe.go` | per pass: pinned snapshot, total, rows, keys seen | `NQEService.RunAll` |
| request pipeline | `client.go`, `auth.go`, `hooks.go`, `decoding.go`, `raw.go` | configuration, the bound network of a `ForNetwork` clone | `newScopedRequest`, `do`, `doAccepted`, `doRequired`, `doWithTimeout` |
| errors | `errors.go` | none | `classifyErrorResponse`, `IsStatus`, `isGone` |
| poller, Predict | `poller.go`, `predict*.go` | `Poller.current` under an `RWMutex` | `Refresh`, `Wait`; change sets, `commit`, `Run`, `RunOperation` |
| capabilities | `capabilities.go` | profile and evidence under an `RWMutex` | `requireCapability`, `observeCapability`, `recordVersion` |
| services | about ninety files, one `XService` each | none | one request per method, a few sequences: `DeleteOrgCleanly`, `Readiness`, `ExportSubset`, `WaitForSubnetConnectivity` |
| coverage catalog, `cmd/`, `perfpayload/` | generated data and one-pass tools | none | printing, comparing source text, encoding |

`PROJECT.json` lists every component with its files and what is modelled of it.

### How they interact

A service method builds a request (network scoping, capability gate) and hands
it to `Client.do`. In browser mode `do` first attaches the session's CSRF token,
fetching it through `do` itself, under `browserCSRFState.mu`. `do` calls `send`,
which repeats attempts by the policy and waits out the cooldown that every clone
of the client shares; `net/http` reads and writes the cookie jar on every
attempt. The operations, `RunAll`, the export loops and `Poller` are loops over
service methods; their callbacks (`OnUpdate`) run in the goroutine of the loop.

### Where it is hard

* *Concurrency*: `Wait` calls on one operation, writes and sign-ins on one
  session, calls that share a cooldown, `Refresh` next to `Wait`.
* *Lost answers and retries*: an outcome that is not known, a proxy's 502 for
  work that is still being done, a sign-in the client has given up.
* *Crashes*: handles of operations are made to be saved and resumed.
* *A server that changes between requests*: snapshots deleted, reprocessed or
  left out of a listing, other people's collections, a newer snapshot between
  two pages.
* *Deadlines and limits*: appearance and processing timeouts, `MaxDelay`,
  `Retry-After`, `int32` offsets, attempts.

`PROJECT.json` lists each hazard at the line where it bites, with the properties
that cover it, or with the reason why none does.

## The modules

| module | what it is |
|---|---|
| `Operations` | phases, snapshot states and recorded instants that both operations share |
| `OperationPromise` | abstract: the one outcome that all `Wait` calls of an operation are about, with no server and no polls in it |
| `CollectionOperation`, `…Proofs` | one collection, its starter, its waiters, the server and crashes; implements `OperationPromise` |
| `SnapshotOperation`, `…Proofs` | one uploaded or known snapshot and its waiters; implements `OperationPromise` |
| `DeliveryPromise` | abstract: what a caller may rely on, with no attempts or network in it |
| `RetrySend`, `…Proofs` | `Client.send` and the cooldown; implements `DeliveryPromise` |
| `BrowserSession`, `…Proofs` | token cache, jar, writes, sign-ins, Forward's session chain |
| `ReadPromise` | abstract: what a reader of many pages may rely on, with no pages, offsets or totals in it |
| `NQEPaging`, `…Proofs` | `RunAll` over an unstable server; implements `ReadPromise` |
| `Calls` | the words in which a service method is stated: verb, effect, ids, reply, meaning of a 404 |
| `AccountCalls`, `AnalysisCalls`, `IntegrationCalls`, `NetworkCalls`, `PredictCalls`, `SnapshotCalls`, `SourceCalls`, `SystemCalls` | the catalogues: every method of every service |
| `Errors` | `classifyErrorResponse` and `isGone` over what Forward's handlers say |
| `ServiceCall` | one call of any method, from its arguments to what its caller is told |
| `OrgDeletion`, `…Proofs` | `DeleteOrgCleanly` with the users of the organization at work |
| `Poller`, `…Proofs` | `Poller.Wait` next to `Refresh`, over a predicted snapshot |
| `Services`, `…Proofs` | calls, the two sequences and the kinds of errors put together; its guarded calls implement `DeliveryPromise` |
| `MC…` | the instances TLC checks: model values and symmetry |

### Collection operation

`op` is `CollectionOperation.state` (published under `mu`; `publish` is atomic
there, so `mu` is not a variable), `waitMu` is the mutex of that name, `local`,
`misses` and `pc` are the locals of a `Wait` call: `lock` is in front of
`waitMu.Lock()`, `task`, `discover` and `known` are its three loops. One poll,
the request, the publication and the verdict on it, is one action: nothing else
writes the state meanwhile, because `Wait` holds `waitMu` and the server's
answer is one instant. `starter` walks through `StartCollectionOperation` in its
three parts, the baseline, the time stamp and the POST, between which the server
moves. `saved` is the handle a caller has persisted; `Crash` loses the rest.

The server runs one collection of the network at a time, makes the snapshot of a
succeeded one some time later, and may leave a listed snapshot out of fewer than
`MissingThreshold` consecutive answers: that is what the threshold exists for.
It may (`reports`) or may not give the time stamps the code falls back from.
Instants are ages that saturate at `MaxAge`, no less than every timeout, since
the code only asks whether a timeout has passed.

Client and server have a clock each. The client's is `Ahead` ticks ahead, or
behind when that is negative. `createdAt` and `finishedAt` are the server's, all
else is the client's: the appearance deadline counts from the server's
`FinishedAt` on the client's clock (`ClientTime`), and where a task has no
`createdAt` a `StartedAt` of the client's clock is compared with creation times
of snapshots (`NowAmongSnaps`).

### Snapshot operation

The same frame. The code differs, and so does the module: a failure is polled
again (`Done` is success only), an upload counts as appeared at once, and one
deadline replaces the other when the snapshot appears. `shown` marks that an
answer has listed the snapshot, `known` since when, `processed` that the server
has finished it once: what the properties are about.

### Retry loop

`pc` walks through the loop of `send`: `cooldown.wait` with its one load, the
attempt, `cooldown.set` with its load and its compare-and-swap as two actions,
the decision, the backoff, the rewinding of the body. The server acts during an
attempt or, when the caller cannot tell, later (`loose`): a connection lost with
the request written, a 502 of a proxy, an injected transport without evidence. A
503 stands for a refusal except for calls whose handler answers it with the work
begun (`Deferring`, as the comment on `WithoutRetry` describes). A `Retry-After`
beyond a `time.Duration` is `Forever`; that it overflows to an instant in the
past is kept.

### Browser session

A call goes through asking for a token, posting and resetting; an answer that
exists (`Serve…`) and its headers reaching the jar (`Land`) are separate steps,
since other goroutines read the jar in between. The server is the session chain
that the repository's own stand-in implements (`browser_saml_test.go`): a token
belongs to a session and changes with a sign-in, a request without a live
session gets a fresh anonymous one. `orphan` records a sign-in the server
performed after the client had given it up, `disturbed` that a write saw the
session change; both only qualify properties.

### NQE paging

A row is its key; a page is any sequence of rows of its snapshot, with
repetitions and omissions, and claims any total. `pass` holds the locals of
`runAllOnce`, and the whole evaluation of a page is one action (it shares
nothing). Offsets are counted by `rows`.

### The calls of the services

Ninety files of the SDK are services whose methods differ in few things that
matter: the verb, what the server does, which ids become part of the route and
which of them the method insists on, whether a client's bound network stands in,
what body it takes for success, what a 404 and a 409 mean to it, whether the
capability registry or the kind of principal is asked first, whether it repeats
the request itself. `Calls` names these; a catalogue has sets named for
what a service or a file of it deals with (`Banners`, `Licenses`, …), whose
members stand for all the methods there that share one combination, and list
them in `ops`.

`ServiceCall` runs a member: `Refuse` or `Begin` are the checks before the
request, `Send`, `Repeat` the retry loop, reduced to what it repeats
(`Retryable`, and `once` for a call under `WithoutRetry`; `RetrySend` has the
rest), `StartOver` the loops that some methods
have around it (`ExportSubset`, `ExportSubsetCompatibility`, the list of checks),
`Finish` what `doAccepted`, the decoding and the method make of the last answer
(`Tell`). `Network` is the server and what is between: it declines, performs the
call and answers with any 2xx body or a 500, or nothing comes back. A request
that is given up may be acted on later (`late`), another client makes and removes
the thing (`Other`), and another call records the capability (`OtherObserves`).
`served` is false for a server too old to have the route.

`Errors` states the answers of Forward's handlers, as `errors.go` quotes them, as
sets of words: those of the sentence, those of the URL that the body repeats, and
those of a customer's names, which may be in the message or only in the body.
`Message` is what the network rule reads, `Detail` what the others do; `Classify`
is `classifyErrorResponse` on those. `Misleads` lists the answers that it takes
for something else than the handler means:

* a start of a collection refused for another reason, with "already" and
  "progress", "running", "active" or "underway" in a name (`LooksRunning`);
* a 403 without a sentence of its own whose text, names and URL included, has
  "credential" or "token", or "auth" and "fail" (`LooksLikeLogin`): the URLs of
  credentials and tokens do;
* reachability that is pending, with "failed", "canceled" or "timed out" in a name
  (`LooksFailed`);
* a refusal below `/api/snapshots/` with "not" and "processed", "still" and
  "processing", or one of the phrases, in a name (`LooksUnprocessed`);
* a missing thing with "network" in its name, or, when the 404 has no message, in
  its URL (`LooksLikeNetwork`).

### Deletion of an organization, and Poller

`OrgDeletion` has one action per call of `DeleteOrgCleanly`, each of which may
fail with its work done or not, between the actions of the organization's users
and administrators. `touched` and `orphans` are histories. `Poller` separates
the answer to a read (`Poll`, `RefreshReads`) from its storing (`Store`,
`RefreshStores`), since `mu` is held for the second only.

## The runs

| run | instance | what it shows |
|---|---|---|
| `collection_waiters` | 2 waiters, 1 task, 1 snapshot, a client's clock one tick behind | the waiters are told one outcome and no other (`OperationPromise`), phases advance, ok means processed, timeouts are not early, every `Wait` ends after its task |
| `collection_others` | 1 waiter, 2 tasks, 3 snapshots, 2 of them older and the newer of these an import, a client's clock one tick ahead | what is attached follows its task and the baseline, also a deleted one; deadlines survive crashes; gaps are no deletion |
| `collection_own_snapshot` | 1 waiter, an empty network, one clock, no gaps | violation: a collection that has finished before the baseline is captured, and whose snapshot is listed only afterwards, has that snapshot taken for this one's |
| `snapshot_upload` | 2 waiters, timeouts 1 and 2 | the same questions for a snapshot, with reprocessing; `OperationPromise` is implemented with success as the only final outcome |
| `retry_once` | a POST and a create under `WithoutRetry`, 2 attempts | at most one effect, refusals are reliable, bodies are whole, `DeliveryPromise` is implemented |
| `retry_cooldown` | a GET and a marked query that share a cooldown, `RefusedOnly`, `Retry-After` to 2 with `MaxDelay` 1 | the longer lockout survives the race, every call returns |
| `paging` | 2 snapshots, pages of 2, at most 3 rows, 2 attempts | `ReadPromise` is implemented: one snapshot per pass, nothing left of a pass given up; whole answers, offsets in bounds, `RunAll` returns |
| `browser_writes` | 2 writes, an impersonation, 3 sessions | shared fetch, refusals only after a disturbance, no call waits for ever |
| `browser_sign_ins` | a write, a login, a repeated impersonation | no token of an old principal survives |
| `browser_late_sign_in` | as above | violation: a sign-in performed after it was given up leaves a stale token |
| `services` | every method but the ones below, 2 attempts; an organization of two networks and a workspace; a snapshot that changes twice, a `Refresh` next to `Wait`; every error answer with eight words or phrases a name may bring | success is real; what cannot be done twice is done once and reported as it is (`DeliveryPromise`); no orphaned networks; updates go forward; an error is classified as meant unless it is one that `Misleads`; everything returns |
| `services_deletes` | the deletes that take every 404 for success | violation: a delete is reported on a server that does not serve its route |

Bounds. Two waiters, calls or writes are enough for every pairwise race, and the
code treats all goroutines alike. Two attempts show the first repetition and the
end of the loop; two tasks and three snapshots give an older snapshot, this
collection's and somebody else's in any order. A threshold of two distinguishes
a gap from a deletion; `collection_own_snapshot` has one, which lets no answer
leave a snapshot out, so that the counterexample owes nothing to a gap. The two
passing collection runs have the client's clock on either side of the server's,
by a whole timeout; `collection_waiters` varies only what a task reports
(`TaskReport`), because on a network without a history no snapshot's time is
looked at before the task's own is attached. `MaxRows` 3 with pages of 2 gives a full page, a short one
and a total past the limit. Ages to 1 or 2 reach each timeout and pass it. A
call of the services is checked once per shape: methods that differ only in the
names of their ids and arguments take the same steps (`Shape` in `MCServices`).
The own repetitions of a method are the code's own numbers (4 for the lists of
checks, 24 for the exports). A parent, its workspace and another network are the ways
networks can depend on each other; two changes of a predicted snapshot give
an older, a newer and an equal value in the handle. `Services` starts in one of
four machines that share no state, chosen by `part`; the others stand still.
`CHECK_DEADLOCK FALSE`: calls that have all returned leave nothing to do.

Every property of a passing run has a mutant of a modelled definition, a bug this
code could have, that violates it.

### Fairness

Only the client's own steps are fair; the server never has to make progress.
A request ends because `http.Client` has a timeout (60 s unless configured,
`client.go`), so a poll or an attempt comes back with an answer or an error
(`Network` of `ServiceCall` is fair for this reason only); a goroutine that can
run does (`CallStep`, `Organization!Caller`, `Handle!Waiter`); time goes on
(`Tick`). Taking a `sync.Mutex` that is free again and again is strongly fair:
Go's mutex turns to hand-off when a waiter has starved for a millisecond. A
context ends only if the caller ends it, so no property relies on that.

### What the models take from outside

The SDK leans on what Forward does. The models take from the comments and tests
of the SDK, and assume:

* a route that is not served is answered with Spring's "No endpoint" text
  (`errors.go`, `isNoEndpointMessage`), and nothing is done;
* 429 and 503 leave the server untouched, but for the calls whose 503 may come
  after the work (`Deferring` in `RetrySend`, `slow` in the catalogues);
* a 409 of the methods marked `Granted` says that all is so already
  (`nqe_repository.go`);
* the users of a disabled organization cannot make networks, and nobody enables
  it again while it is deleted (`organizations.go`);
* a snapshot keeps its id, and one that is listed is left out of fewer than
  `MissingThreshold` consecutive answers unless it has been deleted;
* the clocks of client and server differ by the same `Ahead` throughout, also after
  a resume in another process;
* names bring any words into an error's text that a rule looks for, but no whole
  fixed sentence of Forward's, and not the start of a message; a 404 without a
  message has no more than "Not Found" and the URL besides.

## What is proved

Every safety property that a passing run checks is also a theorem,
`Spec => []P`, or `Spec => A` for an action property or an abstract
specification `A`, for every value of the constants that the named assumptions
allow. The assumptions state types, that bounds are large enough for the timeouts
(`MaxAge`, also on the client's clock), and that `None` is not one of the values
it is told apart from; `AllSound`, which says more, is named below. Every inductive
invariant was checked with TLC before it was proved.

### Collection operation (`CollectionOperationProofs`)

* `TypeCorrect`, `LocalIsAlwaysCurrent`, `SnapshotAlwaysFollowsTask`,
  `SavedHandleAlwaysHolds`. `IInv` adds to the properties what a handle, live or
  saved, records about the server (`HandlesSound`), what the starter has captured
  (`StarterSound`) and what each point of a `Wait` call knows (`WaitsSound`):
  without the second, a baseline captured before the POST says nothing about the
  task it starts. Server steps only let histories grow (`Grows`), which keeps all
  of it.
* `OkAlwaysMeansProcessed`, `TimeoutsNeverEarly`, `PhaseAlwaysAdvances`,
  `DisappearedAlwaysDeleted`. `VInv`, inductive on top of `IInv`
  (`VerdictsInvariance`), bounds every recorded instant by what it stands for
  (`ClockSound`), ties an end of the operation to one the server has come to
  (`EndSound`), and says that no call polls after it, so that a verdict once
  returned is not overtaken by the call that waits behind it (`CallsSound`).
  `MissesSound` counts the misses of a listed snapshot against the answers in a
  row that left it out. `Ahead` is any integer in all of this. So
  `TimeoutsNeverEarly` says how far the appearance timeout is off: early by no
  more than the client's clock is ahead, late by what it is behind, exact when the
  task has no `FinishedAt`; the processing timeout is never early. And
  `SnapshotAlwaysFollowsTask` speaks of the baseline only under `StartTrusted`: a
  client that is behind and a task without `createdAt` let a snapshot through that
  is no newer.
* `Refinement`: `Spec => KeepsPromise`. `waitMu` makes the observations a
  sequence, and `IInv` and `VInv` make each a step of `OperationPromise`: a poll
  that returns is `Return`, one that goes on is `Observe`. `WaitersAlwaysAgree`
  follows: no two calls are told different ends.
* `AloneIsOwn` says why `collection_own_snapshot` ends as it does, and that there
  are no other reasons: on a network that nobody else collects (`OnlyCollection`),
  with a baseline that no collected snapshot in the list is newer than when it is
  taken (`BaselineUpToDate`), and with a start that is the server's word or that of
  a clock that is not behind it (`StartTrusted`), the snapshot attached is the
  task's own, also after crashes. The first condition is the one that
  `collection_own_snapshot` shows to be needed. The second fails when the answer to
  the listing leaves the newest snapshot out, or when the caller gives an old
  baseline.

### Snapshot operation (`SnapshotOperationProofs`)

* `TypeCorrect`, `LocalIsAlwaysCurrent`, `OkIsProcessed`,
  `SavedHandleAlwaysHolds`, `NoTimeoutEarly`, `DisappearedAlwaysDeleted`. `IInv`
  ties the instants of every handle to `begun` and `known`, a published success
  to what the server did, and misses to gaps (`MissesSound`).
* `Refinement`, into the same promise with other constants: only a success is
  final here, because the code polls a failed snapshot again. That
  `WaitersAgree` is not claimed for snapshots is the difference.

### Retry loop (`RetrySendProofs`)

* `TypeCorrect`, `MutatesAtMostOnce`, `RefusalIsReliable`, `BodiesAreWhole`,
  `LockoutsHold`. `GuardedSound` counts, at every point of the loop, what the
  server has done for a call that must not be repeated, late effects included.
* `AttemptsBoundEffects`: of *any* call, repeatable ones too, the attempts and
  what the server does of them are no more than the policy's `Attempts`.
* `StepsRunOut`: every step of a call takes it on to a further place in an attempt
  or to another attempt (`Onward`). The loop of `cooldown.set` is the exception,
  and is lock-free: a compare-and-swap fails only when another call has made the
  cooldown longer since it was loaded (`LoadedBefore`).
* `Refinement`: `Spec => KeepsPromise`, each step of the loop a step of
  `DeliveryPromise` or a stutter.

### Browser session (`BrowserSessionProofs`)

* `TypeCorrect`, `NoStaleToken`, `UndisturbedAccepted`, `OneFetch`. The argument
  is about settled sessions: nothing but a reset settles a session that is being
  signed in to (`OnlyResetsSettle`), a reset empties the cache under the mutex,
  and a fetch that spans one holds that mutex (`FetchingHoldsLock`), so its token
  is the session's (`FetchIsTheSessions`).
* `OtherwiseDropped`: a sign-in performed after it was given up is the only cause
  of the counterexample of `browser_late_sign_in`.
* `StepsRunOut`: every step takes its call on, to another of its boundedly many
  requests (`WithinLimit`) or to a further place, nobody else takes it back, and
  the mutex is held only over a request of its holder, so that those who wait for
  it wait for an answer and not for each other.

### NQE paging (`NQEPagingProofs`)

* `TypeCorrect`, `NeverMixed`, `ReturnsWhole`, `OffsetsFit`. Rows without
  repetition that are as many as the snapshot has are all of them.
* `Refinement`: every page is a `Read` of `ReadPromise`, a pass that did not add
  up a `StartOver`.
* `PagesRunOut`: every answer, whatever it says and an empty page too, ends
  `RunAll`, starts another of at most `Attempts` passes, or adds a row, of at
  most `MaxRows`; nothing takes any of that back. This is the measure behind
  `RunAllReturns`; what is not proved is that answers come.

### The calls of the services (`ServicesProofs`)

The theorems about `ServiceCall` are for every set of methods all of which are
sound (`AllSound`) and any number of attempts. `SoundMethod` is what the retry
loop expects of a method, and TLC evaluates it on every method of the catalogues
(`CatalogueIsSound`), the deletes of `services_deletes` excepted, so the two
together speak of the SDK.

* `TypeCorrect`, `ActsOnce`, `SuccessHappened`. The invariant counts, at each
  point, the requests that may have acted (`Settled`), and what the last answer
  says about the thing (`Evidence`).
* `CallsKeepPromise`: a call that must not be done twice implements
  `DeliveryPromise`, the promise of `RetrySend`, this time through everything a
  method does around the loop. The invariant needs one more part, `Quiet`: when a
  caller has been told that nothing was done, no request of it is still under way.
* `StepsRunOut`: every step of a call raises one of `tried`, `attempt` and the
  stage (`Onward`), each of which is bounded, and no step of anybody else lowers
  one: the measure behind `CallReturns`.
* `KindIsMeant`: `classifyErrorResponse` gives an answer of the modelled handlers
  the kind that is meant if *and only if* it is none of those that `Misleads`
  lists, for any set of words that a customer's names bring into the text. The
  list is thus complete, and nothing in it is there for safety's sake. The proof
  goes by status, which of the handlers can have it (`HandlersByStatus`), and which
  rules are left for it.
* Of the composition `Services`: `AllTyped`, `CallsInServices`,
  `NoOrphansInServices`, `TakesOnlyFromDisabled`, `UpdatesInOrder`,
  `KindsAreMeant`, each from the component's own theorem and the lemma that the
  parts that do not run stand still.

### Deletion of an organization, and Poller

* `OrgDeletionProofs`: `TypeCorrect`, `NothingIsOrphaned`,
  `TakesOnlyFromDisabled`, for any networks and workspaces: from the first
  deletion on the organization is disabled, and before the cascade it is empty.
* `PollerProofs`: `TypeCorrect`, `NeverBackward`, for any number of goroutines
  that refresh and of changes of the snapshot. Every value somebody holds is one
  the snapshot has had (`Holds`), and what `Wait` is about to publish is no older
  than what it had before, whatever others stored meanwhile (`Forward`).

### Only model-checked

* Liveness: `WaitEnds` of both operations, `CallsReturn`, `RunAllReturns`,
  `EveryCallReturns` and `EveryoneReturns`. Fairness and ENABLED are beyond the
  prover. For the retry loop, the browser session, `RunAll` and the calls of the
  services the part of the argument that is not about fairness, a measure that
  every step raises, is proved (`StepsRunOut`, `PagesRunOut`). The polls of a
  `Wait` have none: they end by their deadlines, and that time goes on is fairness.
* That each method of the catalogues is sound: a finite question, which TLC
  evaluates.
* The three runs that end with a counterexample.

## Findings

Three places where the code does not do what its comments and tests say; each is
a run that TLC ends with a counterexample.

* `CollectionOperation` attaches the newest `COLLECTION` snapshot above the
  baseline, whichever task created it.
* The CSRF token is dropped when a sign-in *returns*, not when the principal
  changes: a sign-in given up and performed later leaves a stale token.
* `DeleteDeviceAccessLabel` and `DeleteGroup` (`access_control.go`), `DeleteMist`
  (`cloud_managed_setups.go`), the two deletes of the NQE repository and
  `TrustedCertificates.Delete` take every 404 for success, also the one that says
  that the route is not served, which a test (`gaps_test.go`) rules out for
  "every delete".

Limits met while modelling, which no comment denies: a call that waits for the
cooldown does not see a lockout that another one meets meanwhile; a client whose
clock is ahead reports an appearance timeout early by as much; names, and for two
of them the URL alone, turn one kind of error into another (`Misleads`); reads that
take a 404 for "there is none" (`Nil404`) answer so on a server without the route;
`UpdateRapid7` sends its PATCH without the name of the integration when that is
blank (`IntegrationCalls` says so; no property does).

## Not modelled

* How documents are decoded and URLs are built, hooks, redirects and limits on
  sizes, TLS roots, login pages: no order of steps that a property could be about.
* The contents of payloads and tables (roles and permissions, device types,
  announcements, intent queries, canonical forms, certificates' dates): data.
* `recordVersion` and the table of releases; `WaitForSubnetConnectivity`;
  `Readiness`, three reads that are not one state and do not claim to be.
* Generated data, `cmd/` and `perfpayload/`: one pass each.

## The plan

Done, in this order: operations, retry loop, paging, browser session, the calls
of the services with their errors, the deletion of organizations, `Poller`; the
abstract specifications of delivery, operations and reading, each with its
refinement; every safety property of a run as a theorem.

1. *Proofs*: a measure for `DeleteOrgCleanly`; that deadlines, once time goes on,
   leave no room for another poll of a `Wait`.
2. *Sequences*: `WaitForSubnetConnectivity`, `RunOperation` over change sets.
3. *Pure functions*: `certificateBundleValidity` and the table of permissions
   against reference definitions.
