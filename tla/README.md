# Verification of DeinsComplete

DeinsComplete is an inline-completion extension for VS Code (`src/`, `test/`) and
a Go API behind it (`api/`). This directory holds TLA+ models of the parts whose
correctness depends on the order in which things happen, the TLC configurations
that check them, and TLAPS proofs of their central invariants. Paths below are
relative to the repository root.

## 1. Inventory

| Component | State it keeps | Operations | Talks to |
| --- | --- | --- | --- |
| Account store, `api/internal/account` | PostgreSQL: users, invites, magic codes, sessions, installations, plans | register, link, mark, revoke, set plan; code, verify, refresh, logout | handlers, usage counters |
| Completion admission, `api/internal/http/middleware`, `api/internal/usage` | daily and monthly counters, merge markers (Redis or memory) | daily quota, status, linked account, entitlements, monthly quota | account store |
| Request-rate limit, `api/internal/ratelimit` | token buckets | allow | admission |
| Installation tokens, `api/internal/auth`; access tokens, `api/internal/accountauth` | none (signed) | issue, validate | middleware |
| Provider routing, `api/internal/completion` | none per process, one request at a time | complete, stream, fall back, sanitize | providers |
| Quality events, `api/internal/account/quality_repository.go` | event rows | record, sample, clean up | extension |
| Server and configuration, `api/cmd`, `api/internal/server`, `api/internal/config` | connections, configuration | start, stop | all |
| Request manager, `src/completion/requestManager.ts` | run per document, three caches, timers | complete, cancel, clear, dispose | engine, provider |
| Inline completion provider, `src/completion/inlineCompletionProvider.ts`, `autoImportResolver.ts` | a snapshot per call, import plans by version and position | provide, prefetch imports | request manager, editor |
| Backend engine and client, `src/completion/backendCompletionEngine.ts`, `src/api` | unavailability window, statistics | complete, stream, refresh once after a 401 | API |
| Installation and account services, `src/identity`, `src/account`, `src/extension.ts` | tokens in SecretStorage, pending registration, link memo | register, reset, sign in, refresh, sign out, link | API |
| Repository context, `src/context` | caches by URI and version | build, invalidate | request manager |
| Feedback and quality, `src/feedback` | counters, last shown completion | shown, accepted, feedback | API |
| Presentation, `src/status`, `src/ui`, `src/logging`, `src/commands` | widgets | render | all |

What is hard, and where:

* **Completion admission against linking.** One completion request makes four
  separate accesses to two stores; a link makes three. Requests, links,
  revocations, plan changes and the change of the month fall between them, and
  either handler may stop anywhere. Correct means: usage is merged into an account
  at most once and to the right account, no completion is granted that is not
  charged, no account leaves its plan, a revoked installation stays out.
* **Runs, consumers and caches in the editor.** Calls arrive for every keystroke,
  share the run in flight or supersede it, and are cancelled at any time, while
  debounce timers, a 60 ms grace timer, repository context and engine answers come
  in. Correct means: one live run per document, the latest consumer decides over
  its life, every caller is answered, with something that fits what it typed, and
  no cache remembers something the engine did not say.
* **Sessions.** A refresh token is exchanged once; the client may refresh twice at
  a time, sign out meanwhile, or lose the reply.
* **Authentication renewal.** Several completions see a 401 and share one reset.
* **Provider fallback.** A second provider may only start while nothing has been
  streamed, under one deadline.
* **The server as a whole.** The middleware chains are put together from nine
  switches; three dependencies fail and recover; the stores are closed after a drain
  that may not end in time.
* **Numeric edges.** Token buckets, quotas, the day and the month, lengths counted in
  different units at the two ends, the order of the repairs of a completion's text.

The full list, with a line for each, is `hazards` in `PROJECT.json`.

## 2. What is modelled

### Metering.tla: installations, plans and completion quota

State and code:

| Variable | Code |
| --- | --- |
| `status`, `owner`, `usageLinked` | columns `status`, `user_id`, `usage_linked_at` of `installations` (`absent`: no row) |
| `plan` | `user_entitlements` |
| `used`, `migrated` | Redis keys `…:monthly_usage:<month>` by subject, `…:monthly_merge:<month>` |
| `daily` | the daily counter of each installation |
| `month` | the UTC month all of them take from the clock |
| `req[r]` | a completion request in the middleware chain of `server/router.go:66-84`: where it is, the installation of its token, the owner it read, the limit it read |
| `link[l]` | a link request in `Service.LinkInstallation` |
| `granted`, `mergedIn`, `merges` | history: completions let through, usage merged, merges per installation |

A completion request is `Quota`, `InstallationStatus` (with `RequireLinkedAccount`,
which looks only at the row just read), `Entitlements`, `MonthlyQuota`; a link is
`InstallationToken`, `LinkInstallation`, `MarkInstallationUsageLinked`,
`MergeInstallationIntoUser`. Each is one statement, transaction or Redis script.
Every other handler is one action. `AbortRequest` and `AbortLink` stop a handler
between two steps (a cancelled context, an unavailable store, a crash); in
`MonthlyQuota` the script may also have run and its reply be lost. All of this is
switched by the constant `MayFail`.

The in-memory trackers are mutexes around the same operations, so one model stands
for both stores. Counters that Redis expires belong to months that are over.
`blocked` installations and inactive plans are left out: no code sets them.
The daily counter of the in-memory tracker survives a day only as an entry of an
older day, which it ignores, so `NextDay` resets all counters.

### QuotaLedger.tla: what the account subsystem promises

An abstract specification without handlers or failures: an unowned installation is
claimed, once and for good; a charge adds one to a balance that is below the largest
plan; the usage of an installation is credited to its owner, once. `Metering`
implements it under the mapping `balance <- used`,
`credited <- {i : merges[i] > 0}`, `TopLimit <- ProLimit` (`ImplementsLedger`).

### RequestManager.tla: runs, consumers and caches

| Variable | Code |
| --- | --- |
| `active` | the map `active`, a run per document |
| `run[r]` | the run started by call `r`: phase (`debounce`, `repository`, `engine`, `stalled`, `done`), document, content, fingerprint, `aborted` (its AbortController), `timer` (the 60 ms `abortTimer`), `consumer` (the latest call that joined), `woken` (an aborted wait about to resume) |
| `call[k]` | the k-th call of `complete`: waiting for which run, cancelled, answered |
| `cache`, `quick`, `negative` | the three maps |
| `activity` | last value given to the activity callback |
| `produced` | history: what the engine answered to what |

`Complete` is `CachedAnswer`, `NegativeAnswer`, `Join` or `Start`; a run goes through
`DebounceOver`, `RepositoryOver`, `EngineReturns`, unless its response stalls after the
headers (`EngineStalls`); `SourceAbort` and `GraceElapsed`
are the abort handler and its timer; `Cancel`, `CancelAll`, `ClearCache`, `Dispose`
are the remaining methods.

Abstractions. A *content* is everything a request asks about, its *base* what `key` hashes
of it: the ends of the text next to the cursor, the language and the style
(`requestManager.ts:107`). Contents of one base may differ in their imports or in the head
of the prefix, and so in whether they are `Full`, which `contextComplexity.ts` computes
from all of it (requests that carry `repositoryContextTask`). The caches and runs are
keyed by base. `Below` ("with some text typed") relates bases, `Typed` contents that
differ in nothing else, `Continues` those that `compatibleContinuation` accepts. A
suggestion is represented by the base accepting it yields: "the suggestion starts with
what was typed" becomes "the base is on the way to it" (`Reaches`), and cutting off the
typed text leaves the target unchanged. Cache entries disappear at any time (`Expire`),
which covers time-outs; which entry makes room for a new one, and which of several entries
is refined, is any, where the code takes the least and the most recent. Statistics and the
length of the debounce are left out.

Scheduling. JavaScript runs one callback at a time. Timers, engine answers, editor
events and commands are tasks; an aborted wait resumes as a microtask before the
next task, so tasks require `Quiet`. `complete` itself runs in a microtask (the
provider awaits `canComplete` first) and may come in between. Which of several
microtasks is first is left open.

### SessionChain.tla, AccountSessions.tla: sign-in on the server

`AccountSessions` models `account/service.go` over `repository.go`, behind
`handlers/account.go`. A handler is a *task*; each of its SQL statements or
transactions is an action (`RequestMagicCode`, `CreateUser`, `CreateMagicCode`,
`SendMagicCode`; `ConsumeMagicCode`, `CreateSession`; `Refresh`, `RotateSession`;
`Logout`), so tasks overlap between any two of them, and `Abort` may end one anywhere:
a crash, a cancelled context or a lost reply.

| Variable | Code |
| --- | --- |
| `registered` | `users.email_normalized` |
| `invite`, `code`, `session` | rows of `invites`, `magic_codes`, `user_sessions` with their state |
| `task[k]` | a handler in flight: next statement, what it has read |
| `mailed`, `received` | e-mails delivered, replies that reached a client |
| `admittedBy` | history: which addresses each invite registered |

Codes, tokens and their hashes are values; collisions and guesses are not modelled.
Life times end at any time (`ExpireInvite`, `ExpireCode`, `ExpireSession`).
`SessionChain` is the abstract promise: a sign-in is a chain of refresh tokens that
opens once, has at most one token that can be exchanged, and ends for good.
`AccountSessions` implements it (`ImplementsChains`), each code being one chain.

### AccountClient.tla: the extension's account, in all windows

`accountService.ts` over `credentialStore.ts`. Its server is `SessionChain`, so what is
shown here holds against everything that implements it. An operation `op[k]` is a
`withAccess`, `verifyMagicCode` or `signOut` of some window; every step ends at an
await. `secret` is the SecretStorage all windows share; its two entries are written in
parallel (`Write`, one entry a step). `stale` are the access tokens that have expired.
When `network` is "faulty", windows close and replies are lost. The link memo and the cached
account requirement decide only whether a request is made, and are left out.

### BackendEngine.tla: completions, registration and renewal in one window

`backendCompletionEngine.ts` over `deinsCompleteClient.ts` and
`installationService.ts`, wired in `extension.ts`.

| Variable | Code |
| --- | --- |
| `epoch`, `revoked` | the server's signing secret, and the installation's row |
| `token` | the stored installation token: the version of the secret it was signed with |
| `reg` | `pendingRegistration`, and the call whose signal it runs under |
| `renew` | the shared `authenticationRefresh` |
| `call[k]` | a completion: step, token used, whether it has renewed, result |
| `wait` | ticks until `unavailableUntil` |
| `calm` | history: calls that ran since the last failure from outside |

Requests are answered 200, 401, 404, 429, 503 or not at all, or are aborted. The body of a
completion, of a registration and of a link is read in a step of its own (`Read`,
`RegistrationRead`, `RenewDone` after `LinkAnswered`), which may fail or never come:
`send()` disposes its timer and its signal with the headers. A secret rotates, an
installation is revoked or reset by another command between any two steps.

### ProviderRouter.tla: one request through service, router and providers

`handlers/completion.go`, `handlers/stream.go`, `completion/service.go`,
`router/router.go` and the providers. `ctx` is the router's context, `call` the provider
call's, `gone` the request's: each ends independently (`ClientLeaves`, `RouterTimeout`,
`ProviderTimeout`). `target` is the loop variable, `emitted` and `raw` what the callback
has seen, `sent` what the client was sent, `asked` the targets a request went out to. A
text is a sequence of pieces, each marked with the target it came from: a part of the
completion, a line end, or something the sanitizer takes off (a fence, an announcement, a
repetition, an answer in another language). `FirstLine`, `SingleLineFocus` and `Sanitize`
tell no more apart; the steps of the sanitizer are in `CompletionText`. Providers differ
by kind: `chat`, `raw` (completion endpoint, cannot stream), `anthropic` (no native
streaming), `mock`.

### ApiServer.tla: start-up, routes, middleware, outages, shutdown

`server.New`, `newRouter`, all middlewares and handlers, `cmd/server/main.go`. A
request holds the stages left to run (`left`), built by `Chain` from the configuration
as the router builds them; each stage passes it on or answers. Dependencies go down and
come up between stages; `down` and `saw` are the history of what was down all the time
or at some time while the request ran. `Signal`, `Drained`, `Deadline`, `Exit` are the
shutdown. What a handler does to the stores is in the other modules; here an answer is
its error code. What a client shows (`shown`) are its tokens, a mailed code, and what the
database says of its installation, which another request may revoke meanwhile
(`RevokedMeanwhile`).

### TokenBucket.tla, BucketContract.tla: the request-rate limit

Buckets are refilled when their key asks and forgotten after a while (a sweep in memory,
an expiry in Redis); a restart forgets those in memory, and an answer of Redis may be
lost. `BucketContract` is the bucket a reader imagines, refilled at every tick, with one
concession: a key that has not asked for a whole term finds a full bucket, whatever its
level was. Both stores implement it (`ImplementsContract`) with the time after which
they forget as the term. Nothing relates that time to the burst, since the configuration
does not (`config.go:374-387`). Fractions of tokens are units of a fixed size.

### CompletionRequest.tla, CompletionText.tla: what goes out, what comes back

`CompletionRequest` follows the lengths of a request from the editor's windows and the
repository context, through the budgets of `toApiCompletionRequest`, to `Validate`: the
client counts UTF-16 units, the server bytes. `CompletionText` is the sanitizer, one
operator per function, over texts of a few signs; a fence, an announcement and an opening
of another language are a sign each, since the patterns that find them are not what the
properties are about.

### QualityEvents.tla, Configuration.tla

`QualityEvents`: the reporter, the wire (any order, losses), the endpoint with its
sampling and its unique indexes, retention at start-up, and the administrator's report,
whose four queries are four steps, each with a window that ends at its own `now()`; the
windows are counted in days, but time passes in moments. `lost` remembers that an event
was lost or deleted, or the percentage changed, after which a pair may be parted.
`Configuration`: the sections of `config.go` in their order, each accepting or refusing
its settings, and what `factory.go` builds. `SectionsFitTogether` is what `ApiServer`
(`SettingsAssumption`), `TokenBucket` (that rate and burst are not zero) and
`ProviderRouter` (at least one attempt) take from it.

### InlineCompletion.tla: what the editor is handed

`inlineCompletionProvider.ts` with `autoImportResolver.ts` and `lifecycle.ts`. A call
waits for permission, then takes its snapshot, starts a look-up of imports it does not
wait for, and waits for the request manager; edits, cancellations and the setting come
in between. `plans` is the resolver's map, oldest first, `lookup` the look-ups under way.
The request manager is what `RequestManager` shows it to be (`AnswersFit`): it answers at
any time, with nothing or with something that fits the request, which is named by the
version and position it was built for. Applying an import after acceptance is left out.

### How the modules fit together

`AccountSessions` implements `SessionChain`, which `AccountClient` takes as its server.
`Metering` implements `QuotaLedger`. `TokenBucket` implements `BucketContract`.
`Configuration` establishes what the server's modules assume of settings. `ApiServer` puts
the components in their order on a request and abstracts them to pass or answer.
`MCApiServer` checks two instances of one module in one run, chosen by `scenario`;
`MCAccountClient` bounds what is explored with a faulty network. `Sequential` puts the
smaller modules side by side: they share no state, `component` says which of them a
behaviour is about, the others are idle, and a property of the whole is one of that
component; `MCSequential` gives them their values. `InlineCompletion` takes `AnswersFit` of
`RequestManager` for granted. No state of one scenario or component reaches another.

## 3. What the runs check

| Run | Instance | Shows |
| --- | --- | --- |
| `metering` | 2 users, 1 installation, 1 request, 2 links, 2 months, limits 1 and 2, failures | `TypeOK`, `LedgerBalance`, `MergedAtMostOnce`, `ChargesOwner`, `ImplementsLedger` |
| `metering_required` | account required, 2 users, 1 installation, 2 requests, 1 link, failures, fair handlers | `NoAnonymousUsage`, `RevocationTakesEffect` |
| `metering_lost_merge` | 1 of everything, failures | `UsageAddedOnce` is violated |
| `requests` | 3 calls, 1 document, 3 contents, two of them with one key, of which one waits for repository context, a cache of 1 entry, fair timers, responses that may stall | `LatestConsumerDecides`, `LiveIsCurrent`, `AnswersFit`, `CacheFaithful`, `EveryCallAnswered`, `RunsEndReady` |
| `sessions` | 4 handlers, 2 addresses, 2 codes, 3 tokens, 1 invite, registration by invite, failures | `InviteAdmitsOne`, `MailboxOwnsSession`, `RegisteredIsMailed`, `ImplementsChains` |
| `client` | 3 tokens, 4 operations, 2 sign-ins; with a faulty network 3 operations and 1 sign-in of them (`MaxFaultyOps`, `MaxFaultySignIns`) | `NobodyIsStranded`; `StoreNeverGoesBack` |
| `client_signout` | a sign-in, a use and a sign-out | `SignedOutIsCleared` is violated |
| `backend` | 2 completions, streaming, 3 versions of the secret, pauses of up to 2 ticks, failures, fair steps | `Recovers`, `NoLostWaiter`, `EveryCallEnds` |
| `router` | two routers of 3 targets, with 2 and 4 attempts, both endpoints, 2 chunks a target | `OneVoice`, `StreamTellsWhatItShowed`, `NoTargetLeftOut`, `FallbackIsJustified`, `ContextReachesUpstream` |
| `server` | 2 requests to a production server; 1 request to any route, by any client, of 4 deployments | `TokensDecide`, `FailsClosed`, `OutagesAreReal`, `NothingIsLeftOpen` |
| `server_events` | a stream of 2 events | `EventsAreOnTheirWay` is violated |
| `sequential` | the components of `Sequential`, with the values of `MCSequential` | `StartsSound`, `SourceTextIsAccepted`, `CleanIsUntouched`, `FencedAsPlain`, `PairsArrive`, `ReportAddsUp`, `ItemsFitTheText`, `ImplementsContract`, `PatienceIsRewarded` |

Bounds, and why they are enough.

* *Metering.* Two links and two months are what a second merge needs: one to write the
  marker of a month, one to come back in the next. Two requests are what overtaking at a
  limit needs; limits of one and two put it within reach of every behaviour.
* *Request manager.* Three calls give an owner, a consumer that joins and one that
  supersedes or hits a cache; two contents of one key and one with some text typed behind
  either give hits, continuations and refinements that fit and that do not, within a mode
  and across it. The suggestions lead one text further.
* *Sessions.* Two tasks race for a code or an invite while two others refresh and log
  out; three tokens make a chain with a successor of a successor.
* *Client.* Three tokens let an exchange overtake another; with four operations two
  uses overlap a second sign-in and a sign-out.
* *Backend.* Two rotations of the secret let a refusal of the first token arrive after
  the renewal from the second; two calls are an owner of a shared promise and a waiter.
* *Router.* Three targets with two attempts leave one untried; two chunks put a line end,
  or a line the sanitizer takes off, before, inside and after what has been shown.
* *Server.* Two requests are one that drains and one that outlives its deadline. The
  order of the stages depends on the route and the configuration only, so single requests
  suffice for it.
* *Sequential.* `MCSequential` comments on its values. The answers are all words of up to
  four (six with chatter) signs, longer than the longest repair needs to be undone by the
  next. Five quality events are two completions with their votes and acceptances; what
  follows a loss, the passing of time or a report is explored for one completion and three
  events (`MaxTroubled`), a report on a server that records all of them. A day has two
  moments and there are four of them, so a row leaves a window of one day between any two
  queries. Redis forgets a bucket (5 ticks) sooner than an empty one is full again (7),
  memory later (9).

`MaxMonth`, `MaxCalls`, `MaxEpoch`, `MaxWait`, `MaxChunks`, `MaxEvents`, `MaxFaultyOps`,
`MaxFaultySignIns`, `MaxTroubled`, `MaxNow`, `MaxVersion` end behaviours; no property
mentions them. The thousand characters within which the sanitizer looks for a repetition
(`MaxOverlap`) are the code's.

Fairness. `Metering!Fairness` is weak fairness of the steps of each accepted request and
link: database and Redis calls return within their time-outs and the handler goes on. No
fairness is assumed of clients, administrators or the clock. `RequestManager!Fairness` is
weak fairness of each run's steps and of its grace timer: timers fire, the wait for
context is limited to 10 ms, and the engine returns unless its response has stalled: the
HTTP client's time-out ends with the headers. Nothing is assumed of a stalled one, and an
abort does not free it, so `EveryCallAnswered` and `RunsEndReady` except it.
`BackendEngine!Fairness` is weak fairness of registration, renewal and every step of a
call up to the headers: these are bounded by timers of the client. Nothing is assumed of
the reading of any body, so `EveryCallEnds` excepts a call that waits for one, be it one
that another call is reading for it (`BackendEngine!Stalled`). `ProviderRouter!FairSpec`
is weak fairness of the server's own steps, the mock provider included; nothing is assumed
of upstream, so `ContextReachesUpstream` says that the contexts reach every wait.

Deadlock is not checked where the program rests: a client without calls, a process that
has stopped, a request that is over, an environment that has been read.

### Findings

* `metering_lost_merge`. `docs/accounts-and-database.md:30`: "the current month's
  anonymous usage is added once to the user's usage". `Service.LinkInstallation`
  (`service.go:161`) commits the marker before it merges, and not in one transaction
  with it. If the merge fails, the request fails, and every retry finds the marker and
  merges nothing. What holds is at most once (`MergedAtMostOnce`).
* `client_signout`. `README.md:53`: "Removes locally stored account credentials". A
  refresh under way stores its new pair after `signOut` has deleted the old one
  (`accountService.ts:57`).
* `server_events`. `docs/streaming-protocol.md:5`: "`chunk` events contain raw provider
  text for low-latency consumers." The `statusWriter` of `middleware/logging.go:26` does
  not pass on `http.Flusher`, so the stream handler falls back to `noopFlusher` and
  events leave when the buffer is full or the handler returns.

### Observations

Met while modelling; the models contain this behaviour, the properties are stated so
that they hold with it, and no run is devoted to it.

* A completion that read its installation before a link charges the installation's own
  counter after the merge (`middleware/monthly.go:18`); `docs/accounts-and-database.md:30`
  says linked installations share the user's subject. A request that saw an owner does
  charge the present owner (`ChargesOwner`).
* A response that stalls after its headers is read without a time-out, and an abort does
  not end it (`deinsCompleteClient.ts:200`), although `package.json:155` describes the
  setting as the maximum time of a completion request. A registration (`:99-104`) or a link
  that stalls so keeps every completion waiting that shares it, and the run of a completion
  keeps its callers and the status at "thinking"; the liveness properties of
  `BackendEngine` and `RequestManager` except just this.
* The key of a request hashes the text next to the cursor only (`requestManager.ts:107`), so
  a request that does not wait for repository context may join a run that does (`:30`) and
  be answered with its help. The caches never mix the two (`AnswersFit`).
* Of overlapping 429 and 503 responses the last one sets the pause, also to a shorter one
  than an earlier Retry-After (`deinsCompleteClient.ts:180`;
  `contracts/openapi.yaml:489`).
* When the router's deadline has passed, the client gets 500 instead of the 504 of
  `contracts/openapi.yaml:472` (`router.go:47`).
* A `raw` target fails a stream as unavailable without being asked (`provider.go:171`),
  where `docs/streaming-protocol.md:7` promises its normal result as one chunk.
  `NoTargetLeftOut` therefore excepts these targets of a stream, by name.
* A stream of a single line stops at the first line end it is sent, the service sanitizes
  what came before it (`service.go:56`): an answer that opens with a blank line, or with a
  fence of its own line, ends with an empty `done`.
* Old quality events are removed only when the server starts with the insights on
  (`server.go:49`; `docs/privacy.md:18`).
* Retry-After is truncated to whole seconds, so a retry exactly then may be refused again
  (`admission.go:77`); one second more is enough (`PatienceIsRewarded`).
* Without a database `/ready` calls Ping on a nil pool in a non-nil interface and answers
  500 (`server.go:83`); `contracts/openapi.yaml:21` lists 200 and 503.
* An outage of the database is answered 401 to a verification (`account.go:55`), a refresh
  (`account.go:74`) and a link (`installation.go:51`), and 404 or 409 elsewhere;
  `docs/accounts-and-database.md:17` promises 503. `TokensDecide` names the three routes and
  holds of all others without exception.
* The quality endpoint may answer 429 (`server/router.go:63`), which
  `contracts/openapi.yaml:166` does not list.
* Diagnostics and signatures are limited in bytes (`validation.go:62`), where the contract
  limits characters; source text is never refused for it (`SourceTextIsAccepted`).
* A call may join a run that has just been aborted and be answered null
  (`requestManager.ts:30`); a run superseded while it waits for repository context still
  announces "thinking" (`requestManager.ts:87`), in some orders as the last thing announced.
* A fence behind an announcement is not taken off, and an echo of a prefix that begins or
  ends with a line break is not recognised (`sanitizer.go:49`, `:23`).
* An import that was not looked up beforehand is resolved after acceptance and applied
  without comparing versions again (`autoImportResolver.ts:51`).
* With a burst of more than five times the rate, which `config.go:374-387` accepts, a Redis
  bucket that is not asked for five minutes comes back full although the time has not
  refilled it (`redis.go:24`). `BucketContract` says so: a full bucket once in a term.
* A second sign-in may be overwritten by a refresh of the first one
  (`accountService.ts:57`); `StoreNeverGoesBack` is stated for one sign-in.

## 4. What is proved

Every safety property that a run checks to hold is also a theorem of TLAPS about the
module's specification: for all values of its constants that satisfy the named
assumptions, where a run takes one instance. The theorems are listed in `PROJECT.json`.
Each rests on an inductive invariant, `IInv` in the single modules, that was first checked
by TLC and then proved in three facts: it holds initially, every action preserves it, it
implies the property. Most properties are not inductive alone; what is added, and why, is
the substance of a proof:

| Module | Theorems | What the invariant adds |
| --- | --- | --- |
| `MeteringProofs` | `TypeCorrect`, `ChargesOwnerHolds`, `MergedAtMostOnceHolds`, `LedgerBalanceHolds`, `NoAnonymousUsageHolds`, `Refinement` | what handlers in flight have read (`HandlersOK`, `Accounted`); who holds the one permission to merge (`MergeToken`) |
| `RequestManagerProofs` | `TypeCorrect`, `LiveIsCurrentHolds`, `LatestConsumerDecidesHolds`, `CacheFaithfulHolds`, `AnswersFitHolds` | what binds calls, runs and documents (`Bonds`); suggestions lead on from what was asked (`ProducedLeadsOn`) |
| `AccountSessionsProofs` | `TypeCorrect`, `InviteAdmitsOneHolds`, `MailboxOwnsSessionHolds`, `RegisteredIsMailedHolds`, `Refinement` | a verified code opens one session (`CodeOpensOnce`), which has one live token (`OneLive`); an open invite has admitted nobody |
| `AccountClientProofs` | `TypeCorrect`, `NobodyIsStrandedHolds`, `StoreNeverGoesBackHolds` | a token still to be written is known to nobody else (`Secrecy`), is the server's (`LastIssued`), and a dead one in the store is about to go (`Usable`) |
| `BackendEngineProofs` | `TypeCorrect`, `NoLostWaiterHolds`, `RecoversHolds` | while a batch is undisturbed, a renewal holds no older token (`Renewing`) and some call can still be answered (`Hopeful`) |
| `ProviderRouterProofs` | `TypeCorrect`, `OneVoiceHolds`, `StreamTellsWhatItShowedHolds`, `NoTargetLeftOutHolds`, `FallbackIsJustifiedHolds` | all text is the last target's (`Voices`), what was shown is what was received (`Telling`), what ended a request (`Causes`) |
| `ApiServerProofs` | `TypeCorrect`, `NothingIsLeftOpenHolds`, `TokensDecideHolds`, `FailsClosedHolds`, `OutagesAreRealHolds` | what a request has passed is the beginning of its chain (`OnItsWay`), and what its stages granted and checked is so |
| `SequentialProofs` | see below | |

*Metering.* `MergeToken` carries `MergedAtMostOnce`: the conditional UPDATE of the marker
hands out one permission to merge, and the Redis marker plays no part. `ChargesOwner`
needs that an owner once set is never changed. In `Refinement` (of `QuotaLedger`) a
metered completion is a `Charge`, a merge a `Credit`, a link a `Claim`, and all other
steps stutter. Assumptions: `LimitAssumption`, `SubjectAssumption`.

*Request manager.* A call that waits is served by a run in flight with its key, or about a
content it continues (`WaitersServed`); a document's run is in flight and its own
(`ActiveInFlight`); a run's consumer was told to wait for it (`ConsumersKnown`). The rule
for the grace timer, `LatestConsumerDecides`, is inductive only with these. Assumptions:
`ContentAssumption`, `BoundAssumption`.

*Sessions.* `Refinement` (of `SessionChain`, a chain per code) needs that a code has one
live session, which needs that a code is consumed by one handler and that the handler's
step to the session is the only way to open one. Assumptions: `ModeAssumption`,
`NoneAssumption`.

*Account client.* `NobodyIsStranded` holds for two operations in the middle of an exchange
because the pair one has received is known to it alone: the server's head of the chain is
that pair until it is written. Assumptions: `NoneAssumption`, `EndedAssumption`,
`NetworkAssumption`.

*Backend engine.* `Recovers` is a statement about a whole batch of calls. Its invariant
says that a call of the batch can still be answered, and that no step before the token is
stored, the reading of a registration's body included, can bring an older one back.
Assumptions: `WaitAssumption`, `SettingAssumption`.

*Router.* Which target's text is shown follows from `Fresh` and `Silence`: a target that
fails has shown nothing, so that the next one starts from nothing. That `done` carries the
sanitized form of what was shown is proved over texts of any length. Assumptions:
`RouterAssumption`, `ChunkAssumption`.

*Server.* One lemma per route computes its chain of stages; a step of a request takes the
first of those left. A store that was down while the request ran has not been passed by
a stage that checks it; and a 401 of a handler goes back to what the client showed, or
to the outage it remembers in `saw`. Assumption: `SettingsAssumption`.

*Smaller parts*, all in `SequentialProofs`. Each is proved of its own specification first
and then of `ComponentsSpec`, from `ComponentsAssumption`, the conjunction of what the
modules assume (`AboutText` and its likes: a step of the whole is one of the component or
none). TLC checks the same definitions. The rate limit is proved of `TokenBucket!Spec`,
which `Sequential` extends:

* Rate limit: `TypeCorrect`, `PatienceIsRewardedHolds` (a refused client will find a token
  a second after the named time: `Promise`), and `Refinement` of `BucketContract`: both
  buckets have the same level at every moment, and their keys have been idle for as long.
  From `ForgetAssumption` (the times are numbers), `UnitAssumption`, `NoneAssumption`.
* Editor: `ItemsFitTheTextHolds`. The plans are a map with one entry a key, and an entry's
  key names the version its edits were computed for. From `PlansAssumption`.
* Quality events: `ReportAddsUpHolds` (the rows of the query before are still in the
  table, and what it left out has come since or was too old already, `Counted`) and
  `PairsArriveHolds` (the "shown" event of an offered completion is under way, recorded or
  not sampled, `Announced`, as long as nothing is `lost`). From the module's assumptions.
* Configuration: `StartsSoundHolds`, section by section, without assumptions.
* Size of a request: `SourceTextIsAcceptedHolds`. The units kept add up to the budget at
  most, whatever the files; three bytes a unit then fit every limit of the API. From the
  module's assumptions: lengths, widths of one to three bytes, settings in their ranges.
* Text of an answer: `FencedAsPlainHolds` and `CleanIsUntouchedHolds`, for texts of any
  length: lines put together again are the text (`LinesJoined`), and each of the steps
  leaves a clean text as it is. From `SignsAssumption`, `InputsAssumption` and
  `LimitAssumption`.

Induction over data. The library's induction theorems take a predicate as a parameter, which
the installed provers cannot instantiate. Where a recursive function or a fold had to be
reasoned about, induction is taken from well-founded sets instead: `Smallest` in
`ProviderRouterProofs` (for the text a client was shown), `Induction` and `LoopExists` in
`SequentialProofs` (for `Total`, `Budgeted`, `Lines`, `Joined`).

What the proofs changed in the models. Three definitions had CASE guards that overlapped,
so that the prover could not tell which applied where TLC takes the first
(`ApiServer!Outcomes`, `BackendEngine!RenewDone`, `AccountClient!Write` and `Begin`): the
guards now exclude one another. `MayFail` of the account client became the variable
`network`, so that one specification states both properties. `CompletionText` and
`CompletionRequest` compute lines, sums and budgets with recursive functions.

Only model-checked: the liveness properties `RevocationTakesEffect`, `EveryCallAnswered`,
`RunsEndReady`, `EveryCallEnds` and `ContextReachesUpstream`, since liveness under fairness
and ENABLED are outside the prover. The three violated properties are false. Bounds such as
`MaxMonth`, which end behaviours, remain constants of the theorems, with any value.

## 5. Plan, and what is not modelled

Left for the proofs:

1. More about the operators: that the budget of `CompletionRequest` keeps a beginning of the
   files, that sanitizing twice is sanitizing once where it is so.
2. Action properties of the handlers that the invariants already imply, where a reader
   of the code would ask for them (an owner is never changed, a session never revived).

Not modelled, and why:

* The acceptance of an item: when the editor runs the command, and what a position means
  in changed text, is the editor's.
* Which files and symbols are relevant, and the caches of the context builders: text
  search and language-server queries whose result only adds to a prompt.
* Prompts, fill-in-the-middle formatting, the wire formats of the providers, the decoding
  of SSE lines, the validation patterns of free text: formatting and parsing.
* Statistics, status bar, panels, logs, dashboard pages: presentation.
* `cmd/migrate` and `cmd/admin`: sequential SQL run by hand.
* SMTP and the upstream protocols beyond succeeding, failing and not answering.

## 6. Running

```
tlc -workers 2 -config Metering_accounts.cfg MCMetering
tlc -workers 2 -config Sequential.cfg MCSequential
tlapm MeteringProofs.tla
tlapm RequestManagerProofs.tla
tlapm AccountSessionsProofs.tla
tlapm AccountClientProofs.tla
tlapm BackendEngineProofs.tla
tlapm ProviderRouterProofs.tla
tlapm ApiServerProofs.tla
tlapm SequentialProofs.tla
```

Each run, and each proof from nothing, takes at most a few minutes on two cores.
`PROJECT.json` lists all runs, the definition of the model each line of code went into
(`map`), and for every property a mutation of the model that violates it: the operators
named `<definition>_<Variant>`, each defined just before the one it varies.
