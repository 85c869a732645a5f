# A TLA+ development for AMATL

AMATL is a self-hosted meta-search service in Rust: a core library
(`crates/amatl-core`) that plans and runs searches over external providers, an
HTTP and MCP server (`crates/amatl-server`), a command line and a web
interface. This directory models the parts of it whose correctness depends on
the order of events (concurrent requests, tasks, timers, writes to a table or a
file, reloads, dropped requests and crashes) and the algorithms whose result
must not depend on it.

## Inventory

| Part | State | Operations | Interactions | Hard behaviours |
|---|---|---|---|---|
| Circuit breaker (`circuit.rs`, `service.rs`, `storage.rs`) | record per provider in memory, row per provider in SQLite | state, record, reset, restored | every search selects through it and feeds its outcomes back | row written after the lock is released; one timestamp for many records; two breakers during a reload; crashes |
| Progressive search (`execution.rs`, `progressive.rs`, `planning.rs`, `budget.rs`, `router.rs`) | call budget, rounds, tasks, accumulated results | plan, run a round, join, decide, answer | asks the router for an order, adapters for pages | parallel tasks, permits, per-attempt timeouts, retries, backoff, panics, one deadline |
| Result pipeline (`normalize.rs`, `canonical.rs`, `dedupe.rs`, `ranking.rs`, `ranking_adjustments.rs`, `optics.rs`, `diversity.rs`) | none between requests | normalise, merge, rank, adjust, diversify, cut a page | every round and every page runs it anew | providers arrive in any order, yet pages must fit together; time, routing and optics move between two pages |
| Relevance (`relevance.rs`, `relevance_semantics.rs`) | none | classify a result | labels results for the caller | a ladder of conditions whose order decides |
| Deep pipeline (`deep.rs`, `gaps.rs`, `robots.rs`, `render.rs`, `fetch.rs`, `extract.rs`) | crawl queue, Deep budget, deadline, robots cache | fetch, render, extract, follow links, subqueries | takes a search's results, may run further searches | politeness delay against the deadline, release of reservations, peers that never answer |
| Answers (`answer.rs`) | none | sources, synthesis, citations | a search, then one call to a model | two scans of one text |
| Embeddings (`inference.rs`) | a cache in memory and in a file | embed, load, save | rebuilt by every reload; the command line shares the file | two writers, one temporary name |
| Caches, history, telemetry, storage (`cache.rs`, `document_cache.rs`, `telemetry.rs`, `storage.rs`) | tables, backups, file lock | get, put with eviction, purge, backup, rotate, restore, downgrade | under the search, the breaker and the server | eviction ties, backup names, kills during a restore, requests dropped at a write, a task that outlives its service |
| Settings, data policy and reload (`amatl-server/src/lib.rs`, `config/`) | file, running service, credentials, write lock | admin handlers, POST /reload, SIGHUP, start | a reload rebuilds the service (and its breaker) and swaps the credentials | reloads without the lock, truncating writes, validation against another state than the one written, two swaps, dropped requests |
| HTTP edge (`lib.rs`, `mcp.rs`, `audit.rs`) | a window per address, time of the last sweep, credentials, audit counter | security_middleware, within_rate_limit, record | in front of every request | timestamps taken before the mutex, a shared sweep, reloads between two checks, a counter raised before it is compared |
| Ingestion, adapters, experimental ranking and embeddings, UI | none between requests | pure functions, I/O | called by the above | numeric or textual, not concurrent |

What makes each part correct: a breaker never blocks a provider for longer than
a cooldown, forgets one only for a reason and survives a restart; a search
charges each provider once, accounts for each, respects its limits, ends, and
does not call a partial answer a success; pages read from the same inputs
partition the results; a label does not contradict what the texts show; Deep stays within its
budget and its politeness, visits nothing twice, overruns its deadline by a
bounded time at most, and ends; an answer cites only what it was given; a cached
embedding belongs to the text and the model it is returned for; eviction and
rotation take the right victims, a restore keeps what it replaces, telemetry is
not lost unseen; a change of configuration is serial, ends up served and stays, a revoked
credential stays revoked, nothing leaves the machine against the policy in
force; the limiter bounds bursts and a refusal ends; a handler runs only for the
entitled, and the audit trail does not clog.

## Plan

1. `Circuit`, `Search`, `Reload`, `RateLimit`, with their theorems. Done.
2. `Deep`: crawl queue, budget, politeness, deadline, subqueries. Done; every
   safety property proved.
3. `Tables` and `Store`: caches, telemetry, backups, restore, with kills. Done;
   every property proved.
4. `Outbound`, `Settings`, `Access`, `Relevance`, `Embeddings`, `Answers`,
   `Results`, with their theorems. Done.
5. `Dispatch`, the abstract account of a search, and the refinement. Done and
   proved.
6. `Breaker`, the abstract account of the circuit breaker (a provider is
   refused, or not, until a time), and the refinement. Done and proved.
7. Left: liveness, which the prover does not reach and TLC checks.

How the modules meet. `Search` and `Circuit` meet in `Circuit!Return`: a request
attempts part of what the selection admitted and each attempted provider is used
or failed, which is `EveryAttemptAccounted` of `Search`. What `Search` collects
round after round is what `Results` orders, in any arrival order. `Deep` begins
with a search's results and ends with subqueries that are searches. `Store` holds
the table `Circuit` writes to and the trail `Access` hands its events to. A
reload is `Reload` for the credentials, `Settings` for the other sections,
`Outbound` for what the new service may send, `Circuit!Reload`,
`RateLimit!ReloadLimit`, `Store!Reload`, `Access!SwapService` and a second runtime in
`Embeddings` for what it does to each of them.

## Modules

### Circuit

`mem[i][p]` is the record of provider `p` in the breaker of service instance
`i`; `disk[p]` its row; `live` the instance new requests get. A request
(`req[s]`) selects its providers (`Select`), returns with outcomes (`Return`,
which takes the one timestamp), and records them one by one: `RecordOutcome` is
`record()` up to the release of the lock, `PutRow` or `PutFails` the write of
the row, whose error the code drops. `Cancel` is the request timeout, which
drops the future at an await. `Reset`, `ClearRows` and `ClearFails` are the
operator's reset. `Reload` builds a new instance from the table while the old
one's requests go on; `Restart` is a crash at any point. `lost` and `raced`
name the providers whose table row may differ because a write was lost or two
overlapped: they are what the code does not promise.

An absent entry or row behaves like the default record, so both are total
functions. A write whose request was dropped is assumed to be settled before a
later reload loads the table.

### Breaker and CircuitBreaker

`Breaker` says what the circuit breaker promises in a page: a source is refused
until some time or it is not; a caller is admitted exactly to the sources that
are not refused when it asks (`Admit`), may report about each of them once
(`Succeed`, `Fail`), and only that moves a source's time, never beyond a cooldown
from now; a source that is kept comes through a `Rebuild` with its time, and one
whose time moves is not kept until it is settled (`Settle`). It knows no
counters, stamps, instances or rows. `CircuitBreaker` gives the refinement
mapping: `until` are the deadlines of the live instance, `kept` the providers
that are not `Unsettled`, `calls` what a request was admitted to or has not
recorded yet, of whatever instance: a late outcome of a request of the old
instance reports without moving a time, and costs its provider its place among
the kept.

### Search

One search. The router is its order (`Rank`), its first round (`FirstPlan`) and
the providers whose expected gain reaches the threshold (`gainful`).
`Reserve`/`Launch` plan a round against the budget; the tasks `Acquire` permits
or `Starve`, and then `Succeed`, `Fail`, `TimeOut`, `Wake` after a backoff or
`Panic`; `Join` merges a round and finds the providers no task named; `Continue`
and `Stop` are `decide_progressive_round` with its conditions in the code's
order, and the status of the response.

Abstractions: a provider answers with a set of pages and the pipeline keeps one
result per page (dedupe groups by canonical URL); the observed gain is low
exactly when a later round brings no new page, since it counts new pages and the
threshold is in (0, 1]; low diversity is judged only above `DiversityFloor`
visible results (3 in the code, 2 here), and is otherwise nondeterministic; the
deadline of a task counts from its first poll and planning takes no time; the
per-provider semaphores are never contended, as a round has one task per
provider. Telemetry, traces and the wording of errors are left out.

### Reload

`file` is what the configuration file reads as, `service` and `security` what
is served. `Submit` is the part of every admin handler up to the truncation of
the file; `WriteText` or `WriteFails` ends the write; `Load` reads the file and
resolves its clients; `Build` is the one await; `SwapService` and
`SwapSecurity` are the two swaps, the second of which answers. `Drop` is the
request timeout or a failed build. `Pend` is the handler that writes without
reloading. The tasks in `Reloaders` load without the lock, as POST /reload and
SIGHUP do.

The configuration is a flag, standing for every field that handlers change
alone (toggles, inference, answer, and the sections `Settings` has in detail),
and the client entries, which handlers write back whole from the running
configuration. Field validation is in `Settings`. An empty file reads
as the default configuration. `revoked` holds the tokens whose end was
acknowledged; `outdated`, `staleSwap` and `pending` say which reloads read the
file too early, whether one of them swapped, and whether the file's last write
still has to be applied.

### RateLimit

`windows[i]` and `lastCleanup` are the limiter; `entering[r]` is a request between
its timestamp and the mutex. `Accept` and `Refuse` are `within_rate_limit`,
with the sweep, and the 429. The wait for the mutex is bounded by `Skew`.
`recent` counts what was let through and `wait` follows an address that does as
the 429 tells it. The limiter lives as long as the process; a restart has a new
one. OPTIONS requests, and those an earlier check refuses, do not reach it.

### Dispatch and SearchDispatch

`Dispatch` says what a search promises of its calls in a page: sources are
engaged once, while calls are left; an engaged source waits, holds one of
`Width` places, and ends answered, refused or silent; a silent one is noticed;
the verdict comes when nobody is waiting, active or silent. It knows no rounds,
retries, timers or deadlines. `SearchDispatch` gives the refinement mapping:
`left` is the call budget, `queued` the tasks that wait for a permit, `active`
those that hold one (calling or in a backoff), `silent` those that panicked and
have not been joined.

### Subsequences

What a filter leaves of a sequence: `Picked(seq, P)` has the elements at the
positions in `P` in their order, `Nth` and `Place` relate a position to its place.
A DELETE on a table, the links a page keeps and the fresh ones among them, the
items of a provider that are valid, the results an optics document lets through
and the tokens of a stripped text are written with it, because the prover can
reason about it and knows nothing of `SelectSeq`.

### Deep

One call of `enrich`. `phase` is where the sequential pipeline is: `Pop` takes
a candidate, `RobotsAnswer`, `Judge` and `Polite` are robots.txt, its decision
and the crawl delay, `StartFetch` reserves and computes timeout and limits,
`Redirect`, `Refuse`, `FailFetch` and `Receive` are SafeFetcher's loop,
`Extract`, `Render`, `RenderFails` and `ReExtract` the extractor with its
fallback and the renderer, `Keep` (inside them) the document, its links and the
cache, `EndCrawl` and `Analyze` the ranking and the gaps, and `SkipSubquery`,
`Launch`, `Expand` and `SubqueryFails` the subqueries. `top` is the instant the
loop took at its top, from which the code computes the fetch timeout. `traffic`
and `contact` observe the bytes pages sent and the last request to each host.
`Sent` is what a failed fetch received: the body loop compares a chunk with the
limit when it has it, so a `byte_limit` failure has brought more than the limit,
by at most one `Chunk` of the transport.

Abstractions: candidates are not empty, no two are the same page (Search hands
over one result per canonical URL) and the plan matches them; a robots file
outlives a run; a status other than 304 is a document; page contents are
versions, evidence and ranking nondeterministic.

Met while modelling: a fetch may outlive the hard deadline of
`fase_a_contratos.md` section 14, by what `OverrunIsBounded` says; robots.txt
bytes and what failed fetches brought are charged to no budget, and a body that
is too large brings up to a chunk more than its limit; a page can be
fetched twice through a fragment; cached and 304 pages skip link discovery;
rendered documents are cached under the hash of the DOM but looked up by that of
the body; a renderer at capacity still costs a browser call; subqueries bypass
the breaker; `match_length` of robots rules mishandles `*` followed by `$`.

### Tables and Store

`Tables` has the queries as operators on sequences of rows in rowid order.
`Store` has the file (`main`), what is committed (`live`, `wal`), the backups
(`files`), the process (`phase`, `plan`), the maintenance tasks (`tasks`, the
`current` one and those of earlier services), the backups they and an admin
request are making (`job`), and the telemetry in memory. Opening goes through
the header check, quarantine and migration; `BackupBegin` to `BackupVerified`
are the steps of `create_auto_backup` with its rotation; `RestoreBegin`,
`RestoreSave` and `RestoreReplace`, and `DowngradeStart`, `DowngradeCopy` and
`DowngradeStep` the two commands; `Exit` is the end of the process at any step,
clean or killed.

`Reload` spawns the task of the new service beside the old one's, or leaves the
new service without storage; the task of an earlier service goes on, with its
own time of the last backup (`seed`), until its last clone is dropped
(`Retire`). `Observe` is `InMemoryTelemetry::record` up to the insert; `Persist`
is the insert and the prune, each of which may fail and is then counted;
`PersistLate` is that of a request of an earlier service; `PersistDropped` is a
request that times out or loses its client at one of the two awaits, and
`abandoned` are the observations such a request leaves in memory alone.

`replaced` has, for each database a command set out to replace, what the file
alone had (`file`) and what it had with its log (`held`); `lost` what was in a
safety copy that a restore of the same second truncated. `known` and `periodic`
follow what a task must know of earlier backups. `Taken` is the end of a bad
copy, by `remove_file` after a failed check or by the quarantine of a restore,
and `spoiled` remembers that one took with it the name by which a second with an
automatic backup is listed. `SUM(payload_bytes)` is counted as a set of bytes.
`BackupBegin` covers the choice of the name up to the file that `VACUUM INTO`
creates; one that fails before has no effect.

Assumptions: one process has the database at a time, as `docs/operacion.md`
asks; behaviours begin with a closed, migrated database. SQLite is external: a
commit reaches the log first, `VACUUM INTO` copies what is committed, an
interrupted copy is not whole.

Met while modelling:

- Restore. The safety copy is a plain `fs::copy` of the main file
  (`storage.rs:618-632`). It leaves out what is committed in the log only, which
  `storage.rs:821-823` and `2085-2087` and `CHANGELOG.md:226-229` give as the
  reason not to copy a database that way. Its name has the second only, so a
  second restore in that second truncates it, although `docs/operacion.md:397`
  says these copies are kept: `Recoverable` names this as the one exception. The
  old `-wal` stays beside the new file, the exclusive lock is taken after the
  overwriting, and a kill right after the truncation leaves an empty file that
  opens as a new database.
- Rotation. A killed or failing `VACUUM INTO` leaves an incomplete automatic
  backup that is listed and counted as the newest, so rotation may delete the
  last whole one (`RotationSpares` says that names are counted and not files).
  When the file that was counted then fails its check and is removed, no backup
  is left to seed the next task from, and the timer backs up again before its
  interval (`BackupSpacing`, proved, shows that the removal of a bad copy is the
  only way to that within one task). With `max_count` 0 a requested backup is
  deleted by its own rotation. A second backup within a second has a suffix
  `scan_backups` does not read, so it is neither counted nor rotated.
- Tasks. The old task is cancelled when the last clone of its service is dropped
  (`service.rs:410-416`): while a request of the old service runs, it and the new
  task may both back up within one interval.
- Telemetry. A request dropped at the insert (`telemetry.rs:182`) leaves its
  observation in memory with no row and no failure counted; the comment on
  `record` speaks of storage errors only.
- A reload in exclusive mode leaves the new service without storage;
  `db downgrade --to 0` ends at version 1 and prints 0.

### Outbound

`file` and `running` are configurations reduced to what decides about egress;
`Patch` checks a patch against `running` and writes it to `file`,
`ReloadConfig` installs the file if it validates, `Begin`, `CallOut` and
`Reply` are a request, which keeps the service it began with. The unsandboxed
renderer's part of the policy is in `Settings`.

### Answers

A text is a sequence of tokens: brackets, words, numbers. `ExtractCitations`
and `StripInvalid` are the two scans; both follow the same loop, whose index is
a recursive function (`After` is one round, `Stops` the places it comes to). In
`[see [9]` or `[[9]1]` they read one piece from the outer bracket to the first
closing one and copy it, so the fabricated `[9]` stays visible: the run
`answer_markers` shows it (`NoneFabricated`), and `AnswerGrounded` that it is the
only way.

### Embeddings

Each runtime loads the file, serves and fills its own copy from concurrent
calls, and saves it when dropped: `OpenTmp` truncates the temporary file,
`WriteCopy` or `SaveFails` ends the write, `RenameTmp` moves it. Two runtimes
that save at once share the temporary name; a torn file loads as empty, which
costs the cache and nothing else. The key has the model's identifier and width,
so a model file replaced by another of the same width reuses its vectors: this
is outside the model, where a space names one model.

### Relevance

`Facts` are what the texts show of a query with four significant terms;
`Classification` is the ladder of `assess_result` in its order. Thresholds are
the defaults. How many terms the three texts hold between them (`matched`), and
whether the URL spells them as the query does, are facts of their own. Met while
modelling: `alias_conflict` never changes a label.

### Results

`RunPipeline` is the pipeline with integer scores in place of floating point
ones, which are exact for three providers with two items each and rounded down
beyond; sorting is by counting what precedes (`Sorted`), so that it says what the
order is and not how it is reached. Providers, lists, rules and page sizes are
any that `ResultsAssumption` admits. `Ask` begins a question; `question.given` is
what the next execution is given: the lists its providers will answer with, the
day of its plan's reference time and the optics document. Every `ServePage` runs
the whole pipeline on that, with an arrival order of its own, and records in the
page what it was given. Between two pages a provider may answer differently, be
left out, refused by its circuit or fail (`AnswerChanges`), the reference time
moves (`TimePasses`) and a reload reads the optics again (`ReloadOptics`). A
change of the ranking and diversity policies is left out.

Met while modelling: a page is a window of a new execution, so a result may be
skipped or shown twice when the inputs of two pages differ (`planning.rs:34` with
the freshness of `ranking.rs:215-231`, and the selection of `service.rs:662-693`);
`PagesPartition` says so, and that the arrival order alone never does it. An
optics pattern `*...|` tests the first occurrence only.

### Access

`Receive` is `security_middleware` with its checks in order, `Record`, `Drop`,
`Inserted` and `TaskEnds` the audit trail's counter and its task, `SwapService`
and `SwapSecurity` the two swaps of a reload, between which a request meets the
new service with the old credentials. The rate limiter's verdict is an input
here (`RateLimit` has it). Preflight requests are answered by the CORS layer,
which is external. Met while modelling: refusals that race at the cap may drop
an event although a place is about to be free; every reload begins a new trail,
so the cap is per service; the CORS layer, the body limit, the connection limit
and the MCP host list are fixed at start and keep their values across reloads.

### Settings

One or two fields stand for each section. `Submit` is the common part of the
handlers: the lock, the patch over the served configuration, `Acceptable`
(`Config::validate`), the setter up to the truncation of the file. Most setters
write the named fields; a policy replaces its table, and `Bodies` are the policies
a request may bring, whose unnamed fields serde fills with defaults; a provider
record is written whole from what is served (`RecordWith`). `[server]` fields are written
and left pending. `promise` holds the last acknowledged value of each field.
`astray` says that a reload without the lock installed a file older than the
last write, or half written.

Met while modelling: `PATCH /policies/{name}` with a partial body is accepted and
puts the fields it leaves out back to their defaults (`replace_table` is written
for a caller who sends the whole policy back), so that an acknowledged field of a
policy stays until that policy is replaced and not until that field is changed;
after a pending or dropped change the file may not validate, although each patch was validated, because validation looks at the
served configuration and the write goes to the file; the caps that the diversity
and search policies share cannot be changed through the API, which replaces one
table at a time and validates the two together.

## Runs

| Run | Shows | Bounds |
|---|---|---|
| `gates` | breaker: types, bounded cooldowns, durability once settled, circuits close only for a reason, refinement of `Breaker`; limiter: types, bursts, end of refusals | breaker: one provider (providers do not interact in the breaker), two requests, two policies (one disabled), two instances, a counter that saturates at 2, a clock to 2: a cooldown of 1 can start, expire and be crossed by a stale stamp; limiter: two addresses, two requests in flight, limits 1 and 2, a period of 2, a skew of 1, a clock to 5, two periods and a tick |
| `circuit_probe` | violates `SingleProbe` | one policy, one instance, a clock to 3 |
| `circuit_expiry` | violates `RefusedUntilExpiry` | the same |
| `search` | accounting, deadline, coverage exception, status, termination, refinement of `Dispatch` (with it the budget and the permits) | three providers (a first round of one or two, and later rounds), limits 1 and 3, one permit so that tasks wait, two retries, a deadline of 4 in which two timeouts fit and a further retry does not; one filter |
| `search_failure` | violates `FailureOnlyWhenExhausted` | the same without retries |
| `reload` | agreement, revocation, the lock's release | two admin requests and one unlocked reload, one client, two tokens, two capabilities |
| `reload_revoked` | violates `RevokedStaysRevoked` | the same |
| `rate_limit_retry` | violates `RetryAfterHonoured` | one request at a time, no skew, a clock to 8 |
| `deep` | budget, traffic, revisits, overrun, gains, crawl delays, termination | four pages on two hosts (links both ways, a repeated link, a fragment, redirects between hosts, an unsafe page), three fetches, three bytes and a chunk of one, so that each limit is met with something left of the others, one redirect, a deadline of 3 with 0 or 3 of it gone, three robots files (a delay, one too long, groups with a longer Allow), three subqueries of which the cost allows fewer |
| `store` | types, recovery, telemetry, eviction, rotation, spacing | a clock to 2 with an interval of 2 and a day of 1; one query and one page with three contents of which two fit; two maintenance tasks at a time; three backup files and one kept; `MaxWork` 8, of which a cache operation or a restore takes 2, a backup or another copy 3, an observation or a log entry 4 and a downgrade 6: a backup and two restores in one second, two backups by two tasks and a restore, two observations, four cache operations, a downgrade and a cache operation or a restore happen |
| `surface` | egress, citations, embeddings, relevance, pages, access, settings | below |
| `answer_markers` | violates `NoneFabricated` | the texts of `surface` |

`surface` explores the seven modules one at a time, `gates` the breaker and the
limiter: one steps (`part`, `gate`) while the others rest in their initial state,
as they share no variable, so the state space is the sum of theirs. The bounds of
`surface`: one request at a time for `Outbound`; every text
of up to five tokens and three longer ones for `Answers`, three results and two
sources; two spaces, two texts, two runtimes, one call and a capacity of 2 for
`Embeddings`; all facts for `Relevance`; three providers with up to two items
each of one page in three guises and others, one optics document or none, pages
of 1 or 2, a first page on day 2 and one change of answers, time or optics
between pages for `Results`, where a page is judged by what it was given itself; two callers, four server configurations, two services
and a cap of one write for `Access`; two editors, one listener and changes
worth 3 for `Settings` (those of the provider record, the diversity policy, the
data policy and the bind address take 1, the others 2), enough for a change that
is dropped or pending, another of the same record or policy, and a stale reload.

Symmetry: `gates` permutes requests and addresses, `store` contents and tasks, `surface` the spaces, texts and runtimes of `Embeddings`; none
of these runs checks liveness. Deadlock checking is off where a bound may stop
an idle system: `gates` and the circuit runs (clocks, instances), `store` (clock,
work) and `surface` (refusals, services, days, edits; a finished text or page).

Each property is accompanied by a mutant of the code's model that breaks it
(`PROJECT.json`).

### What the violations show

- `SingleProbe`: every request that selects its providers after the cooldown
  and before an outcome sees `half_open`; the comments speak of one probe.
- `RefusedUntilExpiry`: a response that took its timestamp earlier but records
  later moves the deadline of an open circuit back. `BoundedCooldown` shows that
  it can never move it beyond one cooldown from now.
- `FailureOnlyWhenExhausted`: a later round without new results stops the search
  as `marginal_gain_low` even when there is no result at all, so a failure may
  be reported with providers, calls and time left.
- `RevokedStaysRevoked`: a reload without the lock that read the file before a
  rotation may swap after it was acknowledged. `RevokedWhenFresh` shows that
  this is the only way.
- `NoneFabricated`: of `[[9]1][1]` both scans read the piece `[[9]`, which is no
  number and is copied, so the answer cites source 1 and shows `[9]` as well.
- `RetryAfterHonoured`: another address's request may sweep just before a window
  is old enough; the next sweep is a period later. `RefusalEnds` bounds the
  refusal by two periods.

## Fairness

`Search`: the orchestrator's own code runs, the runtime polls its tasks and
fires its timers (weak fairness of the steps that need no provider), and the
clock moves. No fairness is assumed of providers: `Succeed`, `Fail` and `Panic`
need never happen. `Tick` waits for timers that are due, so a timer fires on
time. `Deep`: the same; the task is polled (`Local`), an expired timer ends the
await it guards (`Expire`), and the clock moves; no page, origin, renderer or
provider need ever answer (`Peer` is not fair). `Reload`: a task that has begun
is polled, a write ends or fails, and a build ends or its request times out
(`Drop` and `Build` are one weakly fair choice). The other modules state no
liveness.

## Proofs

The theorems hold for every value of the constants that satisfies the
assumptions of the modules.

- `CircuitProofs`. `CooldownIsBounded` is inductive with the types and the fact
  that stamps lie in the past. `SettledIsDurable` needs what a request that is
  writing has in hand: the row of a provider with one writer and no overlap is
  the live record. `CircuitClosesForAReason` is an action property that follows
  from it: a rebuild of a settled provider reads its own record back.
  `CircuitImplementsBreaker`: under both invariants and `PhaseInv` (what a request
  has outstanding is either admitted or to be recorded) each action maps to one
  of `Breaker`: a record to a report, the end of a write or a clear to `Settle`,
  a reload or a restart to `Rebuild`, where durability gives the kept times and
  the bound on cooldowns the others.
- `SearchProofs`. `LedgerInv` relates each task's place to the used, failed and
  attempted sets in the middle of a round; `BudgetInv` adds that what is planned
  has not been attempted; `PermitInv` that the tasks that hold permits are at
  most the permits; `DeadlineInv` that every timer lies within the deadline;
  `ExceptionInv` that a spent exception is remembered; `SuccessInv` is the
  status at the end in terms of the ledger. `SearchImplementsDispatch`: initial
  states map to initial states, and under `LedgerInv` and `FoundByUse` each
  action of the search maps to one of `Dispatch` or to a stutter. `FoundByUse`
  says that results imply a provider that answered and that a status is given
  only at the end; `SameCount`, that the instance counts as its user does.
- `ReloadProofs`. `AgreeInv`: a reload that is not outdated carries the file,
  and once it swapped the service, the service is the file unless a stale swap
  happened. `RevocationHolds` adds that every token held by the file, the
  service or a text still to be written is minted, alive and belongs to one id
  (`HeldInv`), and that what a task will declare dead is not in what it writes
  (`KillsInv`).
- `RateLimitProofs`. `AgeInv`: the last sweep lies in the past, stamps within
  `Skew` of now, and every window was younger than a period at the last sweep;
  hence a window a request is refused for is younger than two periods.
  `BurstInv` (for `BurstIsBounded`): what an address got through since its window
  began is at most what the window counts, and in a whole span at most one limit
  more.
- `SubsequencesProofs`. Every non-empty set of naturals has a least element,
  taken from the library's well-founded orders; hence induction over a set of
  naturals, which the provers can instantiate where they cannot instantiate an
  operator. With it: positions and places of `Picked` are one to one and in
  order, its elements are those picked, and it is a sequence of its type.
- `DeepProofs`. The types need the limits of each fetch (`Requests`) and of the
  budget. `TrafficInv`: what came, and a full allowance and a chunk for each fetch
  that is left or under way, is at most those of all. `DeadlineInv`: each timer,
  and in the phases before a fetch the instant at the top of the loop, lies
  within its bound. `GainInv`: what was gained is known. `HrefInv`: queue, current
  candidate and documents are disjoint, each without repetition, and visited.
  `SpacedInv`: a wait that began after the last contact ends a delay after it.
- `StoreProofs`. The types carry most of the weight: that a put leaves a cache
  within its limits rests on the order of `Coldness` being total, so that
  dropping the n coldest rows drops exactly n, and on a loop that always ends
  because an empty table fits. `EvictionFollowsUse` and `RotationKeepsBackups`
  follow from the same facts. `KeptInv` (for `Recoverable`): what was replaced
  is whole in a file that no rotation touches or was lost to a truncation
  (`Recoverable` itself), safety copies have the first name of their second
  (`FirstNames`), and before the main file is overwritten its copy is there
  (`Saved`). `SpacingInv` (for `BackupSpacing`): only tasks that run have jobs
  (`Resting`), and unless a bad copy was removed, an automatic backup at least as
  recent as any task's last is listed and each task's own time is as recent as
  the backups it has to know of (`Remembered`). `TelemetryDurable` is inductive
  with the types; the steps rest on how many rows of an instant `Append`,
  `Pruned` and `Removed` leave.
- `SurfaceProofs`. `EgressIsGoverned`: the file may hold anything between two
  reloads; what is served has been validated, and so has what a request began
  with, and a valid configuration builds no caller its policy forbids.
  `AcknowledgedSettingsStay`: `KeptInv` says that one editor
  at most is in the section of the lock, that a reload which is not late has
  read the file, that a text under way carries every promise it does not change,
  and (`RecordsServed`) that the record fields which are promised are served,
  since the next record patch writes the served ones back.
  `RequestsAreAccounted`: the last matching credential exists
  because credentials are lists, so what the checks allow is entitled; the
  counter of a trail is its two kinds of tasks and its drops, and nobody is
  dropping an event of a service that is not built yet, whose trail a reload
  resets. That `ResolveClients` returns a list is an assumption
  (`ClientsAssumption`, which TLC evaluates), as the prover does not know
  `SelectSeq`. `RelevanceIsUncontradicted`: whatever the facts, the rung at which
  the ladder stops does not contradict them. `EmbeddingsAreTheirs`: every copy,
  in memory or in a file, holds entries whose vector is that of their key, each
  key once; a call under way has a live runtime, and what it knows are vectors
  of that runtime's space. The copy after a list of texts is a recursive
  function, shown to exist and to stay a copy by the induction of
  `SubsequencesProofs`.
  `AnswersAreGrounded`: the loop of the scans is followed stop by stop. Its stops
  cut the text into pieces (`Cuts`, `StopsCut`), and a text is cut in one way
  only (`OneCut`); the pieces that are kept, moved to their places in the
  stripped text (`KeptStep`), cut that text, so its stops are those kept of the
  original (`StopsLeft`) and no marker appears by joining what was apart. A marker
  that is no stop lies inside a piece, whose first token is the bracket that was
  open before it.
  `PagesArePartition`: what arrived is the same set in every order (`Arranges`,
  `Given`), and the pipeline's result is a function of it (`SameRun`): the order
  in which a group looks for its representative leaves a tie only between two
  items of one provider, which arrive in the provider's order. Each URL stands
  once in the list through ranking, adjustment and diversification (`ListsOnce`),
  and consecutive windows join (`WindowsJoin`). The inductive invariant
  (`ResultsInv`) is that each page is the window of its number of the one list
  that what it was given determines; nothing relates what two pages were given.

Only model-checked: the liveness properties `Terminates` (of `Search` and of
`Deep`) and `LockIsReleased`, since they need fairness and ENABLED. Every safety
property of the passing runs is a theorem.
`BudgetConserved`, `ConcurrencyRespected` and `ChangesAreSerial` are proved and
not part of a run, as `ImplementsDispatch` and `SettingsKept` say more.

## Not modelled

Local ingestion and evidence passages are sequential processing of text. The
router's scores, the averages of telemetry, `ranking_v2` and the experimental
embeddings are floating point arithmetic without an order of events; the router
appears as an order and a threshold. Adapters, the fetcher's sockets, the
browser and the model endpoints are I/O; the models let them answer, fail or
never return. Of the command line, the commands that change state are in
`Store`; the others, and the web interface, call the same operations.
