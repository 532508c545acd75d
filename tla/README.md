# LAG inventory sync in TLA+

A verification project kept beside the LAG portfolio code: the service reads an
ERP feed of inventory records, collapses duplicates to the last row of each
business key, and upserts every record into Dataverse through a pool of worker
threads. The modules model the parts of it that keep state or meet concurrency
and failure; TLC checks them on small instances and TLAPS proves the main safety
properties for every value of the constants.

Paths below are relative to the repository: `kit/` stands for
`shared/lag-service-kit/src/lag_service_kit/`, `utils/` for
`shared/lag-data-utils/src/lag_data_utils/clients/`, `svc/` for
`services/inventory-sync-engine/`, `infra/` for `infra/azure/key-vault/`.

## 1. Inventory of the system

| Component | State it keeps | Operations | Hard behaviour | What makes it correct |
|---|---|---|---|---|
| Circuit breaker, `kit/circuit_breaker.py` | counter, latch, lock | `is_tripped`, `record_success`, `record_failure` | called by all workers in any order; an unvalidated threshold | open exactly after `threshold` consecutive failures, latched, announced once |
| Upsert loop, `kit/runners/odata.py` | uncollected futures, tally; queue and workers of the executor; the shared breaker | `sync_records`, `_upsert_one` | completion in any order, check-then-act on the breaker, exceptions that escape a worker, joining | every record counted once and as what it was, bounded window, records started in order, nothing running afterwards, it ends |
| Orchestration, `kit/runners/base.py`, `kit/runners/dataverse.py` | none between calls; the destination between runs | `run`, `load_settings`, `build_client`, `build_payload` | each phase may fail, the process may die in any, the feed changes, an earlier run's requests arrive late | exit code 0 means every record is stored as loaded, early errors write nothing, reruns reach the feed |
| HTTP and OData client, `utils/http.py`, `utils/odata.py` | pooled session, retry policy | `upsert_record`, and `get_record`, `delete_record`, `query_records`, which the sync does not use | timeouts whose request is applied all the same, retries, late requests of an earlier call; keys with quotes in a URL | what a call returns holds, a refused request changes nothing, calls end, a key names its own row |
| Token acquisition, `utils/dataverse.py` | `_token_lock`; MSAL's token cache | `acquire_bearer_token`, called for the headers of every request | many threads see one expiry; the lock is held across a network call | one grant per expiry, no stale token, no lock left behind |
| Loading, `svc/runners/base.py`, `kit/dedupe.py`, `kit/validation.py`, `kit/readers/csv.py` | merge dictionary, chunk iterator | `load_records`, `_validated_chunks`, `dedupe_last_seen_chunks`, `dedupe_last_seen` | duplicates across chunk boundaries, a malformed chunk late in the feed, types inferred per chunk | the last row of each key and nothing else; a malformed feed yields nothing |
| Settings, `kit/settings.py`, `kit/dataverse_settings.py`, `kit/azure_key_vault.py`, `svc/config.py` | none; reads environment, vault, `.env` | `InventorySyncSettings()` | three sources changing under it, vault errors | fixed priority, no silent fallback to `.env`, what the operator wrote is what is loaded |
| Vault scripts, `infra/*.sh` | `.env`, the vault | `key_vault_init.sh`, `key_vault_auto_pull.sh` | role propagation, an abort in between, also while `.env` is being copied, a `.env` without final newline | bounded poll, only non-empty values pushed, no line of `.env` lost or changed by a run or a rerun |

They interact by calls: `run` loads the settings, builds the client, acquires a
token once, loads the records, and calls `sync_records`; each worker calls
`upsert_record`, which calls `acquire_bearer_token` and then sends. Shared
between threads are the breaker, MSAL's cache with its lock, the session, and
the executor's queue. There is no persistence on the client side: a rerun reads
the feed again, and the destination's alternate key makes the PATCH idempotent.

### Not modelled

- Entry points and the mock demo: wiring, and an in-memory destination driven by
  the loop that `UpsertPool` models.
- `query_records`: it changes nothing, the service does not call it, and what a
  page holds is the server's.
- The JSON and Parquet readers: one pandas call each, for which the whole-file
  path of `RecordLoading` stands.
- Logging (formatting), the Power Platform solution (declarative), tests, docs, CI
  and packaging.
- The text of `.env` lines: what `grep` and `sed`, python-dotenv and bash make of one line
  would be a model of three parsers outside the repository.
- Overlapping runs, and urllib3's connection pool.

`PROJECT.json` lists every component with its status, and every hazard at its line.

## 2. Modules and how they correspond to the code

**ConsecutiveFailures** is the abstract promise of a consecutive-failure
breaker: it sees only the sequence of outcomes and is open exactly when it
contains `Limit` failures in a row. It has no counter. A threshold below 1
behaves as 1, because the comparison follows the increment.

**CircuitBreaker** is the class. Each method holds the lock for its whole body,
so each is one action. `failures` and `tripped` are the two attributes;
`outcomes` and `announced` are history.

**UpsertPool** is `sync_records` and `_upsert_one` over an instance of
`CircuitBreaker`. The main thread's actions are the loop's branches: `Submit`,
`CollectFinished` (wait for the first completion, collect all that completed),
`Drain` (`as_completed`), `Drained`, and `Leave` (the `with` block's exit, which
joins). A worker goes through `Take`, `ConsultBreaker`, `Send`, `Answer`,
`RecordOutcome`, `Resolve`; the breaker's lock is free between any two of them.
What `upsert_record` may do is the constant `Replies`: two accepted answers, the
three caught exceptions, and exceptions that escape. A future whose `result()` raises in
the main thread leaves through `unwind`. `Leave` waits for `Quiescent`, which is
`shutdown(wait=True)`: it cancels nothing. `late` is history.

**RecordSync** is what `sync_records` promises its caller, without threads,
queue, window or breaker: every record is sent at most once and reaches one
outcome, none is passed over before `Limit` failures, and the call ends with
the tally of the outcomes, or with an exception once nothing of it is under
way. `UpsertPool` implements it: `OutcomeOf` maps a row to "sent" while its
worker is in `upsert_record` or tells the breaker, and to its outcome as soon as
the worker knows it (the breaker may trip, and rows be skipped, before the
future is resolved); `ReportOf` is how the main thread left.

**PatchDelivery** is what the client's calls promise a run, without attempts, timeouts or
statuses: the PATCH of a call is under way from its begin, may be applied any number of
times or not at all, during the call or after it, in a later run too, and its call is
accepted only if it has been applied. `ODataCalls` implements it. Its mapping takes
all attempts of a call for one PATCH (`Patches`), which stays under way as long as another
attempt may follow; a call for the key is a run of its own, since a run sends a key once.

**SyncRun** is `BaseSyncRunner.run`, again and again against one destination. It
EXTENDS `RecordSync` for the call in its middle, `PatchDelivery` for what each
record's call does to the destination, and `EntityKey` for the row a request names. Every phase (`LoadSettings`, `BuildClient`, `AcquireToken`,
`LoadRecords`, the sync) advances or raises what its component can raise;
`Clause` is the list of except clauses, `ExitCode` the decision on `failed`.
A feed pandas cannot parse raises an error of its own, which run() reports as unexpected.
`EditFeed` rewrites the source and `Kill` ends the process at any time.
`late` and `by` tell requests and writes of this run from earlier ones.
The two interfaces are refined by the modules below them (`UpsertPool` and
`ODataCalls`), so what holds of `SyncRun` rests on nothing the loop or the client
was merely assumed to do.

**EntityKey** is the text of an entity URL (`DoubleQuotes`, then
`PercentEncode`) and the server's way back (external): split at "/", decode,
read the literal. A text is a sequence of symbols chosen so that a key can contain
a quote, a percent sign, a slash, and the text of an escape.

**ODataCalls** is a sequence of `upsert_record`, `get_record` and
`delete_record` calls for one key, by one run or by several: the client's retry loop (`DEFAULT_RETRY`),
`DEFAULT_TIMEOUT`, and a network that may hold a request of an abandoned attempt
and deliver it in any later state. One key stands for all: a key names its own row
and no other (`EntityKey`), and a run sends each key once
(`RecordLoading`, `UpsertPool`). `Crash` may strike at any point of a call.
`Throttle` is a 429 or 503 of the destination itself, `GatewayError` a 502 or
504 of something in front of it, behind which the request may go on.

**TokenCache** is `acquire_bearer_token` with one action per atomic step. MSAL
and Entra ID are external. `silentLooksUp` is a trait of the MSAL version fixed at
the start of a behaviour: older versions serve `acquire_token_silent` with
`account=None` from the cache; the pinned one returns None, and the cache is
read inside `acquire_token_for_client` instead. Both are modelled, because the
code is written for the first and runs on the second; in the second the
unlocked fast path never hits and every caller takes the lock.

**RecordLoading** is `load_records`. A row is its position in the feed and only
its key column matters. On the streamed path `PullChunk` is the generator
(validation included, before the chunk is merged), `MergeRow` one assignment of
the dictionary, `FinishMerge` the frame built from its values; `LoadWhole` is
the other path. `Typed` is pandas' type inference, once per parsed batch.

**ConfigResolution** is the constructor of the settings class (`BeginLoad`,
`Fetch` per secret, `Merge`) against an operator who edits the environment and
`.env` and disables secrets, and the two scripts. Of `key_vault_init.sh`, `StartInit`
is everything up to the poll and `Poll` its loop; then the URL is either appended to `.env`
(`AppendUrl`) or its line replaced: `SubstituteUrl` is sed's copy to a temporary file,
`Replace` the `mv` over `.env`, and `CopyPart` the state `.env` is in when that file lies
on another file system (`mktemp` follows `TMPDIR`) and `mv` has to copy. `InitAborts` may end the
script in any of these. `Store` is `key_vault_auto_pull.sh`.
Secrets are fetched one by one, so a load may see a rotation half done, and a secret may be there
without a value, which `__call__` leaves out of what the vault supplies (`FromVault`).
`during` is the history of what the vault held meanwhile, `owed` that of each line of `.env` as the
operator saved it last. Texts are represented by what tells them apart: two usable values, a
blank one, and a malformed one, typed so, cut short, or with the URL appended to it.

The `MC*` modules EXTEND these with the model values of a run. The `*Proofs`
modules hold the theorems, **SequenceLemmas** the facts about sequences they share.

Operators whose names say how they differ from the one below them
(`ReachedOneLate`, `LeaveWithoutJoining`, `KeepFirst`, ...) are mutated forms of
mapped definitions. No specification uses them; each shows that a property
fails when the code has that bug (`PROJECT.json`, "mutants").

## 3. Runs

| Run | Instance | What it shows |
|---|---|---|
| `breaker` | threshold 3, 8 outcomes | the counter implements the promise, over every order of outcomes |
| `pool` | 2 workers, 5 rows, window 4, threshold 2, fair | tally, exit code, window, order, late sends, joining, what the breaker hears and promises; `sync_records` ends and implements `RecordSync` |
| `sync_run` | 2 keys of quotes, 2 versions, 1 edit of the feed, any number of runs, fair | exit code 0 means stored, no row holds another key's record, early errors write nothing, reruns reach the feed |
| `loading` | feeds of up to 5 rows over 3 keys and a blank, chunks up to 3 | deduplication, validation before any write |
| `token` | 3 threads, 2 calls each, 1 expiry, fair | one grant per expiry, freshness, lock discipline, who can block whom |
| `delivery` | 3 calls of any kind, 2 attempts each, fair | what an outcome says about the destination, then and before; every call ends; the calls implement `PatchDelivery`; keys of up to 5 symbols name their own row |
| `config` | 2 secrets and a defaulted setting, 2 acts of the operator, 2 polls | priority of sources, when alone a secret comes from `.env`, and that what was written is loaded |
| `rejections`, `loading_numeric`, `loading_order`, `config_dotenv_url`, `config_fallback` | small | five places where documentation and code differ (section 6) |

Why the bounds are enough. In `pool` one worker has a request under way
when the other trips the breaker, five rows leave rows to be skipped after that, and
a window below the number of rows makes the loop collect before it has submitted
all; an escape can meet every other state. Threshold and window at and below
zero are covered by the theorems (both are any integer there), and so are more
workers. In `delivery` three calls are what it takes for a request
given up by the first to be applied after the second and read, or counted, by
the third, and two attempts for one to be given up and retried; a third attempt
only repeats the second. In `sync_run` a run never ends the behaviour, so late
PATCHes of one run meet all phases of later ones; the keys are the one quote and the
two quotes that a missing or misplaced doubling confuses; two records let one be
skipped after the other failed (`Limit` is 1), and one edit makes an earlier
run's PATCH a stale one. In `token` a third thread is one that waits behind the thread that
refreshes while another uses the fast path, and one expiry may fall between any
two steps. In `loading` five rows and chunks of up to three give two chunk
boundaries and duplicates on both sides of each. In `config` a behaviour starts with or without
an exported URL and with any lines missing from `.env`; two acts of the operator (an edit, which may
change several lines, a disabled secret, a run of `key_vault_init.sh`) are what it takes to
provision the vault and then change something, or to run the script again after an abort, and
fall anywhere between the steps of the scripts and of a load; two secrets are what a rotation can tear.

No run uses symmetry: the workers of `pool` are interchangeable, but one of its
properties is a liveness property.

### Fairness

`pool`: weak fairness of the main thread, of some idle worker taking a
queued row, and of each worker's own steps. The operating system runs runnable
threads, and a request ends because every call has a timeout and finitely many
retries, which is what `CallEnds` in `delivery` checks. That rests on token
acquisition ending as well, which the code does not ensure: MSAL is built
without a timeout. `token` therefore assumes nothing of Entra ID, and states that
it alone can block the callers (`OnlyEntraBlocks`). In `delivery` the client's own steps
are weakly fair, including the expiry of a timeout; nothing is assumed of the
network or the destination. `sync_run` assumes of the network that a request left
behind by an earlier run does not stay under way for ever, as connections are
closed. It assumes nothing of the runs: that they keep succeeding is
the antecedent of `RerunsReachTheFeed`, as in the sentence of the code it checks.
`config` needs none.

`breaker` turns the deadlock check off: the run is over after `MaxCalls` outcomes.
All other modules end in an explicit `Terminated` step or never end (`SyncRun` can
always be started again), and deadlock is checked.

## 4. Proofs

Assumptions are the named `ASSUME`s of the modules: finite non-empty sets of
workers and threads, integers for threshold and window, naturals for the bounds.

*CircuitBreakerProofs.* `CounterCorrect`: until the trip, the counter is the length of the run of
failures the history ends with and is below the limit. `BreakerKeepsPromise`
is the refinement: with that invariant, an appended outcome creates a streak of
`Limit` failures exactly when the counter reaches the limit.

*UpsertPoolProofs.* The properties are not inductive: nothing in the tally says
who may still change it. `PoolInv` adds it. `WorkerInv` and `QueueInv` give every pending
row exactly one place, in the queue or with one worker; `FutureInv` ties the
futures to `next` and says collected ones are counted outcomes; `TripInv` says
what must have happened before anything is skipped; `LateInv` counts, after the trip,
the workers that may still send; `MainInv` says what each place of the main thread
implies. One lemma per action shows it is kept. From it follow the window bound,
the exact tally, the accounts of a run that returns, the truth of the exit
code, the join, and the bound on late sends. The refinement of the breaker's
promise is proved through the instance: every step of the pool is a step of the
breaker or leaves it alone.

The second part of the module is the refinement of `RecordSync`. `RunSettlesItsRow`
and its neighbours say which row each step of the pool gives an outcome: at most one,
and at the moment its worker knows it. `HeardInv` says that the outcomes the breaker has recorded are
those of the rows that failed or succeeded, one each. A tripped breaker has heard
`Limit` failures (from its own promise), so as many rows have failed before one is
skipped: that is `SkipsNeedFailures` and the guard of `RecordSync`'s `Skip`. The tally
and the join of `PoolInv` give the reports. `OrderInv` (the queue is the last piece of
what has been submitted, and whoever resolved a row went on to a later one or to
none) carries `InOrder`.

*TokenCacheProofs.* `TokenInvariant` combines the lock's discipline with
`TokenInv`: the cached token, if any, is of the current epoch and was granted
once in it; whoever is about to ask Entra ID found the cache empty and is alone in
the lock. One grant per expiry and freshness follow.

*SyncRunProofs.* `StoredInv`: an accepted record of this run is stored for as long as
the run lasts. It holds because a request under way carries the record this run
loaded or is marked late (`WireInv`), so only a late one can overwrite it.
`CallInv` adds that nothing is skipped unless something failed, hence a tally
without failures means that all were accepted. `WireInv` alone gives `EarlyErrorsAreHarmless`.

All of this needs that a PATCH lands in its own key's row: `EveryKeyNamesItsRow`, for keys of
any length over any characters (but the mark for "no row"). Each transform of a key flattens the pieces it makes
of the symbols (`QuotesJoin`, `EscapesJoin`), so every symbol's piece stands at a known place of the text,
and a scan from the right that reads one piece at a time gives back the symbols one
by one. `NoRowIsAnothersRecord` follows, for any number of runs and late requests.

*SequenceLemmas.* What those arguments, and the ones about the feed, need of
sequences: what a flattened sequence is and where its pieces stand, that a function defined by recursion
along a sequence exists and computes what its equation says, and that a finite set of positions can be listed
in ascending order. The inductions are over sets (`Least`: a
non-empty set of naturals has a least element), as the library's induction
theorems take an operator as a parameter.

*ODataCallsProofs.* `NetInv`: whatever is under way was given up by its call, or is the
attempt its call is waiting for. So between an answer and the next call only given-up
requests can change the row (`VerdictInv`), and only they can have changed it before
the answer (`BeforeInv`). For the refinement of `PatchDelivery`, `FreshInv` adds that no request under
way is the one that wrote the row, now or when the call began: a row written by an earlier
call was therefore there before, or written by a late PATCH since.

*ConfigResolutionProofs.* `FetchInv`: what a load has read from the vault, the vault held
during that load, and nothing is merged before all of it was read. `OwedInv`: outside a copy, `.env`
holds the lines the operator is owed, and while the script replaces the file, its
temporary one does. What is loaded follows at the merge, so the three properties are stated
of the step that ends a load.

*RecordLoadingProofs.* `ValidatedSoFar` (how far the feed is known to be good)
carries `AllOrNothing` and `StopsAtBadChunk`. `MergedSoFar` (the dictionary after some
rows) carries `LastSeenWins` on the chunked path, and `InsertedInOrder` the order of what it gives (`OutputOrder`),
when no key reads as a number, without which they are
false (section 6). On the whole-file path the last rows are listed in ascending order
(`EnumerationExists`), which gives their order as it stands, and `LastSeenWins` if
distinct keys read as distinct numbers (`NumbersApart`): pandas reads the whole column as
one type there, and "007" and "7" become one key.

Only model-checked: the liveness properties `Terminates`, `CallEnds`,
`OnlyEntraBlocks` and `RerunsReachTheFeed`, as fairness and ENABLED are out of the prover's
reach. Every invariant, action property and refinement the runs check is also a theorem, and so is
the part of each liveness property that needs no fairness:

- `Terminates`. `Todo` is what sync_records has still to do. `EveryStepIsProgress`: every
  step does something of it for good. `StepsAreBounded`: a clock that every such step
  advances never passes `9 * NumRows + 2`.
  `SomebodyCanGo`: until the end some thread's guard holds (this is where a lost wakeup
  or a row nobody holds would show; `FutureInv` excludes it). What is left to
  fairness is that a thread that can go does.
- `CallEnds`. `OnlyCallsAddWork`: `Work`, the steps the attempts left allow and the requests
  under way, shrinks with every step but a new call. The client itself is never
  blocked: it can always transmit or time out.
- `OnlyEntraBlocks`. `EveryStepNearsTheEnd`, and `LockNeverBlocksAll`: if no thread can
  go on, the lock's only holder waits for Entra ID.
- `RerunsReachTheFeed`. `OneGoodRunSettles` and `RerunsKeepTheFeed`: a run that ends with 0
  on the current feed makes the destination hold it unless a PATCH of an
  earlier run that says something else is under way or was applied over it,
  and then every further step keeps it so until the feed is edited. Fairness adds that
  old PATCHes do not stay under way for ever.

## 5. Abstractions

- Rows are numbers; payloads and headers are not modelled. An exception while a
  request is built (a key read as a number, a refused token) is `PrepareFails` in `ODataCalls`, an escaping
  reply in `UpsertPool`, and in `SyncRun` a raised outcome whose PATCH is lost. A transport
  error of the token request is one `_upsert_one` catches: that call counts as failed.
- A secret without a value is what `get_secret` returns of one in the words of `azure_key_vault.py`
  ("a disabled or soft-deleted version"); how Azure itself answers is outside the repository.
- A piece of `.env` is any set of its lines, the last perhaps cut, as their order is not modelled.
- A done set that contains a raised future loses the tally altogether, so what
  the loop had added before it met that future is not kept.
- Worker threads exist from the start; the executor starts them lazily.
- Backoff and Retry-After are time and are not modelled; an attempt may come at any later moment.
- `vault_secret_fields` are represented by two fields, the defaulted ones by
  `log_level`; secrets are fetched in any order, the code's fixed order being one of them.
- In `SyncRun` loading is one step (`RecordLoading` has its steps, none of which
  writes), the feed always has the same keys, and one run is under way at a
  time; what an overlapping run could do to a row is what a late PATCH does.
- In `EntityKey` the two digits of an escape are one symbol.
- Loads of a real system are one per process; the model repeats them against a
  changing world, each with a snapshot of the environment and `.env`.

## 6. Where documentation and code differ

1. `rejections`. docs/execution-flow.md:87-90 has a request that is still rejected after
   its retries end in a counted `HTTPError`. For 429, 502, 503 and 504 it ends in
   `RetryError`, which `_upsert_one` does not catch: the run aborts, the row is not
   counted, and a throttled destination never trips the breaker.
2. `loading_numeric`. A key that looks like a number is an int in a chunk of
   such keys and text in a mixed one; both rows survive.
3. `loading_order`. dedupe.py:54-56, docs/architecture.md:286-289 and
   docs/design-decisions/data-pipeline.md:64-65 have chunked and whole reading give the same
   records. The rows are the same, but chunked reading keeps a key in the place where it first
   appeared and whole reading in that of its last row.
4. `config_dotenv_url`. `.env.example` and docs/setup.md say that
   `AZURE_KEY_VAULT_URL` in `.env` selects the vault; only the process
   environment does.
5. `config_fallback`. azure_key_vault.py:159-164 will not have a vault-backed field "fall through
   silently to a possibly-stale `.env` value". A missing secret is an error, but one that exists without a
   value is skipped (line 217), and `.env` supplies the field. `FallbackNeedsNoValue`, checked
   and proved, says that this is the only way.

Noticed while modelling and left without a run: the docstring of `acquire_bearer_token`
(dataverse.py:287-290) promises `DataverseAuthenticationError` when the authority cannot be
reached, but nothing between lines 317 and 335 converts the transport's exception
(`EntraAnswers`); `key_vault_init.sh` announces
a URL it may have glued to an unterminated last line (`AppendUrl`); its `mv` is not atomic
between file systems, and an abort in it leaves a piece of `.env` (`CopyPart`); an exported
vault URL makes every declared secret required, also when the environment
supplies the value (`Fetch`).

## 7. Plan

Done, in this order: the breaker and its promise; the upsert loop; token acquisition;
loading; settings and scripts; then `RecordSync` and the proof that the loop implements
it, the run and its reruns (`SyncRun`) with the text of keys (`EntityKey`), the client's
calls (`ODataCalls`, reads and deletes included), secrets fetched one by one, the
proofs of section 4, and `PatchDelivery`, which ties the run to the client's calls.

Left, none of it a part of the sync that keeps state:

- an overlapping second run, beyond what its late PATCHes do;
- `query_records`' paging, if the service comes to use it;
- `RerunsReachTheFeed` for every instance, should a prover for it be at hand.

## 8. Running it

`tlc -config MCUpsertPool.cfg MCUpsertPool.tla` checks a run, `tlapm
UpsertPoolProofs.tla` the proofs of a module. `PROJECT.json` lists the runs, the
lines every definition models, the mutants, the hazards and the theorems.
