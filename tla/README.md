# Stock Agent Decision Authority: TLA+ models and proofs

The repository is a decision service that works from frozen evidence.  Callers
ask for formal decisions and for knowledge conclusions over HTTP, each under an
idempotency key; background workers claim jobs, outcome evaluations and replays
from shared tables under leases.  What is hard about it is not one computation
but the durable state that several requests, threads and processes change at the
same time, while any of them may crash, time out or be retried.  The models
follow that state.

## The system and its parts

| Part | State it keeps | Operations | Hard behaviour | What makes it correct | Module |
|---|---|---|---|---|---|
| Knowledge conclusion (`app/application/knowledge_conclusion`, `app/routers/knowledge_conclusion.py`, its Postgres repository) | one row per idempotency key: state, version, request, frozen bundle, sealed model attempts, result; citation rows; audit rows | reserve, request bundle, freeze, begin synthesis, seal attempt, begin validation, commit, fallback, replay | concurrent callers of a key, compare-and-swap on version and seal digest, crash between any two transactions, provider failure | one final conclusion per key, replayable, cited, audited; seals append-only; a retrying caller is eventually answered | `KnowledgeConclusion` |
| Bundle validation and grounding (`bundle_validator.py`, `grounding.py`, `deterministic_fallback.py`) | none | ingest, ground findings, fall back | two contract versions, citations across items, attribution, direction | what is published can be traced to rows of the items it cites | `BundleGrounding` |
| Job queue (`storage/repositories/job_repository.py`, `workers/job_worker.py`, scheduler) | job rows with status, retry count, not-before, heartbeat, claim token, version | create, claim, heartbeat, finish, fail, cancel | stale heartbeats reclaimed while the old worker still runs | a fenced worker changes nothing; bounded retries; no lost job | `JobQueue` |
| Outcome events (`app/application/outcomes`, `workers/outcome_worker.py`) | lease row per decision snapshot, process-local result cache | claim, complete | lease expiry against a late completion, two instances, restarts | one durable outcome per key, conflicting payloads rejected | `OutcomeEvaluation` |
| Replay runs (`app/application/replay/run_service.py`) | lease row per snapshot and input hash, process-local copy | look up, claim, calculate, persist, remember | the copy outliving the lease, two threads of one service | every successful caller is given the stored result | `ReplayRuns` |
| Decision replay (`engines/decision/replay.py`) | none | replay with a component replaced, rebuild the chain | envelopes with either spelling of a component | what a mode fixes is never changed, every change is reported | `DecisionReplay` |
| Formal decision (`app/routers/decision.py`, `app/application/decision`, `app/adapters/postgres`) | decision run row, frozen input bundle, lineage, outbox | readiness gate, receive and freeze, calculate, advance, formalize, finalize | two transactions with a crash between, concurrent same-key callers, fail-closed gates | one finalized snapshot per key, outbox exactly once, no formal result without all gates | `FormalDecision` |
| Evidence gateway and calculation (`services/evidence`, `app/application/decision`) | evidence and statuses of one decision | collect, validate, freeze, calculate | partial upstream failure, late and stale answers | nothing is approved on what is missing, failed or from the future | `EvidenceGateway`, `FormalGovernance` |
| Policy engine, conflict resolver, suitability (`engines/policy`, `engines/decision/conflict_resolver.py`, `engines/advisory`) | none | evaluate rules, resolve conflicts, cap | caps that follow one another, unknown inputs, vetoes in foreign domains | an approved weight fits every limit; a veto is never lost | `PolicyEngine` |
| Portfolio pipeline (`engines/portfolio/pipeline.py`) | the targets of one run | size, cap groups, fit the budget, limit turnover, emit | each stage cuts what the one before left | caps and budget hold together | `PortfolioPipeline` |
| Backtest and price limits (`engines/backtest`, `engines/market`) | cash, lots, trades | open a day, rank, drop, trim, buy, close | T+1, suspensions, limits, minimum commission | the trade log is one a real account could have | `Backtest`, `PriceLimits` |
| Trading calendar (`engines/market/trading_clock.py`) | snapshot of a window of days | next, previous, normalize, advance | a window loaded around another day or before the calendar was published | no session is skipped | `TradingClock` |
| Decision records (`storage/repositories/research_repository.py`, `engines/decision/review_service.py`) | bindings, formal rows, v3 snapshots, reviews, decision memories | save segments, save snapshot, review, remember | calls in any order, two callers that review, a crash between a review and its memories | one bundle per decision and back; a memory has its review | `DecisionRecords` |
| Long-term memory and its index (`engines/memory`, `workers/vector_index_worker.py`) | memory rows, versions, evidence, index tasks, points, mappings | merge, supersede, expire, judge, index | merges while the worker indexes | the index holds what the records say | `MemoryIndex` |
| Retrieval (`engines/retrieval`) | none | recall, gate, hydrate | caller filters merged with access rules, index and database that differ | a caller can tighten the policy and never relax it | `Retrieval` |
| Regime (`engines/regime`) | confirmed regime, candidate, history rows | classify, advance | repeated and missing days, a process that stops between two rows | a regime is confirmed by its own days | `RegimeState` |
| Skill evolution (`engines/skill_evolution`) | proposals in memory; workspaces, releases and pointer on disk | propose, evaluate, promote, release, roll back | restarts, releases over each other | what the pointer names passed every gate | `SkillEvolution` |
| Strategy factory (`engines/strategy_factory`) | strategies and evaluation runs | generate, validate, backtest, out-of-sample, paper, shadow, activate, monitor | runs of other strategies and of earlier definitions | nothing trades that has not passed each gate on its own runs | `StrategyFactory` |
| Skills, tools and chat (`agent/executor.py`, `app/claude_agent.py`, `app/skill_contract.py`, `app/tool_registry.py`, `app/chat_history_service.py`) | execution state of a run, tool pool, sessions | route, call the model, call tools, check the contract, store | timed-out tools that keep their thread, turns of one session | a stored report was earned by its own run | `SkillExecution` |
| Model gateway and HTTP clients (`app/model_gateway`, `clients/_http.py`) | breaker state, failure count, spent budget | call with retry, fallback routing, charge | half-open probes, shared breaker between threads | an open breaker recovers; spend is accounted | `ModelGateway` |
| Formal readiness (`app/application/readiness`, `app/adapters/http/capability_probes.py`) | last good response of each upstream, with its stamp | check | request threads share the cache, probes run outside its lock | a ready answer rests on recent, gated responses | `Readiness` |
| Agent supervisor and task graph (`agent`) | budget, task states, shared context | reserve, run, commit, release | thread pool | budget accounted, no task lost | `AgentSupervisor` |
| Technical, opportunity, theme and risk scoring; routers, security, contracts, providers, scripts, evals, deployment | none of their own | score, plumbing | floating point | | not modelled |

Requests reach the services through the routers; the services share state only
through the database (Postgres, or SQLite in tests) and through a few
process-local caches; content, factor, quant and model services are called over
HTTP and may fail at any time.

## Modules

### KnowledgeConclusion

One run (one idempotency key) and the requests that work on it.

- `run` is the row of `knowledge_conclusion_run`; `citations` and `audits` are
  its dependent tables; `answered` collects the answers callers received.
- `me[w]` is what the request `w` holds between two repository calls: the label
  of the next call (`pc`), the row it read (`snap`), the seal digest it expects
  (`dig`), the bundle, attempt or result in its hands (`hand`), and why it fell
  back.  A crash loses it.
- Each repository transaction and each provider call is one action.  A save is
  split into the read that stages the new row and the compare-and-swap that
  writes it (`RequestBundleRead` / `RequestBundleSave`, and so on), because other
  requests run in between.  `Fenced` is a save whose compare-and-swap failed,
  `CommitLost` a commit that matched no row.
- A hash is modelled as an injective function, so the digest of a chain of
  sealed attempts is the chain itself.  What the validators and the grounding
  checks decide about a model response is membership in the constant `Valid`;
  `BundleGrounding` models the checks themselves.
- `AllowedVersions` is the table of row versions at which
  `_validate_attempt_binding` accepts a chain; it is the part of the design that
  is easiest to get wrong (see the double primary under "Other disagreements").

`DurableResult` is the abstract specification: a conclusion is chosen once
and only that conclusion is delivered.  `KnowledgeConclusion` implements it under
the mapping `result <- run.result`, `delivered <- {a[2] : a \in answered}`.

### JobQueue

The `job_task` table, the callers that enqueue and the worker processes.

- `job[j]` is a row; `asked[c]` is the key a caller of `create()` looked up and did
  not find; `me[w]` is what a worker process remembers of its claim (job, lease
  token, lease version, the retry count `mark_failed` computed, the `lease_lost`
  flag) and where `process_one_job` stands.
- One SQL transaction is one action.  `create()` is `LookUp` then `Insert` or
  `InsertRefused`; `mark_failed` is `MarkFailedRead` then `MarkFailedSave`;
  `claim(task_id)` is `ClaimById` then `Reread`; `claim_next` is one statement.
- The heartbeat thread is `Beat`, interleaved with the handler.  `ensure_lease`
  runs before and after the handler (`Enter`, `Leave`).
- Time is relative.  `age` counts the ticks since the last heartbeat up to the
  lease length, `wait` the ticks until `not_before`, and `Tick` moves both.  A
  worker that is neither crashed nor stalled renews within its lease (30 s against
  300 s), so `Tick` waits for it (`InTime`); a stalled worker is one whose process
  pauses or whose heartbeat thread died, and its lease does run out under it.
- Worker ids are host names: `WorkerId` maps several processes to one id.  A
  process that claims a given job id is assumed to have an id of its own
  (`OwnIdAssumption`), because `claim()` reads the token back from the row.

### OutcomeEvaluation

One decision's outcome: the lease row in `decision_outcome_runs`, the outcome
records, and the processes that evaluate.

- `run` is the lease row, `saved` the outcome records by their stable id (a digest
  of decision, horizon and instant: a window), `cache[p]` the process-local
  `_results`, `me[p]` one evaluation.  Workers keep their cache for the life of the
  process; an API request starts with an empty one and saves its answer again
  (`Publish`).
- `OutcomeWorker.evaluate` is `ReadResult`, `Claim` or `Busy`, the calculator
  (`LookUp`, `Fetch`, `Save`, each able to fail), then `Complete`, `CompleteAgain` or
  `CompleteRefused`.  A market reading is a member of `Observations`; two readings of
  a window may differ.
- Time is the flag `lapsed`.  The lease of a process at work lapses only when the
  process is slower than the lease, which is a fault; the lease of a process that
  failed or died lapses by itself.  A crashed worker returns under its host name, a
  crashed API process (`api:<pid>`) does not.

It implements `DurableResult` too, under `result <- run.result` and
`delivered <- {a[3] : a \in answers}`.

### FormalDecision

`POST /api/v2/decisions`: request handlers, in any number of API processes, that
create formal decisions under (portfolio, idempotency key).

- `rows[k]` is the committed request and run of a key; `outbox`, `lineage` and
  `snapshots` are the decisions with a committed event, lineage row and v3 snapshot.
  `inserting[k]` and `locked[k]` are the two database locks: the unique index entry
  of an uncommitted insert and the row lock of `SELECT ... FOR UPDATE`.
- `me[c]` is what a handler holds: its request, the `DecisionRun` object (`run`), the
  row its open transaction wrote (`tx`), the calculation, the answer.  A transaction's
  writes stay in `me[c]` until the commit, which is the action that writes the tables
  (`Freeze`, `Finalize`); errors and crashes roll back (`Refuse`).
- First transaction: `GateOpen`/`GateClosed`, `ReceiveNew`/`ReceiveKnown`,
  `Freeze`/`FreezeFails`, and `Reread` for a key that exists.  Second transaction:
  `LockRun`, `Calculate`/`CalculateFails`, three times `Advance`, then `Finalize` or
  `LineageMissing`, and `Reply`.
- A calculation is a record of what the specialists, the model and the policy rules
  came to; how these become `decision_action`, target weight, public status and
  authorization is translated (`PolicyApproved` to `Formalize`).  Evidence is a member
  of a set, of which `Complete` is the part that names every lineage node.
- Postgres is modelled.  SQLite's `BEGIN IMMEDIATE` locks all rows instead of one,
  which allows fewer interleavings.

Each key implements `DurableResult` (`OneAnswerPerKey`).

### AgentSupervisor

`Supervisor.run()` and the `SharedContext` its specialists share.

- `main` is the main thread: it submits a layer (`Reserve`, in any order, because task
  ids are random), collects its futures as they complete (`CollectArtifact`,
  `CollectUnwritten`, `CollectOverBudget`, `CollectFailure`), goes on (`NextLayer`) and
  writes the run's status (`Finish`).  `task[t]` is the future of a task, moved by the
  pool threads (`RunOne`, `SpecialistReturns`, `SpecialistRaises`).
- `used` is `_tool_used` and `_token_used`; `recorded`, `errors`, `subtasks` and
  `agentRun` are the artifacts, the error list and the rows.  Every repository write
  can raise (`Writes`); when the row of a failed task cannot be written, `run()` raises.
- The exception handlers release a reservation that `commit_budget` has already given
  back, if the artifact did not fit or its row was not written.  `slips` remembers those
  tasks, and `BudgetIsAccounted` (a part of `TasksAreAccountedFor`) says that the count is off by at most their
  reservations: after a slip the later layers may be granted more than the limit.

### ModelGateway

`ModelGateway.complete()`, `SubsystemHttpClient.request()` and the circuit breaker
both use.

- `breaker[b]` is a breaker: its state, its failure count (capped at the threshold,
  above which it makes no difference) and the time `left` until an open one may be
  tried; `spent[c]` is a budget; `call[c]` is where a call stands.
- `complete()` is, per route, `BeforeCall` (or `Unaffordable`, `CircuitOpen`), `Invoke`,
  `Retry`, and then `Respond`, `ResponseOverBudget` or `RouteFails`; a schema-invalid
  response is asked for again once and charged.  `request()` is `Request`,
  `RequestAgain`, `RequestFails`, `ContractViolated`, `RequestSucceeds`.
- Tokens and money are one number.  The breaker has no lock; its methods are taken as
  atomic, so a failure count lost between two threads is not modelled (the breaker then
  opens one failure later).  `before` and `billed` are history.
- A response that costs more than is left is refused by `charge()` before it is
  recorded, so the provider's bill for it is in no budget; `SpendIsReported` is
  therefore stated of the calls that end otherwise.

### Readiness

`FormalReadinessService.check()`, called by request threads on one object.

- `cache` is `_cache`; `checking[c]` is a call: when it began (`at`), the component it
  asks (`next`), the response at hand (`got`) and the statuses it has settled (`known`);
  `setup` is how the service was built (fixture, manifest, probes).
- A probe returns a status (`ProbeDown`, `ProbeAnswers`), or it or the handling of its
  response raises (`ProbeRaises`), and only then the cache is used.  `Store` replaces or
  removes the entry under the lock.  The annotation of a cached status tests and reads
  the cache without the lock (`TestEntry`, `LookEntry`), and raises if the entry
  disappears in between (`EntryGone`).
- `heard` and `born`, when a response was received and its snapshot taken, are history.

### ReplayRuns

`ReplayRunService.run_exact` for one replay identity.  `row` is the row of
`decision_replay_runs`, `cached[s]` the copy of the run that service object `s` keeps,
`locked[s]` its lock, `call[t]` where a thread stands.  The look-up, the claim, the
calculation, the conditional update and the update of the copy are steps of their own;
the lock is held from the look-up to the claim only, so two threads of a service can
work under one claim.  Each calculation draws an id, so a result is named by the token
it was calculated under and two of them differ.

### DecisionRecords

The rows kept about a decision: `bound` (decision to bundle), `segments`, `snapshots`
and what `save_v3` answered, `reviews`, `memories` and the `save_review` call each caller
is in.  A repository call is one transaction.  `BeginReview`, `SaveReview` and
`Materialize` are the three transactions of `save_review`, and a caller may be lost
between them.  The unique indexes, which matter only while two transactions overlap, are
left out.

### MemoryIndex

Long-term memory around one merge key: mergers (`Lookup`, `Snapshot`, `Supersede`,
`Create`, `Update`, `Enqueue`), expiry, outcome evidence, and the one index worker that
loads a record, clears its points and mappings and upserts chunk by chunk.  Every step
is a transaction or a call to Qdrant, and both sides may be lost between two of them.

### Retrieval

One retrieval: the access rule of the intent merged with the caller's filters, dense
recall from the index payloads and sparse recall from the rows (which may disagree), the
quality gate over both, and hydration.  Scores are hundredths; ranking keeps some of the
candidates.

### RegimeState

`classify_regime_probabilities` in integers, and `advance`: the row and the history
rows are written one transaction after the other (`Write`), and the process may stop in
between (`Stop`).  `seen` is history: the evaluations that counted.

### SkillEvolution

One skill: proposals and versions in memory, workspace, releases and pointer on disk.
`PublishVersion` moves the service's version, `CopyRelease` and `MovePointer` are the two
halves of `SkillReleaseRegistry.promote`, one step each (a directory that is half copied is
not modelled); `Restart` loses what is in memory.  `proven` is history.

### StrategyFactory

Every gate of the promotion, over a registry of evaluation runs that all strategies
share.  What an evaluation measures is a member of `Results`.  `passedGates` is history
and is emptied when a strategy is generated again.

### SkillExecution

A turn of the chat endpoint: find or make the session, route to a skill, let model and
tools take turns (`turn[c]` holds the `SkillExecutionState`), check the contract, store
question and answer.  `waiting` and `working` are the shared pool of tool threads: a call
that times out is abandoned and keeps its thread or its place.  A tool result is the set
of facts the contract looks for in it.

### EvidenceGateway, PolicyEngine and FormalGovernance

`EvidenceGateway` collects evidence request by request from services that answer, fail,
are late or stale, and freezes the bundle.  `PolicyEngine` has no state: both versions of
the rules, the order of the caps, the conflict resolver and the suitability rule, with
weights as integers.  `FormalGovernance` extends both with the calculation from the
frozen bundle: risk specialist, proposal of the model or of the fallback, policy context,
policy, final decision and quality; and with the governance of the analysis service.

### BundleGrounding

`Ingest` validates a bundle of contract v1 or v2 against its request, `Conclude` grounds
a model's findings and publishes them or raises, `Fallback` is the deterministic
conclusion.  A text is what the checks can see of it (labels, direction words, figures,
forecast and action language), a hash the value it was taken of.

### DecisionReplay

`AnswerReplay` is one call of `replay()` or `replay_v2()`: the request, what it meets
(snapshot or row, runner, envelope) and the reply.  A segment is a number, 0 being the
recorded one; an envelope is a function on the keys a runner returned.

### PortfolioPipeline

`run_portfolio_pipeline`, one action per stage.  Weights are integers in a unit in which
the halves and band middles of the configuration are whole.  `Totals` holds the one sum
the supervisor's shared budget, the pipeline and the back-test all form.

### Backtest and PriceLimits

`run_topk_backtest`, a day at a time and within a day name by name: `OpenDay`, `RankDay`,
`Drop`, `Size`, `Trim`, `Buy`, `CloseDay`.  Lots carry the day they were bought.
`PriceLimits` is the rule of a symbol on a day: listing stage, quoted rates, board, risk
warning, and the two limit prices.

### TradingClock

The quant-backed calendar adapter with the window it last loaded, the horizon up to
which the source has published, and the questions asked of it.

## Runs

| Run | Question | Bounds | States | Result |
|---|---|---|---|---|
| `two_callers_one_key` | safety of one key under two racing requests | 2 requests, 2 raw requests (one conflicting), 3 bundles (one of the wrong snapshot), a usable and an unusable response, 2 instants, 1 crash, fallback disabled so that the model gate is taken too | 168 thousand | holds |
| `retries_conclude` | is a key that callers keep asking for eventually concluded? | 2 requests, 2 raw requests (one conflicting), 3 bundles (one of the wrong snapshot, one that the fallback cannot conclude on), a usable and an unusable response, 1 instant, 1 crash, fallback enabled, fair | 159 thousand | holds |
| `job_leases` | may a worker that lost its lease, or a second worker of the host, change a job? does the job end? | 2 workers of a host, 1 claiming by id, 1 key raced by 2 callers, 1 retry, lease of 2 ticks, 2 faults, fair | 342 thousand | holds |
| `outcome_lease` | do late, duplicate or conflicting evaluations agree on one durable outcome? | 2 workers of a host, 1 API request, 2 windows, 2 readings, no start after 2 claims, 2 faults | 264 thousand | holds |
| `outcome_recovery` | is an evaluation recovered from a dead owner? | 2 hosts, 1 API process, 1 window, 2 readings, 2 faults, fair | 11 thousand | holds |
| `decision_requests` | is what a decision commits whole, does a key have one answer, and does every request end? | 2 handlers, 1 key, 2 bodies, a complete and an incomplete bundle, 5 calculations, at most 3 decisions begun, 2 faults, fair | 22 thousand | holds |
| `in_process` | do the objects that threads share keep their accounts, recover, and answer on evidence? | supervisor: 3 tasks in 2 layers, 2 resources, 2 failed writes; gateway: 1 caller, 2 routes, budget 3; HTTP client: 2 threads, threshold 2, recovery after 2 ticks; readiness: 2 checks, 1 component, time to live 1, clock up to 2; fair | 103 thousand | holds |
| `records_and_lifecycles` | do the records and life cycles around decisions stay true to each other? | see below | 1.3 million | holds |
| `decision_path` | is what is approved, concluded, replayed, planned and traded founded on its inputs? | see below | 1.2 million | holds |
| `outcome_horizons` | is every horizon measured? | 1 worker, 2 windows, no fault | | violated |
| `review_memory` | is a review that is retried remembered? | 1 caller, 2 decisions with an outcome each, fair retries | | violated |
| `fallback_raises` | does the deterministic fallback conclude on every valid bundle? | the bundles of `MCGrounding` | | violated |

`in_process`, `records_and_lifecycles` and `decision_path` combine parts that share no
state with each other: every behaviour exercises one of them (the variable `part`), which
keeps the state space the sum of theirs.

Two requests are enough for every race of the row of a knowledge conclusion: a third
would only see a row some other request has already advanced, and the theorems below
cover any number.  Two bundles of the right snapshot make a freeze race visible, one of
the wrong snapshot the mismatch; one usable and one unusable response are all the
synthesis service distinguishes; two instants make two conclusions with the same content
distinguishable.

### Bounds of `records_and_lifecycles`

- Replay: two threads of one service and one of another, a lease of 1, clock up to 2,
  3 claims: a thread can outlive its lease, be fenced, and meet a copy of its service.
- Records: two decisions and two bundles, one row id, two contents, one formal row before
  the reviews, two callers that review, two outcomes with different verdicts.
- Memory: two mergers, candidates that confirm, contradict or cannot be compared, contents
  of two chunks, of one and of none, 2 records, 2 merges, 1 outcome, 1 fault: the second merge can
  fall into any step of the worker.
- Retrieval: units whose payload and row differ in score, review or validity, one that
  only sparse recall finds; every combination of caller filters that is stricter, laxer,
  unknown or empty.
- Regime: 3 days, 4 evaluations in any order, a clear market, a close one and two
  without the scores a regime needs, 1 stop.
- Skill evolution: two proposals, patches that pass, cost too much, need more or less
  evidence or are out of scope, 1 restart.
- Strategy factory: two strategies, three run ids, definitions that pass or fail static
  validation, results on either side of the thresholds.
- Chat: two requests of one session, a pool of one thread, three contracts, readings of
  the market that are fresh or lose their timestamp to the size limit.

`IndexFollowsTheRecord` is stated of workers that index the collection the merger writes
to (see "Other disagreements") and of runs without faults, because a failed or interrupted
task is never tried again (`vector_repository.next_pending` takes pending tasks only).

### Bounds of `decision_path`

- Governance: skills that ask for every kind of evidence; answers that are good, late,
  stale or failures; positions at and below the limits; proposals by target or by delta on
  both sides of them.  Analysis: conflicts owned by one specialist that carry another's
  opinion; profiles that cap, narrow or exclude.
- Grounding: bundles of one or two items with one to three rows for, against or both ways,
  items that need a label, a forecast or a review; findings that cite one item, both, rows
  of the wrong one, or none.
- Replay: envelopes with either spelling of the policy, recorded or other identities, a
  proposal and a final decision or not, in every mode.
- Plan: three names in two overlapping groupings, scores in each band and a missing one;
  the budget, a group cap and the turnover limit all bind.
- Backtest: two symbols of two boards, three days, eight kinds of a day (rising, falling,
  suspended, at a quoted limit, ambiguous, unlimited), one name held, lots of 2.
- Calendar: a week with a holiday, a window of 4 days back and 2 ahead, every horizon.

### Fairness

Knowledge conclusions (`FairSpec`): a request thread that can take a step takes one, a
caller without an answer tries again, and a content service that is asked again and
again eventually answers with a bundle of the requested snapshot (strong
fairness: it may fail in between).  Nothing is assumed about the model: it may
answer badly or be unavailable forever.  Crashes are bounded by `MaxCrashes`.
`EventuallyConcluded` says that the bundle of a key is eventually frozen, and that its run is
then concluded, on two conditions that it states and that TLC finds necessary.  The bundle
is one of `Concludable`: on another the fallback raises at every retry
(`FallbackRaises`; `fallback_raises` shows such bundles), so that only a usable model
response concludes the run.  And not both requests sealed a primary (`TwoPrimaries`): such a
chain never binds again, and the run stays where it is.

For the job queue: a process that crashed is restarted and its loop polls every two
seconds, heartbeat threads run, and time passes (weak fairness of `Work`, `Beat`
and `Tick`).  Nothing is assumed of handlers except that they return or raise, and
they may raise every time.  Two workers and a third that claims by id make every
pair of a stale and a current holder possible; one retry separates the retryable
from the final failure; a lease of two ticks leaves one renewal in between; two
faults let a reclaimed job be reclaimed again.  Deadlock is not checked there: the
system rests when all keys are used and all jobs have ended.

For outcome evaluations: a started evaluation runs, callers ask again, an abandoned
lease expires (weak fairness of `Evaluate`, `Start`, `Lapse`); the bound `MaxClaims`
is above what two faults can cause, so it never stops a caller in that run.  In
`outcome_lease` it does stop callers, which may stop by themselves as well, so
deadlock is not checked there.

For formal decisions: a handler that can go on again and again does (strong fairness
of `Step`), because the database queues those who wait for an index entry or a row
lock, and a closed session gives its locks back; nobody is obliged to ask.  Two
handlers make every race for the two locks, three ids let a key be begun again after
each of two rollbacks, two faults fall into any two steps.  The five calculations are a
purchase that is approved, one that is vetoed, one the policy rejects, one that lacks
portfolio context, and a hold; the theorem `GovernedAuthorization` covers all of them.

For `in_process`: pool threads and the main thread run, specialists return or raise,
calls that were begun run, and time passes (weak fairness of each); nothing is assumed of
the repository, the providers or the probes.  Two parallel tasks and one that waits for
both make refusals, slips and a layer after them possible; one caller with two routes
reaches every end of a call; two clients make a late failure meet an open or half-open
breaker; two checks make one remove or replace what the other uses, for a component at
a time, since components have separate entries.  Deadlock is not checked because a
supervisor's run ends.

For `review_memory`: a review is asked for again until it succeeds, as the job queue
does, and a call does not always lose its process (strong fairness of its steps).

### Findings

The violations are findings.  An outcome is stored under the decision alone, so the
evaluation of a second horizon is answered with the first one's outcome and never
measured.  The dedupe key of a decision memory covers type, content and scope, which
every review with the same verdict shares, so the memory of a second such review is
refused on every retry after its review was stored.  The deterministic fallback raises
for a bundle without items, and for an opinion whose attributed line is dropped as action
language; the run then stays VALIDATING.

### Other disagreements

Seen while modelling, and described here only:

- A primary attempt is sealed without the digest of the chain the decision to call the
  model was based on (`knowledge_conclusion/synthesis.py:157`), so two requests that saw an
  empty chain seal two primaries; such a chain lies outside every version window
  (`run_service.py:186-199`) and the run can never conclude, although `synthesis.py:104`
  speaks of at most a primary and one repair.
- A run read back from its row lacks the readiness snapshot
  (`app/adapters/postgres/decision_repository.py:75`), so the second transaction of a formal
  decision erases the one the first had saved (`app/routers/decision.py:56`).
- The public status of a formal decision follows the proposed action
  (`app/routers/decision.py:164`), so a vetoed or rejected purchase is answered as APPROVED,
  though without an authorization (`app/decision_runtime.py:9` and `:11`).
- A refresh of an outcome is refused with "immutable outcome conflict"
  (`app/routers/decision.py:391`), because the provider has saved the unextended form under the
  same id; `docs/runbooks/replay-mismatch.md:22` expects an answer.
- A bundle frozen without a market, factor or content node fails FORMAL_LINEAGE_REQUIRED on
  every retry (`app/routers/decision.py:162`), and the readiness gate comes before the
  idempotency lookup (`:234`), so a finished decision cannot be read again while a dependency
  is down.
- A replay service that was fenced keeps its RUNNING copy and answers LEASE_BUSY for ever
  (`app/application/replay/run_service.py:72`); the recovery that `docs/adr/0002-artifact-first-replay.md:8-10` describes
  happens in another service only.
- Two workers of a host that evaluate two horizons of a decision can take the lease from each
  other in turn (`outcomes/lease_repository.py:97`).
- An evaluation of an older day counts as a further confirmation day
  (`engines/regime/regime_state_machine.py:16`, `:50`).
- After turnover control the total may exceed the regime's budget, because cancelled
  reductions stay (`engines/portfolio/pipeline.py:246-285`).
- A replayed policy evaluation is accepted under the version asked for, whatever policy it
  names itself (`engines/decision/replay.py:553-557`).
- The fallback calls a claim SUPPORTED on two positive against three negative rows
  (`deterministic_fallback.py:89-100`).
- Merged memories go to the collection "financial_memory" (`engines/memory/memory_merger.py:23`);
  `config/retrieval.yaml:6` names another.
- Expired units found by dense recall are returned for every intent, those that demand
  current validity included: the index is not asked for validity, and the expiry filter
  reads a date that hydration did not copy.  The docstring at
  `knowledge_access_policy.py:19` says they are excluded.  `CallerOnlyTightens` therefore
  says nothing of validity.
- A gate accepts an evaluation run of an earlier definition of the same strategy
  (`strategy_factory/service.py:117-121`); `ActiveIsProven` speaks of whose run it is, not of
  which definition.
- Memory tools answer under "items" (`app/tools/memory_tools.py:29`), while the contract looks for
  memories, contexts or results (`app/skill_contract.py:180-186`): a skill with
  `require_memory_lookup` cannot complete with the tools that are registered.  No registered
  tool returns what the third contract version needs of specialists and policy, and
  `record_bundle` (`skill_contract.py:146`) has no caller.
- A tool error over 64 kB is replaced by a summary without the error and counts as success
  (`app/tool_registry.py:128-132`).
- Two concurrent turns of a session can draw the same ordinals
  (`app/chat_history_service.py:107-118`), so their messages interleave.
- A readiness check tests and reads the cache without the lock
  (`app/application/readiness/service.py:85`) and raises if the entry goes in between; `claim(task_id)`
  reads its row back in a second transaction (`job_repository.py:187`).

## Theorems

`KnowledgeConclusionProofs` proves, for any sets of requests, bundles and
responses and any number of crashes, from the assumptions named
`ConclusionAssumption` and `NoneIsNoResult` (the constants have their types and
`None` is no request, bundle, response or result):

- `Invariance`: `Spec => []InductiveInvariant`.  The invariant adds to the types
  that the row is one the transitions can produce (`RunOK`: the version is the
  rank of the state plus the number of seals, a result exists exactly when the
  run succeeded, a bundle exactly from `BUNDLE_FROZEN` on) and what every request
  knows (`LocalOK`), above all that a row read earlier is either older than the
  row or equal to it (`Fresh`).  Without `Fresh` the compare-and-swap on the
  version says nothing about the other columns a save writes back.
- The argument: every write of the row moves it forward (`Advances`), which keeps
  `LocalOK` of all other requests (`LocalStable`); a step that only reads must
  account for its own new local state (`ReadStep`), a step that writes for the row
  too (`WriteStep`); then there is one case per action.
- From it: `TypeCorrect`, `OneConclusion`, `VersionsCount`; the action property
  `HistoryKept` (a committed run is final, frozen inputs stay, seals are only
  appended) through `StepEffects`, which says what one step may do to the row; and
  `Refinement`, that the detailed specification implements `DurableResult`.

`JobQueueProofs` proves, for any finite set of jobs and any workers, callers,
lease lengths, crashes and stalls, from `JobQueueAssumption`, `NoneIsNoToken` and
(for `OneLeaseHolder`) `OwnIdAssumption`:

- `Invariance`.  The invariant adds to the types that every row is one the
  statements produce (`RowOK`: the owner is the one who drew the token, a result
  exists exactly in `SUCCEEDED` and carries the row's version, the retry count
  reaches `max_retries + 1` exactly in `FAILED_FINAL`) and what a worker knows
  (`LocalOK`: its version is not above the row's, its token is its own, and the
  count `mark_failed` computed is current as long as the row is still `RUNNING` at
  its version).  The last part is needed because the count is read in one
  transaction and written in another.
- The argument: every statement moves a row within `RowMove` (a row becomes
  `RUNNING` only under a higher version), which keeps what the other workers know
  (`LocalStable`).
- From it: `TypeCorrect`, `KeyIsUnique`, `OneLeaseHolder`, `ResultIsCurrent`,
  `RetriesCounted`, and the action properties `TerminalStays` and `HolderMoves`.

`OutcomeEvaluationProofs` proves, for any processes, owner ids, windows, readings
and faults, from `OutcomeAssumption` and `NoneIsNoOutcome`: `Invariance`,
`TypeCorrect`, `TokenIsExclusive`, `TablesAgree`, `AnswersDurable`, the action
properties `ResultFinal` and `SavedOutcomesStay`, and `Refinement`.  The invariant adds
that a claimed token is at most the row's (so a new claim is above all of them),
that saved outcomes are unextended and lie under their window, and that an
evaluation about to complete holds the extension of what is saved.  The last part
is what makes two completions of one window agree.

`FormalDecisionProofs` proves, for any handlers, keys, bodies, bundles, calculations
and faults, from `FormalAssumption` and `NoneIsNoRow`: `Invariance`, `TypeCorrect`,
`FinalizationIsAtomic`, `RunsAreSettled`, `RightRequest`, `CalculatorIsAlone`,
`GovernedAuthorization`, the action property `RunsMoveForward`, and `AnswerIsDurable`,
that each key implements `DurableResult`.  The invariant adds what a handler knows at
each label (`Knows`): between the insert and the commit it owns the index entry and the
key has no row; between the lock and the commit it owns the row lock, the row is still
frozen and its own `DecisionRun` has the row's identity and the version of its stage.
A step of another handler keeps this because it takes no lock that is held
(`OthersHold`) and loses no row (`Kept`).

`TotalsProofs` has what the provers do not know of sums and folds over finite sets.
`MapThenSumSet` is defined by a `CHOOSE` of a recursive function; the module proves that such
a function exists and is unique (`FoldExists`, `SumsExist`, `SumsAgree`), by induction over the
size of the set (`NatSet`, from the least-element form of well-founded induction, which takes
no operator as a parameter, and `SetInduction`), and from it what is cited elsewhere: a total is
the amount of any one element and the total of the rest (`TotalOf`), totals grow with their
amounts (`TotalMonotone`), zeros do not count (`TotalOutside`), and a change of one amount
changes the total by the difference (`TotalChanged`).

`InProcessProofs` is about objects inside one process.

- `TasksAccounted` (any tasks, dependencies, limits and usages, `SupervisorAssumption`).
  `SupervisorInvariant` says what the main thread knows of a task from the state of its future
  (`TaskKnown`), and one equation per resource (`BudgetLine`): what the budget counts is what
  tasks in flight reserved plus what recorded artifacts used, less what was released twice.
  The equation is about sums over sets of tasks, and each step adds one task to them or takes
  one out.
- `SpendReported` (any routes, prices, callers and attempts, `GatewayAssumption`).  The
  invariant says of every call, at each label, what it spent before, what was billed since and
  what it will report (`CallSettled`).
- `ReadyHasEvidence` (`ReadinessAssumption`).  The invariant adds that a cached response was
  received after the instant it is stamped with (`CacheOK`) and that whatever a call holds of a
  component is evidence for the call's own instant (`CallOK`).  The first is needed because the
  stamp is the start of the call that stored the response: reading the clock later would make
  cached answers look younger.
- `ConclusionsAreGrounded` (any requests, bundles and proposals, `GroundingAssumption`).  The
  invariant keeps the request with the bundle it accepted.  A finding that passed the grounding
  can be traced (`GroundedIsTraced`) because an accepted bundle has one item per id; a verdict
  has a finding of its sign because a direction counts above zero only if some finding has it
  (`DirectionIsSum`).  Being known by the clock of the request is what contract v2 asks for;
  a v1 request is not held to it.
- `StoredReportsEarned` (any contracts, plans, tool answers, pool and clock, `ChatAssumption`).
  What the state of a run has seen, its calls show (`SeenIsShown`), so a report is earned when
  its contract is met; a message is the text of a turn that is over, in that turn's session
  (`MessagesAreOfTurns`), which the abandoned calls of other turns cannot change.

`LifecycleProofs` is about life cycles and durable records.

- `ActiveEarnedIt` (`PromotionAssumption`, `AbsentAssumption`).  `HasEarned` lists for each
  status the gates passed since the strategy was generated and the runs that must be there
  (`HasRun`); the runs are needed because a gate may be repeated, and they stay because a run id
  is never reused.
- `ReleasedWasValidated`, `ProvenPassedEveryGate` (`SkillEvolutionAssumption`).
  `ReleasesKnown` says that every contract on disk, in a workspace about to be released or
  under a version, was proven; the pointer only ever names such a version, across roll-backs
  and restarts that lose the proposals.
- `RegimeConfirmed` (`RegimeAssumption`).  Unless the process stopped, the history agrees with
  the state row at rest, and between the two writes of an advance it is one of three known
  intermediate forms (`Saving`, `Closing`, `Renewing`, `Adding`); a candidate's days are the
  last evaluations, all well founded (`Counts`).
- `CallerTightens` (`RetrievalAssumption`).  What passes the merged filters passes the rule of
  the intent (`MergeOnlyTightens`), because a stricter minimum allows no status that the policy
  does not (`StricterAllowsLess`), and a retrieval recalls and returns under the same filters.
- `ReplayResultIsOne`, `ReplayTypeCorrect` and the action property `FinishedStays`
  (`ReplayAssumption`, `NoRunIsNoRow`).  The invariant adds that a row has a result exactly when
  it succeeded (`Settled`), that a service's copy that says SUCCEEDED is the row's
  (`CopiesSettled`), and what a thread knows at each label (`ThreadKnows`).  It is kept because
  the row only moves within `RowMoves`: under a new token, or from RUNNING to its one result.
- `LineageIsUnique`, `MemoryIsFounded`.  The binding decides: each formal row and snapshot names
  the bundle its decision is bound to, and the binding is one to one (`BindingDecides`); a
  caller that is about to write memories knows a stored review of its own (`CallKnows`), which
  holds across other callers because reviews are never removed.
- `IndexFollows` (any contents, collections, mergers, merges and outcomes, `MemoryAssumption`).
  The property speaks of the moment when nothing is left to do; the invariant speaks of every
  moment: each live record has a pending task, or the worker is on its task and the rest of its
  steps brings points and mappings to the record's present content, or both agree with the
  record already (`Kept`).  A merge that falls between the steps of the worker adds a task, so
  the first case takes over.

`GovernanceProofs` is about the path from evidence to trades.

- `ApprovedFits`, `ApprovedGrounded`, `AnalysisGoverned` (`EvidenceAssumption`,
  `GovernanceAssumption`, `PolicyLimitsAssumption`).  What is collected and frozen is sound item
  by item (`EvidenceInvariant`), and a decision is the governance of its proposal over the frozen
  bundle (`Governed`).  The rest is about `PolicyEngine`, which has no state: each cap of the
  rules lowers the allowed weight, so that the last one leaves every limit kept.  The plan of a
  skill is flattened with `FlattenSeq`, again a recursive function, whose ranges are proved
  first (`FlattenExists`).
- `ReplaysKeepTheAnchor` (any snapshots, runners and envelopes).  What a mode fixes is among the
  segments that are compared and never the component the mode replaces (`FixedIsCompared`), and
  a reply that succeeded went through the checks of its mode (`SucceededIs`).
- `SessionsAreNotSkipped` (`CalendarAssumption`).  A loaded window has the sessions of its days
  as far as they are published; `AskNext` reloads around the day when the window does not reach,
  and the next session inside a published window is the next day the exchange trades.
- `PlanFits` (any names, weights, scores, groupings, caps and thresholds, `PipelineAssumption`).
  `PlanInvariant` says of the target after each stage what the stages so far allow.  It is kept
  because a later stage only lowers a target, and lower weights have lower totals in every group
  (`TotalMonotone`), or puts it back to the current weight, which is what the turnover limit
  does last.  That a fold of cuts ends within its cap, and a fold of cancellations within the
  turnover, is proved by induction over the fold (`FoldExists`, `LastExists`).
- `TradesHold` (any panel, bars, scores, costs, lot size and number of days,
  `BacktestAssumption`).  `AccountsInvariant` relates the lots of a symbol to the log of its
  trades: the lots that are not yet for sale are those bought today, and the lots that are for
  sale are what was bought before today less what was ever sold.  A sale takes no more than is
  for sale, lot by lot in the order of `pop_available` (`PoppedIs`), and touches no lot of
  today's.  The other half follows the day: names that reach the purchases trade today
  (`CandidatesTrade`), which needs that a sorted order of the candidates exists (`OrderExists`);
  each trade passed the price limit of its side on the same bar (`Fair`); and the lots that are
  bought cost, with their commission, at most the cash (`BuySharesPaid`), which later purchases
  of the day keep.

`ResultStands` of `KnowledgeConclusionProofs` and `ReclaimsCounted` of `JobQueueProofs` extend
the invariants above.  `SealInvariant` adds which row version each attempt was sealed from
(`SealsOK`), what each request knows of the chain it holds (`SealKnown`), and that a fallback
that is about to be committed has its inputs in the audit log (`AuditKnown`); a chain that
outgrew its version window can never be validated, which is why the two primaries described
under "Other disagreements" do not reach a result.  `Charged` says that each claim of a job is
paid for by a recorded failure, a fault or the present holder, and that a holder's row is
younger than the lease unless a fault was charged for it: a worker in time refreshes its
heartbeat before the lease can pass.

Several properties of the runs are conjunctions, proved as such from the theorems on their
parts: `FinalizationSettles` and `DecisionStands` (formal decisions), `JobIsOne` and
`LateIsHarmless` (jobs), `EffectIsOnce` (knowledge conclusions), `OutcomeIsOne` and
`OutcomeStays` (outcomes).

Every invariant and every action property that a run checks is thereby stated by a theorem.
TLC finds the inductive invariants true of the instances of the runs too, but for three it
cannot evaluate: `Governed`, `RegimeInvariant` and `IndexInvariant` name a witness from a set
that cannot be enumerated.  Only model-checked is liveness (`RequestsEnd`, `RunsEnd`, `BreakerRecovers`,
`EveryJobEnds`, `EventuallyConcluded`, `EventuallyDurable`): the prover has no rules for
fairness and `ENABLED`.

## Plan

1. The durable protocols and their proofs (done): knowledge conclusions, jobs, outcomes,
   formal decisions, replay runs, decision records.
2. In-process objects (done): supervisor, gateway, readiness.
3. Life cycles (done): memory and index, retrieval, regime, skills, strategies, chat.
4. The path from evidence to trades (done): evidence, governance, grounding, replay, plan,
   backtest, calendar.
5. Theorems (done): every safety and action property of the runs.
6. Possible extensions: more of the calculation and of the runtime around a formal decision
   (`decision_runtime.py`, `runtime_components.py`), with their theorems.

## Not modelled

Floating-point scoring (technical, opportunity, theme, risk, ranking), text handling
(prompts, rendering, skill files), record types without behaviour, the in-memory
repositories used by tests, deployment and scripts.  They keep no protocol state, and TLC
has no real numbers.  Of the analysis service only `_govern` is modelled; in this
repository it and `_run_supervised` are reached through `decision_runtime.py:419-423` and
its tests only.
