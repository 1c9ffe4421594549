# A verification project for the intelligent report generation system

This directory holds TLA+ models of the system under `src/`, the TLC
configurations that model-check them, and theorems about them with proofs that
TLAPS checks. Paths below are relative to `src/`.

- [1. The system](#1-the-system): its parts, their state and how they interact
- [2. What is modelled](#2-what-is-modelled): modules, and how they correspond to the code
- [3. Runs](#3-runs): what each one checks and shows, bounds, fairness
- [4. Disagreements found](#4-disagreements-found)
- [5. Proofs](#5-proofs)
- [6. Not modelled](#6-not-modelled)
- [7. Plan](#7-plan)

## 1. The system

A Go monorepo: an HTTP API (`cmd/api`), a worker process (`cmd/worker`, a
goroutine per kind of job, each on a ticker), a Python service that talks to
customers' databases (`connector_service`), a React client (`web`) and a
PostgreSQL schema (`migrations`) in which tables, triggers and row-level
security carry a good part of the logic. Two PostgreSQL databases are in play:
the control database and the warehouse; they may be one pool or two. Processes
do not send each other messages. They share tables, and nearly all concurrency
is of one kind: a job row that several workers lease, with an attempt budget and
a lease token that fences the writes of earlier holders.

| Component | State it keeps | Operations | Interacts with | What is hard | What makes it correct |
|---|---|---|---|---|---|
| **Dataset materialization** (`internal/materialization`, `materializationworker`, `warehouse`) | build runs with leases, node runs, snapshots, materialization rows; in the warehouse a table per run and the published view | register, cancel, claim, heartbeat, begin snapshot, start/finish node, build, activate, fail | dataset publication, cleanup, every reader of datasets | a worker paused past its lease, two databases without a common transaction, one run retried several times, several runs of one dataset | outcomes are final, the ACTIVE row is one finished build, stale workers are shut out of all but a statement under way, runs end |
| **Materialization cleanup** (`materialization/cleanup.go`, `invalidate.go`) | one job per dataset: expected count, attempt, lease | arm at deletion, claim, load targets, drop, complete, fail | dataset deletion and regeneration, builds | deletion, regeneration and rebuilding under the same identity while a cleanup is under way | drops only what was withdrawn; the last cleanup is complete |
| **Datasets** (`internal/dataset`: store, mapped datasets, DWD modelling) | datasets, versions, drafts, approvals | save, publish, disable, restore, delete, regenerate, model | materialization, semantic registry | optimistic versions, revived identities | an immutable published version is current |
| **Question runs** (`askdata/orchestrator`) | run rows with state, checkpoints, budget, lease; audit events; clarifications | submit, claim, heartbeat, step the loop, checkpoint, clarify, cancel, expire, retain | registry release, query runtime, understanding, tools | re-claimed runs, budget across attempts, event order | a run is executed under one attempt and ends once, an answer is backed by its evidence chain, budgets are not exceeded |
| **Semantic registry and releases** (`askdata/registry`, `registry/import`) | entries, candidate and active releases per domain, gates, approvals, projection events, import and export jobs | import, draft, certify, gate, approve, activate, roll back, retain | graph projection, question runs, evaluation | activation racing retention, approval and projection | one active release per domain, all gates passed, never retained away |
| **Graph projection and breaker** (`askdata/graph`, `askdata/projection`) | projection cursor per release, breaker | project, rebuild, query graph or fall back | registry, question runs | late successes and failures, stores shared by releases | the graph shows the release it claims; outage bounded |
| **Query runtime** (`askdata/queryruntime`) | result cache keyed by policy, release and snapshots | plan, execute, get, put, invalidate | materialization snapshots, policy | a put that crosses an invalidation | no result outlives its snapshot or its reader's rights |
| **Evaluation and feedback** (`askdata/evaluation`, `feedback`, `dimension`) | evaluation runs, shadow runs, error budgets, feedback cases, dimension profiles | run, score, gate, triage | registry gates | leased jobs, gates on stale scores | a gate reads the scores of the candidate it admits |
| **Understanding, compiling, validating, answering** (`askdata/understanding`, `compiler`, `validator`, `tools`, `answer`, …) | none to speak of | pure functions over large structures | the orchestrator loop | data volume | the compiled query means the intent |
| **Idempotent commands** (`platform/idempotency`) | record per key: request hash, state, response, expiry | begin, complete, release, clean up | every command handler | a first request that dies, or outlives its record | a key has one response, replayed for the same request only |
| **Reports** (`internal/report`) | drafts with revisions, undo stacks, publications, exports, schedules, deliveries, shares, follows | edit, undo, redo, publish, export, deliver, share, upgrade | idempotency, query runtime | revision conflicts, re-claimed deliveries, undo after merge | undo inverts, a delivery is made once per window, a publication is immutable |
| **Data sources** (`internal/datasource`) | sources, metadata jobs, connection tests, approval requests | test, sync, approve, publish | connector service | leased jobs with external calls | two persons approve; a stale job does not overwrite |
| **Decisions, data requests, work items, runtime configuration** (`internal/decision`, `datarequest`, `workitem`, `runtimeconfig`) | state machines with optimistic versions | transition, assign, apply | reports, datasets | concurrent transitions | only legal transitions |
| **Dataset AI, tags, metadata AI, asset embedding** (`internal/datasetai`, `datasettagsuggestion`, `metadataai`, `assetembedding`) | leased jobs, suggestions | enqueue, claim, complete, fail | language models | as above | as above |
| **Background task console** (`internal/backgroundtask`) | none of its own | list, cancel | all leased jobs | cancelling under a holder | a cancelled job is not completed |
| **Authentication, access, policy, users** (`internal/auth`, `access`, `policy`, `userlifecycle`) | users, roles, grants, sessions | authenticate, decide | all handlers | stale decisions | decisions follow the grants |
| **Federation, compilation, file queries** (`internal/federation`, `queryruntime`, `querycompiler`, `filequery`, `fieldtype`) | little | compile, execute | sources | I/O | type rules |

Five parts carry the protocols the rest depends on, and they are the ones
modelled. Dataset materialization, since every report and every answer reads what
it publishes, and it has the most intricate protocol of the repository (leases,
fencing tokens, checkpoints, two databases, deletion and revival). Releases, from
their projection to their retirement, since an answer is only as good as the
release it was asked of. The question run, which produces the answer. The
scheduled deliveries of reports, and the idempotency boundary all commands cross.
Of the 1777 files of the repository only two are Go tests, so nothing else
exercises their interleavings.

The hazards of this code, each at the line where it bites, are listed in
`PROJECT.json` with the properties that watch them.

## 2. What is modelled

| Module | Models | Variables |
|---|---|---|
| `DatasetPublication` | the abstract promise to readers: builds are submitted, each ends once, and the served build changes only when a pending one is published (or all is withdrawn) | `phase`, `served` |
| `MaterializationBuild` | control store, worker loop and warehouse executor for one dataset | below |
| `MaterializationCleanup` | deletion, regeneration and the cleanup job; EXTENDS `MaterializationBuild` and composes with all of it | `job`, `cleaner` |
| `MaterializationLocks` | the order in which the control transactions, atomic in the other two, take locks, for several datasets of a tenant | `tx`, `held` |
| `IdempotentCommands` | the idempotency boundary of the write endpoints, for one key | `record`, `request`, `reply`, `life` |
| `QuestionPromise` | the abstract promise of a question run: one outcome, a budget that grows within its limit and is fixed with the outcome | `outcome`, `spent` |
| `QuestionRun` | the state machine, lease, answer chain and budget of question runs, and the worker that drives one | below |
| `ReleaseProjection` | a release from DRAFT to READY: its projection rows and the two kinds of projector | below |
| `ReleaseLifecycle` | the READY releases of one domain: activation, rollout, references, retirement, and the questions routed and pinned to them | below |
| `ReportSchedules` | one schedule, its subscriptions and deliveries, and the delivery workers | below |
| `MC*` | model values and symmetry sets for TLC | |
| `MaterializationBuild_proofs` | type correctness, the inductive invariant, the invariants and action properties that follow, and the refinement | |
| `MaterializationCleanup_proofs` | EXTENDS the one before: the same for the composition with deletion and cleanup | |
| `MaterializationLocks_proofs`, `IdempotentCommands_proofs`, `QuestionRun_proofs`, `ReleaseProjection_proofs`, `ReleaseLifecycle_proofs`, `ReportSchedules_proofs` | the theorems about the module of that name | |

`ReleaseProjection` ends where `ReleaseLifecycle` begins, with READY; the two
share no state but that status, so they are checked apart.

### MaterializationBuild

| Variable | Code |
|---|---|
| `dataset` | `platform.datasets`, `dataset_versions`: current version, PUBLISHED versions, deletion |
| `run` | `platform.dataset_build_runs`: status, frozen version, mode and incremental base, `attempt` (which is also the lease token: `Claim` mints a random token exactly when it increments the attempt), whether the lease has expired |
| `node` | `platform.build_node_runs`: one logical node and the MATERIALIZE node |
| `snap` | `platform.materialization_snapshots`, unique per run: open, OK or FAIL, and the row it hangs off |
| `mat` | `platform.dataset_materializations`, named by the run that inserted the row; `run` is `build_run_id` |
| `table`, `view`, `retired` | the warehouse: which attempt's rows a run's table holds, the table the published view selects from, the views kept under retired names |
| `worker` | what `Worker.ProcessNext` holds in memory: the claimed run, its token, how far it has come, the nodes its claim returned as completed (`done`) and whether a node's UPDATE is under way (`seen`) |

Every action is one transaction of the code, or one step of a worker between
two, except that `StartNode` and `FinishNode` are two steps each. Their UPDATE asks
for the lease in an `EXISTS` and locks the node row alone: it sees the lease
(`SeeLease`), and it commits later, under the row's own status, whoever holds the run by
then (`CommitNode`, by its node and step `StartTransform`, `FinishTransform`,
`StartMaterialize` and `FinishMaterialize`). One that updates no row (`NodeRefused`) leaves
the run leased, like any error that is not an `ExecutionError`. `ClaimRun` and
`ClaimNothing` are the two ways through `Claim`, both of
which first close the runs that have used their last attempt; a reclaim keeps
finished logical nodes. `ResumeSnapshot`, `BeginRefresh`, `BeginBuild` and
`BeginConflicts` are the ways through `BeginSnapshot`. `Build` is the warehouse
transaction of `Executor.Build`; it carries no fence, so a worker whose run has
been leased again can still execute it, unless PostgreSQL refuses to drop a table
a view depends on (`Droppable`). `Activate` is the whole of `Activate`: its
checks, the switch of the published view (`switchPublishedViewTx`), the rows, the
snapshot and the run. `TornActivation`, only with two pools, is a process that
dies after the warehouse commit and before the control commit: during `Activate`
the run row, the dataset row and the publication lock are held, so nothing can
come between the two commits except a crash. `ActivationRejected` and
`RenameCollides` are its two refusals; the first is a domain error the worker
closes with `Fail`, the second is not, and leaves the run leased. `LoseLease`
is a refused heartbeat or fenced write; `Crash` also stands for the transport
errors after which `ProcessNext` simply returns.

`schema_hash` and the table layout are functions of the immutable version, a
snapshot hash is `outputSnapshotHash`, which contains the run id, and a heartbeat
that succeeds changes nothing the model keeps; these are the abstractions, and
each is stated in the header of the module.

### MaterializationCleanup

`Delete` is `PostgresStore.Delete` with `EnqueueDatasetMaterializationCleanupTx`
(both of its callers refuse while a build is queued or running, so the
cancellation inside Enqueue finds nothing to cancel); `Regenerate` revives a
mapped dataset under its old identity (`regenerateDeletedMappedDatasetTx`). A cleaner
claims, loads the targets in one transaction, drops them in a second, in the
warehouse, and retires the rows in a third. There is no heartbeat, so the lease
can run out under a working cleaner, and `failCleanup` compares the token but not
the expiry, as the model does. `armedAt` is auxiliary: the version at which
the job was armed last.

### MaterializationLocks

A transaction is the sequence of locks it takes. The tenant gate is the advisory
lock that the statement trigger of migration 000071 takes before every write of
`dataset_materializations`; `Activate` takes it first by hand. `Claim` first closes the
runs whose last lease has expired, with one statement that locks their rows one
by one in the order it meets them, so it is as many sequences as there are orders
of up to `MaxSwept` runs (`Sweeps`). Any session may
run any transaction on any dataset and run, also two of them on one run: a
superseded worker's transaction may be under way beside its successor's. Letting a run
meet every dataset adds interleavings the code cannot have and removes none.

### IdempotentCommands

One key, that is one combination of tenant, actor, endpoint and `Idempotency-Key`.
`record` is the row of `askdata.idempotency_records`; `request` is where
`Middleware` is with each request, `reply` what its client was told. `Begin`,
`Refuse` and `Replay` are the ways through the repository's `Begin`; `Execute` and
`ExecuteFails` are the handler, which is outside the module, by what the
middleware makes of its response; `Complete` and `Release` compare key, body and
state, and no owner. An error of the database may hide a commit
(`BeginFails`, `CompleteFails`), and a release that fails is ignored. A client's
retry is another request. `life` is history: whether a record's
TTL passed after its request had been served (`lapsed`) or before (`outlived`);
nothing in the code bounds the time a handler takes, so both are possible.

### QuestionRun

| Variable | Code |
|---|---|
| `row` | `askdata.question_runs`: state, version, consumed budget (its step count) and the answer chain, each link named by the attempt that produced it |
| `lease` | `askdata.question_run_leases`; a token is the attempt it was given for |
| `seen` | the run that a worker's claim under way has found in its snapshot |
| `worker` | what `RunWorker` holds in memory: the step of `drive` it is in, the run as it last read it, the budget charged so far, the links observed |
| `child` | what became of the user's answer to a clarification |
| `pinned` | whether the actor still has the roles the run was created under |
| `ledger`, `mishaps`, `delays` | history: the calls really made and by which attempts; how many crashes or failed calls, and how many leases living workers lost |

`drive` is a loop, and the model has one action per turn: `Stop`, `Hop`,
`OutOfScope`, `Enter`, `Finalize` are its branches, `Think`, `Propose`, `RunTool`,
`Accept`, `Clarify`, `GiveUp` the agent loop of one stage, `Compose` and `Record`
the answer with its verification attempts. Every stage ends in `Write` or one of
its refusals. `Write` is `Transition` or `CheckpointLoop` with everything `Apply`
checks: the version, the state graph (`Leads`), the budget and the chain
(`ChainHolds`). `claim_question_run` is one statement and two steps: it
finds its run by the lease its snapshot shows (`Look`), locks the row of the run, and upserts the
lease, whatever that is by now (`Claim`), unless the run has come to its outcome
(`Miss`). So a poller may take over a lease that was just given, and the attempt may pass the
three it was compared with: it ends at `LastAttempt`, which counts one claim under way for
each worker. A claim of a run that has left RECEIVED goes straight to `Close`
(`failClosed`), since the worker resumes nothing. A `Fault` is a database call
that reports an error, after its commit perhaps; `Crash` a process that dies.
Both are bounded by `Mishaps`, leases that a living worker loses, by their
expiry or to another claim, by `Delays`.
What the model answers, and therefore which proposal is made, is open at every
turn.

### ReleaseProjection

`release` is `releases.status` up to READY, `row` the row of
`release_projections` per target, `applied` (history) the batches of the release that were
projected to each target, `copy` those of them the target still shows for this release,
`worker` what each loop does with its claim, `retried` the bound on `Retry`. A target in `Shared`
keeps one vertex, edge or search document per object version and not one per release: the
projection of another release that contains the same versions overwrites
`release_hash`, and the batch is no longer of this release (`Overwritten`, at any time).
The runtime projector asks for its lease once and rewrites its target in
one transaction; the graph projector renews before the first and after every
batch (`Check`, `Write`). Two of the transactions run under READ COMMITTED in a way
that matters and are two actions each: completing counts the rows of the
release as they were committed (`Count`) and then commits (`Commit`), and a failure
that finds the release BLOCKED updates nothing (`FailSeesBlocked`) before it
commits (`FailCommits`). Between the two the row is `Locked`, and a claim, which
skips locked rows, passes it over.

### ReleaseLifecycle

`status` is `releases.status` from READY on, `active` is
`release_state.active_release_id`, `rollout` the latest rollout of the domain,
`samples` the releases its present stage has samples of, `referenced` the releases
with a reference, `pin` the release each conversation is pinned to, `question`
where each request and its run are. The operations of releases (`Activate`,
`Rollback`, `AddReference`, `ReleaseReference`, `Retire`, `StartRollout`,
`Advance`, `Steer`) lock what they decide on and are one action each. A question is a
chain of transactions: `Route` (`resolve_question_release`), `Keep`
(`resolveOpenRolloutConversationScope`), `Compare` (`resolveConversationRelease`),
`Confirm` or `Decline`, `Create` (`createRunTx` and its trigger), `Bind`
(`pinConversationAfterBindingTx`), `Finish`; releases may change between any two.
An answer to a clarification (`Answer`, `RouteAnswer`) goes through the same comparison,
but where a question would be told of the drift it confirms it itself: it is `carried` to
`Confirm` without a word of the owner, before anything looks at the answer. The child run that
should follow is refused (`question_child`) and ends the chain.
Gates, review reports and approvals may hold at any time, and so may the ends of
retention windows and of the shortest stage durations.

### ReportSchedules

`now` counts the occurrences that have passed, `schedule` is the row of
`report_schedules`, `subscribed` the ACTIVE subscriptions, `delivery` the row of
`report_deliveries` per subscription and occurrence, `job` the delivery each worker
has claimed. `Materialize` takes the clock its pass started with, which may be
older than the present; it inserts PENDING or MISSED rows and leaves alone what is there.
A lifecycle batch lists the open deliveries of a recipient who is to leave (`PreviewDelivery`)
and closes what it listed later (`CloseDelivery`): its UPDATE compares `updated_at` and no state,
so `listed` holds the deliveries whose `updated_at` is still the one the batch read.
A claim of a PENDING delivery and its finish write the clock of one pass, which may be the time
of the listing; the claim of any other row, and `MarkDeliveryRead`, take the delivery out.
`Finish` is `finishDelivery` with its count of failures and the automatic pause;
`Abandon` is a crash, a conflict or a failed transaction, each of which ends the pass.
A lease is measured from the clock of the pass, so it may run out under a
working one (`ComesDue`).

## 3. Runs

Passing runs:

| Run | Instance | Checks |
|---|---|---|
| `build_shared` | one pool; 2 runs, 2 workers, 2 attempts, 2 versions | `TypeOK`; run and snapshot agree (`OutcomeMatchesSnapshot`); the view shows the ACTIVE build (`ViewFollowsActive`); the protocol implements `DatasetPublication` |
| `build_split` | two pools, so activations can be torn; 2 runs, 2 workers, 2 attempts, 1 version; fair | outcomes are final, served rows never change under the reader, a superseded worker writes at most the one node row whose UPDATE had found its lease (`SupersededWorkerWritesOneNode`), and every registered run finishes |
| `build_three` | two pools; 3 runs of one attempt, 2 versions | one ACTIVE row, sound, with the previous build retired (`ActiveRowIsSound`); an incremental build is published only over the build it was computed from |
| `cleanup_shared` | one pool; 2 runs, 2 workers, 2 cleaners, 2 attempts of the cleanup, 2 versions | a cleanup drops only what no published version built, the cleanup of the last deletion leaves nothing readable, a superseded cleaner writes nothing in the control database, and the composition still implements `DatasetPublication` (now with `Withdraw`) |
| `idempotency` | 3 requests with one key, 2 bodies; fair | all who are answered from one record get the response of one execution of their own body (`AnswersAgree`); an answer stands until its TTL has passed (`AnswerStands`); unless a handler outlives the TTL one request at a time holds the key (`OneExecution`); a taken key is freed (`KeyIsFreed`) |
| `lock_order` | 3 sessions, 2 datasets, 3 runs, up to 2 exhausted ones in a claim | a circle of lock waits always contains a `BeginSnapshot` that inserts its row and asks for the gate, a `Claim` that has locked one run and waits for another, or two sessions at one run (`CircleNeedsDisorder`) |
| `question_runs` | 1 run, 2 workers whose claims overlap (up to 4 attempts), a limit of 8 calls, 1 mishap, 1 lease lost; fair | one attempt alone calls the model and the tools (`ExecutedOnce`); every link of an answer's chain was produced by the attempt that ran its query (`AnswerIsEarned`); an outcome reached by executing accounts for every call made (`OutcomeIsPaid`), and the calls themselves stay within the limit; the run implements `QuestionPromise`; it comes to an outcome (`RunSettles`) |
| `release_projection` | a runtime target and a graph target of 2 batches, 2 runtime loops and the graph loop, 2 attempts, 1 operator retry; the graph is shared with other releases; fair | a READY release has every row READY, has had every batch projected to its target, and still shows it in a target of its own (the registry); READY rows stay; a release becomes READY or waits for an operator, unless it stops in one of three named ways (`ProjectionSettles`) |
| `release_lifecycle` | 3 releases, 2 conversations (one actor in every canary, one in none), 2 questions, 1 reference | the domain serves its one ACTIVE release and compares candidates with that one; a referenced release stays usable; a pin moves only from a release no longer served to the served one, when its owner confirms or answers a clarification or when the old release is retired (`PinMovesByOwner`) |
| `report_schedules` | 1 subscription, 2 occurrences, 2 workers, 2 attempts, a column of 3, 2 failures to the pause; fair | a failed delivery counts once towards the automatic pause (`FailuresAreDeliveries`); an outcome is changed by nothing but the closing of a delivery listed before, and MISSED by nothing (`OutcomeStands`); every delivery gets one (`DeliverySettles`) |

Why these bounds are enough. The interesting cases need two of everything: a
late worker and its successor (two workers, two attempts), a full build and an
incremental one over it or two overlapping builds (two runs), an old version's
build finishing after a new version was published (two versions). Three runs are
needed only where a third build comes between a base and the build over it; that
run has one attempt, since retries are what `build_shared` and `build_split` are for. The liveness run
has one version: versions only change what `Resolve` and `Activate` refuse, and
`ResolveFails` covers a refusal in any case. It uses no symmetry (symmetry
reduction is not sound for liveness). Three requests suffice for a key: one that outlives
its record, the retry that takes the key over, and one that is replayed what the
first completed. One question run is enough, since nothing of one
run is read for another in what is modelled (`PromiseKept` is proved for any number);
the shortest way to an answer makes six calls before it is composed, so
eight leave room for both attempts at composing it, or for rounds that exhaust the
budget; the limit of three attempts is the code's, and two overlapping claims of the third with one
mishap and one lost lease reach a fourth. Two exhausted runs in one claim make it hold a
run while it waits for one. Two projection targets make two last
completions, three releases make a candidate, a control and one that was
replaced before, two questions of one conversation race for its pin. Since the
code admits no question to a candidate (`canary_refused`), no stage of a canary gets a
sample: in that instance as in the code, the stages after the first and an `Activate` that replaces
an active release are out of reach, and it is `Rollback` that exercises the replacement of
one release by another. The real column
of a delivery's attempt ends at 20 and the real limit is 5; 3 and 2 keep the gap
between them. `MaxReferences`, `Retries`, `Last`, `Mishaps`, `Delays`, `Runs`,
`Requests`, `MaxVersion`, `MaxSwept` and `MaxCleanupAttempts` bound the state space;
`MaxAttempts` is `max_attempts` of the code.

Deadlock checking is off for all runs but the lock run: once every run, request,
release or occurrence of the bounded set is finished, the system has nothing left
to do. It is on for the lock run, where some transaction can always be begun or
aborted.

Fairness. `Fairness` asks that some worker keeps claiming (`cmd/worker` polls on
a ticker), that each worker keeps executing its own code, and that a lease nobody
holds expires. It does not ask that a lease held by a live worker expires
(the heartbeat renews it), nor that builds succeed, nor that any
request arrives. Under it `EveryRunFinishes` holds because the attempt budget bounds
the retries and `Claim` closes the last one. `FairIdempotencySpec` asks only that
clocks advance and that the cleanup worker keeps coming (`runIdempotencyCleanupWorker` in
`cmd/worker`); it assumes nothing of requests, which may all have died.
`FairQuestionSpec` asks that each worker polls and executes its own code, and that
a lease nobody renews expires (`Unattended`); it does not ask that a clarification
is answered or expires. `RunSettles` excludes what the code does not promise: an
actor who has lost the roles, whose runs `failClosed` leaves alone, and a lease lost
under a living worker, expired or taken over: with a crash beside it the run is executed in its third attempt,
and if that one is refused its pin the run is released and left to nobody. `Fairness` of `ReleaseProjection` asks that each loop goes on
with its claim, that some loop claims each target again and again, and that leases expire;
operators may never come. `Fairness` of `ReportSchedules` asks that some worker
claims something as long as anything can be claimed, not that it claims any delivery in
particular, that workers go on and that retries and leases come due.

Other observations, met while checking and not stated as properties:

- a superseded worker may rebuild its run's table between its successor's
  `Build` and `Activate`; what is then published is the stale attempt's rows, a
  complete build of the same frozen plan;
- after a torn first build every later activation of the dataset is refused as
  inconsistent; after a torn refresh the retry cannot drop its table and
  fails, and a later activation that is torn too can collide on the retired name;
- with two pools a torn view survives a later cleanup of the dataset;
- a refresh that fails becomes the latest completed snapshot of a row that is still
  served from its previous build, and `GetLatestSnapshot` returns it;
- `Activate` asks that the run's version is still PUBLISHED, not that it is
  current: a slow FULL build of an old version that was resolved in time replaces the newer
  version's ACTIVE row;
- after an activation torn between its commits the published view shows a run
  that may then fail or be cancelled;
- a run cancelled or exhausted after `BeginSnapshot` leaves its BUILDING row,
  which refuses all later first builds of a version;
- a cleanup under way while the dataset is regenerated and rebuilt retires the
  fresh ACTIVE row, and a second deletion leaves a RUNNING job whose holder drops the
  first deletion's targets only; `LastCleanupIsComplete` states what is left
  of the promise. A cleaner that dies in its last attempt leaves the job RUNNING;
- of the circles that `CircleNeedsDisorder` allows, `BeginSnapshot` asks for the
  tenant gate while it holds what an `Activate` with the gate waits for, and a `Claim` holds
  a run for which a refresh waits that holds the publication lock an `Activate` on the next
  exhausted run waits for; PostgreSQL resolves either by aborting one;
- a superseded worker whose UPDATE of a node had found its lease sets the node RUNNING or
  SUCCEEDED under its successor, whose own UPDATE then updates no row and lets the run
  expire for another attempt;
- a question worker whose `drive` fails for another reason than its lease calls
  `failClosed` without asking whether it still holds the run
  (`orchestrator/runworker.go:174`), and may block a run under its new owner;
- a run whose three attempts are used is claimed by nobody: if the third worker dies before it closes the
  run, is refused the pin of the conversation (which releases the run and does not
  close it), or finds the actor's roles changed, the run stays open for
  ever, though the comment of `failClosedFrom` (`orchestrator/runworker.go:603`) says that
  it never silently stalls;
- a proposal of low confidence is turned into a clarification that
  `CheckpointLoop` refuses (`orchestrator/audit.go:1146`), so such a run ends BLOCKED;
- the last two projections of a release that complete together each count the
  other as unfinished (`migrations/000216_askdata_release_projection.up.sql:589`),
  and the release is never READY; it also
  stops when a projector dies in its row's last attempt, and when a retry
  overtakes a failure in its two statements. `ProjectionSettles` names the three;
- the projection of another release takes the vertices, edges and documents both contain out of a READY
  or ACTIVE release, whose queries ask for its own `release_hash` (`askdata/graph/model.go:84`,
  `askdata/graph/projector.go:528`), and its row stays READY; `docs/02_技术设计终稿.md:156` lets
  a release run only while its projections agree;
- two pollers that begin a claim at once both find a run that nobody holds, and the second
  takes over the lease the first has just been given (`migrations/000331_release_shadow_execution.up.sql:481`),
  though the comment in `migrations/000300_askdata_question_run_lease.up.sql:110` has a run claimed only
  if it never was, or if the lease of its last holder has expired;
- the answer to a clarification moves the pin of a conversation whose release has drifted, and nobody
  is asked (`askdata/http/question.go:1717`), though `docs/01_产品设计终稿.md:167` asks for a
  confirmation and forbids a silent change;
- a rollout that leaves RUNNING between `Create` and `Bind`, by its last stage too,
  refuses the candidate's runs their pin; an ACCEPTED rollout cannot be stopped, only completed or
  ended by a rollback;
- a RUNNING delivery whose lease has expired at attempt 20 is claimed once more,
  violates the check of its column, and as the first in order aborts every pass
  of its tenant; `DeliverySettles` excepts it;
- resuming a schedule, also one that is ACTIVE, counts from now on: occurrences that were
  due are passed over without a row, and the count of failures is not
  reset, so one more failure pauses it again;
- a MISSED row is never backfilled, since the insertion leaves existing rows
  alone (`report/schedule/postgres.go:146`);
- a delivery that was listed while PENDING, and was then made in the pass whose clock the listing
  saw, is READY and becomes SKIPPED when the batch closes it
  (`userlifecycle/lifecycle.go:173`).

## 4. Disagreements found

Each is a run that checks one property taken from a comment or document and that
TLC finds violated; the quotes are in `PROJECT.json`.

| Run | Property | What the trace shows |
|---|---|---|
| `canary_refused` | `RoutedQuestionIsAdmitted` | a question of a new conversation is routed to the READY candidate of a canary by its actor's bucket, and the next transaction refuses it because `conversation.go:88` admits only the ACTIVE release; the comment in `question.go:1834` says new conversations still use the bucket |
| `question_child` | `ClarificationAnswerable` | the child run that carries the answer to a clarification starts with an empty budget, as `createRunTx` demands, and the trigger on `question_runs` refuses it, since it demands the counters its parent has consumed |

## 5. Proofs

The first nine theorems are about `Spec` of `MaterializationBuild` for every value of its
constants under `BuildAssumption` (`NoRun` is no run; `MaxAttempts` and `MaxVersion` are
positive; `SharedPool` is a Boolean): any number of runs, workers, attempts and
versions, one pool or two, torn activations included.

| Theorem | States |
|---|---|
| `TypeCorrect` | `[]TypeOK`; in particular no run is attempted more than `max_attempts` times |
| `OutcomesMatch` | `[]OutcomeMatchesSnapshot` |
| `ActiveRowSound` | `[]ActiveRowIsSound` |
| `SupersededWritesOneNode` | `SupersededWorkerWritesOneNode` |
| `OutcomesFinal` | `OutcomeIsFinal` |
| `ServedFrozen` | `ServedDataFrozen` |
| `IncrementalSound` | `IncrementalOverItsBase` |
| `ViewFollows` | `SharedPool => []ViewFollowsActive` |
| `PublicationImplemented` | `Spec => ImplementsPublication`, the refinement |
| `CleanupTypeCorrect` | `[]CleanupTypeOK` of `MaterializationCleanup`; in particular no arming is attempted more than `max_attempts` times |
| `DropsWithdrawn` | `DropsOnlyWithdrawn` |
| `CleanerSuperseded` | `SupersededCleanerWritesNothing` |
| `LastCleanupCompletes` | `SharedPool => []LastCleanupIsComplete` |
| `WithdrawalImplemented` | `CleanupSpec => WithdrawableImplementsPublication`, the refinement |
| `OnlyDisorderCloses` | `[]CircleNeedsDisorder` of `MaterializationLocks` |
| `AnswersAlwaysAgree` | `[]AnswersAgree` of `IdempotentCommands` |
| `AnswersStand` | `[]AnswerStands` |
| `ExecutionsAlone` | `[]OneExecution` |
| `IdempotencyTypeCorrect` | `[]IdempotencyTypeOK` |
| `QuestionTypeCorrect` | `[]QuestionTypeOK` of `QuestionRun`; in particular at most two attempts more than there are workers, and no recorded budget above the limit |
| `OneAttemptExecutes` | `[]ExecutedOnce` |
| `AnswerEarned` | `[]AnswerIsEarned` |
| `OutcomePaid` | `[]OutcomeIsPaid` |
| `CallsLimited` | `[]CallsWithinLimit` |
| `PromiseKept` | `QuestionSpec => KeepsPromise`, the refinement of `QuestionPromise` |
| `ProjectionTypeCorrect` | `[]ProjectionTypeOK` of `ReleaseProjection` |
| `ReadyReleaseProjected` | `[]ReadyReleaseIsProjected` |
| `FinishedWorkKept` | `FinishedWorkIsKept` |
| `LifecycleTypeCorrect` | `[]LifecycleTypeOK` of `ReleaseLifecycle` |
| `ServedReleaseCompared` | `[]ServedReleaseIsCompared` |
| `ReferencedReleaseKept` | `[]ReferencedReleaseIsKept` |
| `PinMovesOnlyByOwner` | `PinMovesByOwner` |
| `ScheduleTypeCorrect` | `[]ScheduleTypeOK` of `ReportSchedules` |
| `FailuresCountDeliveries` | `[]FailuresAreDeliveries` |
| `OutcomesStand` | `OutcomeStands` |

The next five are about `CleanupSpec`, the composition of all that with deletion, regeneration
and cleaners, under `CleanupAssumption` as well: at least one cleanup attempt, and finitely
many runs, since the job counts them. `LastCleanupCompletes` asks for one pool for
both stores (`NewPostgresStore`). With two (`NewPostgresStoreWithWarehouse`, which the API and
the worker use) it is false: a torn activation leaves a view over a run that no row makes a target.

The theorems from `OnlyDisorderCloses` on are each about the specification of their
module, for every value of its constants under its one assumption (`LockAssumption`, `QuestionAssumption`,
`ProjectionAssumption`, `LifecycleAssumption`, `ScheduleAssumption`): any number of requests,
runs, workers, targets, releases, conversations, subscriptions and
occurrences, any bound on mishaps, retries and references. The limit of three attempts of a
question run is the code's; its workers are finitely many, since each may add one
attempt.

The argument. The inductive invariant is

    IInv       == ControlInv /\ EveryActiveShown
    ControlInv == Typed /\ OutcomeMatchesSnapshot /\ SnapshotNamesItsRow /\ RowsAreSingle

`Typed` adds to `TypeOK` that a worker that is not idle holds a run; `RowsAreSingle` and
`EveryActiveShown` are the halves of `ActiveRowIsSound`. The
properties alone are not inductive: `Activate` promotes the row its open snapshot
names, and `BeginBuild` inserts a row under the run's own name. `SnapshotNamesItsRow`
says that the first has the run's version and exists, and that the second is not
there yet. `EveryActiveShown` in turn carries the fact that no `DROP TABLE` can
take a served table away: the table of an ACTIVE row's run is held by the published view
or by a retired one, and `SwitchPublishedView` keeps the old view under its
retired name, so that also a torn activation keeps it held.

`MaterializationBuild_proofs` proves the invariant action by action (`InitInv`,
`StepInv`, `InductiveInvariant`), grouping those that write the same things: a step
that changes runs only has to satisfy `RunsAdvance`, a quiet one changes nothing
the invariant mentions. A node row is written by `CommitNode` alone, by whatever attempt
had seen its lease (`ItsNode`), which is all that `SupersededWritesOneNode` concedes. It then classifies steps once
(`StepKinds`), computes the effect of the six kinds that publish or end
something, and derives the action properties. `ServedStep` is the heart of the
refinement: a step leaves the served build alone, or it ends exactly one RUNNING
run with success and serves that run.

A cleanup breaks `EveryActiveShown` while it drops the tables of a dataset whose rows are
still ACTIVE, and keeps all of `ControlInv`: that is why the two are apart. `CleanupInv` in
`MaterializationCleanup_proofs` adds to `ControlInv` three groups of facts. What the build side owes a
cleanup (`BuildKept`): a snapshot hangs off a row exactly when its run is a target
(`SnapshotsHang`), and only published versions are built, none of a deleted dataset
(`VersionsKept`). How tokens and attempts are counted (`JobCounted`, `TokensBehind`): arming
the job resets its attempts but never its token. And what a cleaner knows: the deletion
recorded how many targets there were, withdrawn versions gain none, and a load that finds another
number fails, so the loaded targets are those of withdrawn versions (`ExpectedCounted`,
`TargetsWithdrawn`), the argument for `DropsWithdrawn`. `LastCleanupCompletes` needs in addition
that every view selects from the table of a target (`ViewsLive`), and that the
cleaner of the latest arming has all targets before it drops and nothing to read after
(`LastCleanup`).

`LockInv` says of every session which prefix of its transaction's lock list it holds
(`Position`). The lists are not in one order: a refresh takes the publication lock before its run
and `Activate` after it, and a failure takes its run before the gate. But unless two sessions are at
one run, whoever holds an ACTIVE row waits for nothing or, an inserting `BeginSnapshot`, for the gate;
whoever holds a publication lock waits for one of those, for a cancellation or for a `Claim`;
and so on to the runs and the gate. A `Claim` that holds no run yet is nobody's obstacle, and one
that holds a run and waits for another is out of order, like a `BeginSnapshot` at the gate.

`IdempotentCommands_proofs` has an invariant of its own, `IIdem`. What the three properties
lack is tied to the record: an answer names a record that was inserted, and while
that record exists it is completed with this very answer (`AnswerIsRecorded`); the
response a record holds was computed for its body (`RecordIsKnown`); a request whose
record merely lapsed is no longer served (`LapsedIsDone`), which is why a key taken over
after an orderly expiry has no second holder.

The invariant of `ReleaseProjection` is `ProjectionInv`. That a READY release is
projected rests on what each worker knows (`WorkersOK`): a claim has written the
batches it says it has, even when its lease was lost, and what has been projected once
stays `applied`; in a target that is not shared it also stays in the `copy`
(`CopiesOK`). A transaction that has counted all others as READY may rely on it
until it commits, because a READY row is never changed and its own row is locked.
`FinishedWorkKept` is half of that argument and follows from the same invariant.

`LifecycleInv` adds to the two invariants it proves what questions know: one that
moves without its owner's word (`RebindIsOfRetired`) has seen its conversation's
old release RETIRED, and a retired release stays so. `PinMovesOnlyByOwner` needs
nothing else, as `Bind` writes a pin only where there is none, and `Confirm` is for
a drifted question, an answer, or one of these.

`ScheduleInv` adds that the holder of a token remembers the attempt of its row
(`HolderKnowsAttempt`). A failure is counted exactly when a row enters the set `Lost` of
deliveries that used up their attempts, and no row leaves it. `OutcomesStand` needs also that
what is listed was open once and has been missed by nobody (`ListedWereOpen`).

`QuestionInv` is `Typed /\ Looks /\ Exec /\ Books /\ Earned`. `Looks` bounds the attempts: a run's
attempt and the claims under way that have found it (`Lookers`) are together at most `LastAttempt`, since a
claim begins only below the limit of three, when at most all workers have one under way, and
each that ends takes itself out. `Typed` carries, for every step of the
worker, which of its fields mean anything there (`Sound`), and that a run some worker has
seen past RECEIVED is past it (`Departed`). `Exec` says why one attempt alone
executes: tokens differ (`OneToken`); once a run has left RECEIVED every later attempt
only closes it (`LastDriven`), and both whoever makes calls now (`ExecutorIsLast`) and whoever
has made calls or produced a link of the chain (`ActorsAreLast`, over `Actors`) are such
that no later attempt drives the run. The
attempt before it may still believe it holds the run, which is why the heartbeat at the head of
every stage (`Alive`) matters.

`Books` is the accounting. A run's (`Balance`): what is recorded is at most what was called, that
at most the limit; nobody called means nothing was called; and an outcome of an execution has
recorded it all. A worker's (`Fits`): while it calls, what it has counted and still owes is all
that was spent; at the head of a stage, what the run has recorded is all; and when it is about to
write with the run's current version, what it will write is all, `BLOCKED` excepted, which may
record less (`failClosed` writes the budget the run had recorded). The last two are claimed as long as nobody else has called. That
suffices, because the heartbeat of a later stage makes `ExecutorIsLast` applicable, and a
write whose version is behind is refused. A new claim drives only a run nobody
has called for, so a budget read from the row starts at what was really spent. `Earned` adds that
whoever holds, or can still win, the link of the query's result has made the query (`Queried`),
and that an `ANSWERED` run has every link; by `ActorsAreLast` they are all of one attempt.

The refinement of `QuestionPromise` is short: an accepted write is a
`Progress`, since `Leads` is empty from an outcome and the budget lies
between what was recorded and the limit, and `ClarificationExpires` is a `Lapse`; all else
leaves the promise's variables alone.

Only model-checked: the liveness properties `EveryRunFinishes`, `KeyIsFreed`, `RunSettles`,
`ProjectionSettles` and `DeliverySettles` (liveness under fairness and `ENABLED` are
out of the prover's reach). Every other property of a passing run is stated by a theorem
of the table. What a recursive definition
computes could not be proved either (the induction theorems of the library need
operator parameters the installed back ends do not instantiate); no module here
declares a RECURSIVE operator.

## 6. Not modelled

Within materialization: quality gates (the worker always reports them passed, so
the gate's branches cannot be reached through it), the statuses DISABLED and
restored datasets, the resolution of upstream datasets and the rehydration of ODS
inputs (`ResolveFails` stands for their errors), the derivation of plans,
staging tables inside the warehouse transaction, backoff times, a change of layer
on regeneration, and listing queries.

Within question runs: SHADOW runs, the tables of events and artifacts, quotas across
runs, and everything the model and the tools answer. Within releases: authoring,
validation, import and export, and the approvals of a release (migrations 000324, 000325 and
000329), which the model lets hold at any time. Within
projection: the circuit breaker, the fallback queries and the rebuild command.
Within schedules: the calendar (an occurrence is a number), the access
check of a recipient, and the schedule state DISABLED, which nothing sets.

All other components of section 1; section 7 says which are planned. The pure
functions of understanding, compiling and validating work on large structures,
and their correctness is a question about data; I/O wiring, the connector service
and the web client keep no protocol state of their own.

## 7. Plan

Done: materialization build, cleanup and locks; idempotent commands; question runs;
release projection and lifecycle; report schedules; and the safety proofs of section 5.
What is left, in order:

1. `CircuitBreaker` (`askdata/graph/circuit.go`) and `ResultCache`
   (`askdata/queryruntime/cache.go`): small, interleaved by callers.
2. `ReportExport` (`report/publication/export.go`) and the pattern that metadata jobs,
   connection tests, imports and AI jobs share with it: a leased job with each one's own claim
   predicate and closing rule, to see which can run for ever or end twice.
3. `ReportUndo` (`report/store/undo.go`, `report/operation`): undo and redo as
   functions over the revision chain, against a reference stack.
4. The approvals of a release and SHADOW runs, as additions to `ReleaseLifecycle`.
