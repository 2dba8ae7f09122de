# Models and proofs for the LP engineering agent team

The repository is a TypeScript monorepo: a Web workbench in which a user and a
team of model-driven agents build landing pages, and a worker that runs the
commands the agents ask for. These modules model the parts whose correctness
depends on the order in which independent calls, processes and timers act: the
**worker queue** with its three stores, the **records of a run**, the
**workbench repositories**, the **agent runs** of a task, the **services** of a
project, **streaming** from provider to route, and a **browser tab**.

## Inventory

| Part | Source (under `src/`) | State | Operations | Hard part |
|---|---|---|---|---|
| Worker runtime | `packages/worker-runtime/src/index.ts` | job and payload repositories, `nextJobNumber`, enqueue, run and job locks | `enqueueSafe`, `cancelJob`, `recoverStaleJobs`, `claimOldestQueuedForWorker`, `heartbeatClaimedJob`, `runClaimedJob`; `enqueue`, `runNext` | a job read before an `await` and used after it; best-effort deletions; crashes between two saves |
| Worker stores in memory and JSON | `worker-job-repositories.ts`, `worker-job-payload-repositories.ts` | records, payloads | save, claim, complete, heartbeat, recover, mark, cancel | the lock is inside one process, the file is shared |
| Worker store on PostgreSQL | `packages/db/src/prisma-worker-repositories.ts` | rows | the same | full-row writes from earlier reads |
| Agent worker | `apps/agent-worker/src` | one loop, a heartbeat timer | recover, claim, beat, run, finalize | slow is not dead; an exception ends the process |
| Skill commands of the Web | `packages/api/src/index.ts` (`enqueueProjectSkillCommand`), `skill-command-worker-queue.ts` | run, tool observation, run events | enqueue and compensate, local run, finalize | four separate saves; overlapping finalizers |
| Interrupts and recovery | `task-interrupts.ts`, `run-lifecycle.ts`, `run-recovery.ts` | none; they derive views and act | `interruptTask`, `deriveRunLifecycleView`, `executeRunRecoveryAction` | a view that is stale when it is acted on |
| Agent runs | `run-orchestrator.ts`, `agent-handoffs.ts`, `packages/api/src/index.ts`, `workbench-store.ts` | runs, events, handoffs, briefs, pages, reviews, deployments, snapshot | one run; a chain of four roles; a retry | failure half way through a chain, two chains on one task |
| Project services | `packages/api/src/index.ts` | skill versions, bindings, connectors, approvals, tool runs, providers, routes | draft, validate, publish, bind, upsert, approve, execute | look for a record, `await`, save; conditions revoked while a tool call checks the next one |
| Workbench repositories | `packages/db/src` | about thirty tables | save, find, list, deletions, in memory, one JSON file or PostgreSQL | whole-file writes; deletions without a transaction; three hand-written copies of one contract |
| Model gateway and runtime adapter | `packages/model-gateway/src`, `packages/runtime-adapters/src` | timers, buffers, attempts | routing, request, frames of two protocols, retry, fallback, repair | a timeout against a late chunk; retry of a stream that has delivered |
| Streaming chat | `apps/web/src/app/api/chat/stream/route.ts`, `workbench-store.ts`, `packages/api/src/index.ts` | messages, tasks, runs, the stream | start, complete, abandon; store the run | a client that leaves; other chats; deletions |
| Web user interface | `apps/web/src/app` | the composer, live events, the panel, cookie | submit, read the stream, poll, refresh, follow links | lost answers, fallbacks between three routes, late events |
| Schemas, artifacts, rendering, skills, deployment files | `packages/lp-schema`, `artifacts`, `skills`, `git-deployment` | none | parsing, rendering, command building | data, hardly any control |

How they interact. A prompt goes from the *browser tab* to one of three ways into
the Web: the streaming route, the submit route or the server action of the form.
A chat streams one answer from a *provider* through gateway, adapter, generator
and route, and is saved into messages. A prompt for a landing page starts a
*chain*: planner, builder, reviewer and deployer runs that leave handoffs for each
other, while the tab polls the live state of the task. A failed run may be
*retried*. Agents ask for tools through the *services*, which check bindings and
approvals, or for a command, which the Web *enqueues* as a job: payload first,
then record. Daemons, processes of their own over the same stores, poll: they
*recover* what is stale, *claim* the oldest queued job, *beat* while they execute
it and *complete* it under the claim token. The Web may run a job itself right
after it was enqueued, may *cancel* it, and restarts at any time. Whoever settles
a job *finalizes* the run it belongs to; the user can *interrupt* the task or
*resume* a finalization that did not happen. All of this is kept in the
*workbench repositories*. `PROJECT.json` lists what can go wrong in each of these,
line by line.

What makes each part correct, in a sentence:

- *Queue*: a waiting job keeps its payload, runs a bounded number of times, one
  worker at a time, its end and its cancellation are final, and it settles.
- *Run records*: they report no end that the job did not have, and an unfinished
  one can be finished.
- *Repositories*: a deletion that returned has deleted everything that hangs on
  the target; the three stores answer alike.
- *Agent runs*: a handoff is consumed once, a page is not built twice from one
  brief by retries, a page with a blocker is not deployed, every call returns.
- *Services*: keys are unique, what is bound was reviewed, tools run only as
  permitted, a closed tool run has its evidence.
- *Streaming*: an answer that was reported stays, one that was abandoned leaves
  nothing, the consumer got the whole answer, everything ends.
- *Tab*: a prompt is kept once and lands where the page shows it; nothing hangs.

## Modules

| Module | What it is |
|---|---|
| `WorkerJob` | the record of a job, and the pure functions on it that all stores share (`createClaimedCompletionRecord`, `recoverStaleRecord`, ...). A record keeps its state, input, claim token, stale count, request to cancel, and whether its start and its last heartbeat are recent or past the stale deadline; time is nothing more than that. |
| `WorkerQueue` | the queue: one enqueue at a time (the enqueue lock), any number of `cancelJob` calls, daemons and local runs. One action per repository call. |
| `JobLifecycle` | the abstract specification: what a client of the queue may rely on for every job. |
| `JsonWorkerQueue` | the queue on JSON files: every call reads a file and later writes all of it back, under a lock that only the process knows. `CallsAtomic`: until a call of one process is torn by another (`torn`), each step is a step of `WorkerQueue`. |
| `PrismaWorkerQueue` | the queue on PostgreSQL: a call is a read and a conditional `updateMany`, with what the condition tests and what the update writes. |
| `SkillCommandRun` | one skill command: the enqueue with its compensation, finalizers, recovery action and interrupts over run, observation and events. The job is what `JobLifecycle` promises of it. |
| `WorkbenchRepositories` | the stores in memory, in a JSON file and in PostgreSQL: callers that save rows, `deleteTask` and `deleteProject`, the write queue of the file and the statements of PostgreSQL. |
| `RepositoryTables` | what the three stores answer, side by side: identity, lookup and order of every table. |
| `AgentRuns` | the runs of one task: chains for prompts and retries, with handoffs, products and snapshot. |
| `ProjectServices` | the services of one project, at the grain of their awaits. |
| `ModelStream` | one run of the runtime adapter through the gateway: attempts, request, timers, frames, consumer, fallback and repair. |
| `ChatStream` | chats that stream: route, store, generator, clients and deletions of tasks. |
| `LiveTask` | one browser tab against the server: composer, streams, panel, renders. |
| `*Proofs` | the theorems on the module of that name; `WorkerQueueProofs` also has those on the other stores of the queue, `WorkbenchRepositoriesProofs` that on `RepositoryTables`. |
| `MC*` | instances for TLC; the bounds on a behaviour are in them where they are not constants of the module. |

`JsonWorkerQueue` and `PrismaWorkerQueue` extend `WorkerQueue` and take its steps
apart; `WorkerQueue` and, without cancellations, `PrismaWorkerQueue` refine
`JobLifecycle` under the mapping at the end of `WorkerQueue`. `SkillCommandRun`
composes with the queue through the promise of `JobLifecycle`. `AgentRuns`
and `ChatStream` are the detail of the steps that `LiveTask` takes as a chain and
as a chat; `ModelStream` is the detail of a model call in either. Composing these
by refinement is not done: they meet in the records they save.

### From code to state

**`WorkerQueue`.** `web` is the call inside `enqueueSafe`; `pc[w]` walks
through `runWorkerDaemon` (`recover`, `sweep`, `claim`), `runWorkerOnce`
(`beat`) and `runClaimedJob` (`verify`, `load`, `execute`, `complete`, `drop`);
`threw` is an exception at the top of the daemon, `down` a crash; `cpc[c]` walks
through `cancelJob`. `hold`, `token` and `outcome` are what the worker keeps in
its variables. `claims` and the counters are for the properties and the bounds.
A heartbeat of the timer (`LoopBeat`; in PostgreSQL also `CommitBeat`, between the
two statements of `completeClaimed`) may come at any time while the worker
holds a job. A repository call is atomic in `WorkerQueue` because that is what
`worker-repository-contract.ts` and the memory store give; the other two stores
are the modules that take this apart.

`PassDeadline` lets the deadline of a running record pass. In the JSON module it
also ages the copies that callers have read, because the age of a record is
computed from its time stamps when it is looked at, not when it was read.

**`SkillCommandRun`** leaves out what no save depends on: event payloads, texts,
permission checks before the first save, handoffs to a deployer that is blocked.
The copies of run and observation that a caller holds need no variables, because
each save overwrites state, result and completion time and nothing else ever
changes. A failed save ends its caller the way a crash does (`EnqueueStops`,
`FinalizerStops`, `InterruptStops`), except where the code compensates. That a
save on PostgreSQL may commit and still report a failure is left out.

**`WorkbenchRepositories`.** `queue[p]` is the chain of updates of the file in
process `p`, `read[p]` the copy of the file that the update at its head works on;
`steps[d]` are the `deleteMany` statements that a deletion still has to execute. A
row carries what deletion and foreign keys look at and nothing else; a second save
of a row changes nothing here, and `RepositoryTables` has what it does to records,
keys and order. What the schema and the services make of rows (one row per id, a row is
of the project of its task and its run, rows above are saved first) is the
assumption `RowsAssumption`.

**`RepositoryTables`** treats one table at a time. A record is its id, its natural
key and two times. `memory`, `file` and `postgres` execute the same save; what
differs is the identity each store uses (id or natural key, and whether a save
keeps the place of the old record) and the order of each listing.

**`AgentRuns`** has one action per save and per read whose answer is used after an
`await`. A caller walks through `runAgentStep` for each role (reserve, run record,
handoff consumed, events, result, handoff saved) and through what
`generatePageVersion` and its siblings save around it. `idLock` and `retryLock` are
the promise chains of a process. A fault is a save that rejects, in which case the
code's `catch` runs, or a stop of the process. The ids of handoffs are those of
the run that saved them.

**`ProjectServices`.** A table is a set of records of key, value and creating
call; `pc[c]` is the next `await` of a call. The id lock covers from the first read
to the save in the calls that choose an id, and nothing in `validateSkillVersion`
and `publishSkillVersion`. `held[c]` is a history: all that was true at some
moment of the call, against which `ToolAllowed` measures the tool. Writes of the
end of a tool run come in the order of the code; a failing one ends the call.

**`ModelStream`** has no clock: an armed timer may fire at any moment, and the
provider may send or keep silent. The generator is a sequential program that stops
at the request, at each read and at each delta that the consumer holds. Of a frame
the model keeps whether it parses, whether its text is blank and the token counts.
The events of a run are a count for each type and the type of the last one (`last`):
the code filters events by type and puts one before the end, and nothing else depends
on their order.
`told` is what the consumer has taken, `text` what the attempt has accumulated.

**`ChatStream`.** The route, the generator and the client of a chat move on their
own. `told[c]` is what the client was last told, `retired` the ids that a
deletion or an abandonment freed. Messages saved together have equal times and
are listed by id *as strings*.

**`LiveTask`** has one project and no deletions; the stop button, the content of
messages and the selected preview element are left out, a page version is only
`fresh` or not, the delay of a poll is that it is due, and the record of a run and
the start of the next one are one step. `recent` and `Age` are the grace of two
minutes of `hasRecentLiveTaskActivity`. Requests are handled and answered when it
pleases the network; events of a stream are read one by one.

## Runs

| Run | Instance | Distinct states | What it shows |
|---|---|---|---|
| `queue` | 1 job with an allowed or a forbidden input, 2 daemons and a local run of the Web, 1 cancellation; one daemon and the Web may each stop once | 0.7 M | payloads and job numbers survive stops between any two steps; a job has one holder and a bounded number of runs; a local run and conflicts spare a daemon; every queued job settles; the queue implements `JobLifecycle` |
| `json` | a daemon and the Web on one file, 1 job, 1 cancellation, 1 stop of each, 2 claims | 5.1 M | until a call is torn by the other process the file store takes the steps of `WorkerQueue`; even afterwards one worker acts under a claim |
| `prisma` | 2 daemons, 1 job, 1 cancellation, 1 daemon and 1 Web stop | 1.9 M | settled rows stay and payloads live, whatever snapshots are written back; only the latest claim of a job that nobody cancels completes it; without cancellations the split calls take the steps of `JobLifecycle` |
| `run_records` | 2 finalizers, 2 interrupts, both kinds of repositories | 6.4 M | the records of a run say what became of its job; a finalization that the view offers (the job has settled, no terminal run event is stored) is accepted, whatever a stopped one has left; no second terminal event of a kind on PostgreSQL |
| `repositories` | a project with a row in every table and another project, 2 savers, `deleteTask` and `deleteProject`, each store | 90 k | a deletion that returned is complete; one that stopped can be repeated; the file changes by whole calls |
| `agent_runs` | two chains with one fault, or one chain and two retries with two faults | 455 k | handoffs are consumed once; retries that succeed do not build a brief twice; no page with a blocker is deployed; every call returns |
| `tables` | every table, 3 keys, 6 saves | 22 k | the stores hold the same records, find the same one for a key and list them alike |
| `services` | 2 concurrent calls, 4 in all (3 about tools), 1 failing save, from five starting states | 0.2 M | unique keys, reviewed bindings, permitted tools, evidence before the end |
| `chat` | 2 chats and an earlier one, 1 failing save or 1 deleted task | 175 k | what a client was told stays, what was abandoned is gone, answers have their run, every chat ends |
| `model_stream` | 2 attempts, 2 frames in a chunk, 3 deltas, every role, mode, protocol and fallback | 0.9 M | timers and events agree with the attempts; the consumer has the whole answer; every run ends |
| `live_task` | 1 tab, 2 prompts, 1 upset | 0.4 M | a prompt is kept once, the page ends on its task, nothing hangs |
| `chat_lost_answer` | 1 chat after eight messages | 106 | **violated**: the answer is thrown away |

`NothingForgotten`, `CallsAtomic`, `SettledRowsStay`, `LatestClaimCompletes`,
`LifecycleSteps` and `AtomicFile` are action properties: they compare every step
with the one it should be. `LifecycleSpec` is the refinement. The five liveness
properties are under "Fairness".

**Bounds.**

- *Queue.* Two daemons and a third kind of caller are every pair of claimants with
  a canceller. One job is enough for what is said of a job; jobs meet in the sweep
  and in the choice of the oldest and of an identifier, which the proofs cover for
  every set of jobs. `MaxStale = 1` is the default of the code
  (`maxStaleRecoveryCount`): a job is claimed, recovered, claimed again and then
  failed as stale, which is the whole cycle. `MaxCrashes` and `MaxWebRestarts` = 1
  put a stop between any two steps. `MaxClaims` bounds the JSON module only, where
  lost updates make the number of claims unbounded.
- *Run records.* Two finalizers and two interrupts make every pair of writers.
- *Repositories.* One row in each table hangs on the task or the project in each
  way the schema has; each saver saves a few rows that hang on one another, so
  that any may fall before, between or behind the statements of a deletion.
- *Tables.* With three keys and six saves every record can be saved again, before
  and after others, which is what distinguishes the orders.
- *Agent runs.* Two chains show what two prompts do to each other, two retries what
  retries do; two faults let a run and its own compensation fail. Retries beside
  *two* prompts are excluded (`RetriesApart`): a builder retry whose run has consumed
  no handoff takes the brief that the task shows (`run-recovery.ts:715`), and when
  that is the one which the chain of the other prompt is working on, two runs consume
  one handoff. The properties say so, and so do the theorems. `MCBound` starts alike
  callers in one order. One prompt with three retries and four faults, 20 M states, has
  been checked without an error and is too long for a run.
- *Services.* Two calls that overlap, after up to two that are over; the starting
  states replace the calls that lead to them. `MCBound` keeps models and tools
  apart, which share no table.
- *Chat.* `Earlier = 2` gives the task a history; the second chat has no project, asks
  after the first and keeps its client. Messages have one digit in `chat` (ids
  compare as numbers), and pass from one to two digits in `chat_lost_answer`.
- *Stream.* The second attempt is the last, so one retry shows what is left over
  from an attempt; two frames in a chunk and a piece of one behind them are all
  a reader can have in its buffer that differs.
- *Tab.* Two prompts give a late event of the first beside the second. An upset is
  a run that fails, an answer that is lost, a stream that breaks or a link that the
  user follows. `MaxBusy = 0`: the user waits until the server has done the first
  prompt before submitting the second on a task.

`CHECK_DEADLOCK FALSE` stands in every configuration but `MCQueue` and `MCPrisma`,
because there the bound ends a behaviour or every caller has returned; in
the queue and on PostgreSQL a process can always go on.

**Fairness** is that of Node's event loop, and never more: awaited calls that
are local return, and the other side promises nothing.

- `WorkerQueue.FairSpec`: a live worker goes on and clocks advance
  (`PassDeadline`). Nothing is assumed of heartbeat timers, of cancellers, of the
  Web, or of anybody who starts daemons again. `EveryJobSettles` says: every queued
  job settles if no daemon crashes, conflicts notwithstanding, *or* if daemons that
  ended are started again (`Supervised`). A daemon also ends after
  `WORKER_DAEMON_MAX_ITERATIONS` rounds, 100 unless set otherwise; the model counts
  this as a crash, so the first case speaks of a queue that is drained before that,
  and a deployment needs the second. Without either it is false: one crash and one
  conflict can end two daemons.
- `AgentRuns.Fairness`: a call that has begun goes on. `EveryCallReturns`: no lock
  is left behind, however many saves fail.
- `ChatStream.FairSpec`: the generator and the route of a chat go on. Nothing is
  assumed of clients, deletions or faults. `EveryChatEnds`.
- `ModelStream.FairSpec`: the generator and the consumer go on, and the timers
  `max_duration` and `request` fire. *Nothing* is assumed of the provider, which
  is why those two timers are what `EveryRunEnds` rests on.
- `LiveTask.Fairness`: the server works, requests and answers arrive or fail, the
  reader reads, renders happen, the panel polls, a task ages. Nothing is assumed of
  the user. `TabSettles` excepts what the code does leave hanging: the composer
  after the fallback to the form, and a task whose review stays pending.

## Proofs

Eight modules, checked by TLAPS for every value of the constants. The assumptions
are those that the modules name (`QueueAssumption`, `RepositoriesAssumption`, ...);
each follows from what the constants stand for. Where a property rests on a lock
that lives in one process, the theorem has a hypothesis that says so, `OneProcess`
or `OnlyPostgresIsShared`. The Web alone over memory or a file is one process. An agent
worker whose `LP_AGENT_WORKBENCH_STATE_FILE` names the JSON file of the Web
(`apps/agent-worker/src/index.ts:23`) is a second one: it saves the end of the runs it
finalizes there, under an update queue of its own. These theorems (`FileIsAtomic`, the two
on deletions over a file, and those on `AgentRuns`) say nothing of that deployment.
`CallersApart` only says that no name is that of a worker, a canceller, a timer and the
Web at once.

| Module | Theorems | Inductive invariant |
|---|---|---|
| `WorkerQueueProofs` (queue) | `TypeCorrect`, `PayloadSafe`, `BudgetKept`, `HolderUnique`, `NothingIsForgotten`, `Implements`, `ConflictsSpareOne` | `IInv` |
| `WorkerQueueProofs` (PostgreSQL) | `PrismaTypeCorrect`, `PrismaPayloadSafe`, `SettledRowsAreFinal`, `StaleWorkersFenced`, `PrismaImplements` | `PrismaInv`; with `FreshInv` for `PrismaImplements` |
| `WorkerQueueProofs` (JSON files) | `JsonInvariance`, `JsonCallsAreAtomic`, if callers have names of their own; `JsonHolderUnique` | `JsonInv`, `TokensApart` |
| `SkillCommandRunProofs` | `RecordsFollowJob`, `AlwaysResumable`, `TerminalEventsOnce` | `IInv`, `SeqInv` |
| `AgentRunsProofs` | `RecordsAreSound`; in one process `HandoffsAreConsumedOnce`, `BriefsAreBuiltOnce`, `BlockersAreNotDeployed` | `TypeInv`; `SafeInv` |
| `ModelStreamProofs` | `TimersAreInTime`, `AnswersAreTold`, `EventsAreTelling` | `TimerInv`, `ToldInv`, `EventsInv` |
| `ChatStreamProofs` | `AnswersHaveRuns`, `ToldAnswersAreKept`, `NothingAbandonedIsLeft` | `Inv` (with `AnswerInv`), `KeptInv` |
| `WorkbenchRepositoriesProofs` | `FileIsAtomic`, if there is one process; `DeletionsAreComplete`, `DeletionsAreRepeatable`, if only PostgreSQL is shared | `QueueInv`, `DeletionInv` |
| `WorkbenchRepositoriesProofs` (`RepositoryTables`) | `RecordsAreTheSame`, `ListsAreTheSame` | `SameInv` |
| `ProjectServicesProofs` | `KeysAreUnique`, `BindingsReviewed`, `ToolsAreAllowed`, `EvidenceComesFirst` | `Safe`, `HeldInv`, `EvidenceInv` |
| `LiveTaskProofs` | `TabInvariance`, `PromptsAreKeptOnce`, `PagesLandOnTheTask` | `IInv` |

*The queue.* `LivePayload`, that a queued or running job has its
payload, is not inductive: an enqueue could save a payload over a live one, a
sweep or a best-effort deletion could remove one. `EnqueueInv` says that the
identifier an enqueue works on, and all from `nextId` on, have no record;
`DeleteInv` that a job whose payload somebody is about to delete is settled, and
settled records stay so. `RecordInv` says that a job that was never saved has no
history and that a queued one has no request to cancel; with `StaleBudget` it is
carried along by the way records change. `ClaimInv` says that a token which a
worker holds was given out and that no two workers hold the same token of the
same job, from which `OneHolder` follows. The proof goes action by action: one
lemma says how each kind of action changes records (`Evolves`: a record changes by
one of the pure functions of `WorkerJob` or not at all), and the preservation of
each conjunct and the refinement both build on it. `Survivor` has an argument of its
own: the daemon whose recovery takes a claim away holds no claim itself at that
moment, and it is alive.

*PostgreSQL.* A snapshot may be older than its row, so the conditions of the
updates have to do the work. `PrismaInv` says of every snapshot that it is of a row
that exists and has the same input (`SnapshotInv`), of a worker that it completes
what it has read (`HeldInv`), of every payload about to be deleted that its job is
settled, and of the row of a running job that nobody cancels that it carries its last claim
(`TokenInv`). While nobody
cancels, a snapshot under the current claim also agrees in its stale count
(`FreshInv`); then a conditional write that succeeds writes what an atomic call
would have written, and the step is one of `JobLifecycle`.

*JSON files.* Of the callers in one process one at most is between its read and its write
(`Alone`: the lock), and while nothing is torn what it has read is what is stored
(`Copies`), because a write of another process over a file that somebody has read is what
`torn` records. A caller that has read a file is still in the call that reads it (`ReaderInv`): the
Web saves a record, a worker is between two calls, a local run has its job, a daemon whose timer
beats has kept its claim. With these a write does to the file what the atomic call does to
the table, so the steps up to the first torn one are those of `WorkerQueue`, and its `IInv`
holds until then (`JsonInvariance`). `OneHolder` holds afterwards too, by tokens alone
(`TokensApart`): a claim gives out a token that no worker has, whatever the files lose.

*Run records.* `IInv` bounds what each caller can still save by what the job is
(`CallTypes`, `EnqueueInv`, `CallInv`, `RecordInv`). That terminal events are unique
on PostgreSQL follows from `SeqInv`: the stored events of a run are numbered 1 to m
without gaps, so two writers who read the same events choose the same number and
the unique index refuses the second.

*Agent runs.* `TypeInv` types every table and says of each caller which role, run, brief and
page it has at its place in the code (`MeInv`, `PlaceInv`), and that there are finitely many
runs and products with numbers and times below a bound (`CountInv`), so that a new id is free
and a new time is later. That holds for any number of processes. In one process a retry under
way has the retry lock (`TurnInv`), and as long as retries are apart `WorkInv` holds: the
state of the run of each caller (`RunInv`) and the ids it has reserved (`ReserveInv`); two
callers work on different runs, briefs and pages (`Apart`); a handoff that is ready, or
that somebody has listed and not yet consumed, has no event of its consumption
(`HandoffInv`); a page with a request for a deployment may be deployed, and no builder or reviewer
works on it (`DeployInv`); with one prompt only its chain runs, then retries
of what has failed (`PromptInv`), and a builder retry that has succeeded has left a page in the
snapshot (`BuiltInv`), with which `RetryInputs` refuses the next. `ConsumedOnce` needs
`Apart`: runs of one role match a handoff by brief or page, and the undo of
a consumption may put it back only because nobody else has listed it. Few kinds of steps
(`KindsAre`: a call, a service or a run begins, or the call goes on), the fate of runs
(`RunFate`) and of handoffs (`HandoffFate`) stand for the 26 actions in the proofs of most conjuncts.

*Streams.* `TimerInv` ties the armed timers to the place of the generator.
`ToldInv` says that while an attempt is under way its text is the end of what the
consumer was told, that a failed attempt leaves its deltas behind, and that the next
one starts with an empty text. `EventsInv` says which types of event have been counted at
each place: before the first call of the adapter ends its retries, one less than its attempts, and
nothing of interest else; in a repair what was kept of the first call (`KeptEvents`) in addition;
an answer that is parsed or repaired has the events of a success.

*Chats.* `AnswerInv` says that a completion begins only after
the generator has stored a completed run, and that neither moves afterwards. `KeptInv` holds as
long as nothing was deleted: ids that a request has chosen under the lock are free until it
saves under them, and no two requests have the same answer (`IdsInv`); all that is stored of a
chat is its answer, empty until the completion has saved it, and the completion a client was told
of is stored (`MessageInv`); an abandonment that meets a completion waits for it and then
removes the answer by force (`EndInv`).

*Repositories.* `QueueInv`: an update waits in the queue until its turn, and the one
at the head has read the file as it still is. `DeletionInv` is about old rows, those that were
saved during no deletion. No old row has lost what it hangs on (`OldInv`, from which
`DeletionRepeatable` follows). A deletion in memory has listed all runs with old rows below
them (`ListInv`). The statements that are left to a deletion in PostgreSQL cover every row in
its scope that is still stored and was not saved since it began, tasks go after runs and what hangs
on them, and the project is last (`PlanInv`); foreign keys keep the run of a row that has one
(`KeyInv`). A plan that has come to its end covers nothing, hence `DeletionComplete`.
`SameInv`: array and map are equal,
the rows are their elements, and ids and keys are unique, where the ids of
numbered tables are below the next number. `NewComeLast` is about lists: a save of a known record
leaves its place and its `createdAt`, and a new one comes last with the latest; so the
array that nobody sorts is what `ORDER BY createdAt` returns. The place of a row in a sorted list
is stated as the number of those before it, and counted by a bijection with the places.

*Services.* `Safe` says of a save under way that it rewrites an existing record of
the same key, or that its call has the id lock and the record is new; with it keys
stay unique. A version that is saved late was reviewed when it was read, hence
`BoundReviewed`. `HeldInv` says what a tool call has seen at each of its awaits.
`EvidenceInv` says what is on record at each save of the end of a tool run; it needs
that the ids of the calls under way are apart and reserved, which rests on new ids
being one more than the greatest, and on the existence of a maximum in a bounded set of
numbers (from well-founded induction on them).

*Tab.* A prompt can be on five ways: its stream waits to be opened, the stream has told the tab to
take another way, the form is about to be submitted, its request is on the server, or it is kept. `WaysInv`
says that a prompt is on one of them at most, and kept at one place, unless it is
`early`; that of a prompt which was not submitted there is no trace. The step from a fallback to a
request is made for the prompt submitted *last*, whichever stream tells of it, so it needs
`LatestInv`: when the last prompt is not early, the only stream still read is its own. `EventsInv` says that a
fallback is the only event of its stream, so that it is read once. `HandoffInv` says that
a prompt is handed over to one of request, form and acceptance at a time, and that a prompt
handed over has nothing left to read; the action of a form is awaited only while the composer
waits for it, which is why its redirect to the address without parameters cannot come after the answer of
a request. With these `AddressInv` holds: a changed address is always followed by a render,
and the address is that of the task of the last prompt once its answer is taken.
Steps are of three kinds (`Quiet`, `ServerSteps`, `TabSteps`); a quiet one keeps no prompt and
leaves requests, streams and composer alone.

*Form.* Two updates of one entry of a function are written
`[f EXCEPT ![c] = [@ EXCEPT !.a = x, !.b = y]]`, with no `@` inside of the inner update:
TLC takes `![c].a = x, ![c].b = y` as well, but TLAPS 1.4.5 hands it to its SMT solver as a
contradiction. That no action contradicts itself has been tried with
the provers, and each is taken in a run.

*Only model-checked.* Liveness under fairness (`EveryJobSettles`,
`EveryCallReturns`, `EveryChatEnds`, `EveryRunEnds`, `TabSettles`) is out of the
prover's reach, as is ENABLED.
The `TypeOK` of modules without a theorem about it says what
values its variables take, and is there for the reader.

## Where code and documents disagree

`chat_lost_answer` is the finding of `PROJECT.json`: question and answer of a
streamed chat have the same time, messages of equal time are listed by id as a string,
"message_10" comes before "message_9", so the completion does not find the empty
answer last and refuses it. The fifth chat of a fresh store loses its answer, of which
`streaming-chat-transport-ui-design.md:144` says that the route saves it.

The models show the following too. They are excluded from the properties above in
so many words, and have no run of their own. Documents are under
`src/docs/superpowers/specs` unless said otherwise.

**Worker queue**

- A claim conflict is thrown to the top of a daemon and ends it;
  `2026-05-19-worker-daemon-heartbeat-logs-design.md:234` says that a heartbeat
  conflict is not.
- Two processes on one JSON file can both complete the same job
  (`2026-05-17-worker-queue-handoff-design.md:196-198` excludes it), and with two
  overlapping finalizers store a terminal event twice.
- On PostgreSQL a cancellation writes the whole row that it read, with which an old
  claim becomes valid again (`...heartbeat-logs-design.md:159`), and a stale recovery
  may write a row without the cancellation (`:155`), which also allows a claim more.
- A finalizer that stops behind the terminal event leaves the run "running", and
  nothing offers to finish it (`2026-05-19-agent-run-lifecycle-recovery-design.md:280`).
- `cancelJob` can answer with a queued record, and record nothing, when the job is
  requeued between its two looks at it (`packages/worker-runtime/src/index.ts:783`).

**Agent runs**

- A retry looks at the snapshot before the run and saves after it: what another
  caller has put there meanwhile is overwritten (`run-recovery.ts:457` checks, `:480`
  saves), although `2026-05-20-run-recovery-ui-design.md:149` says that it fails closed.
- A builder retry whose page was saved before a later save failed builds again; with
  two prompts a builder retry falls back on the brief of the snapshot, so that two runs
  build from one handoff.
- A deployment may be requested twice after a stop or a failed save behind the request.
- Two Web processes can choose the same retry id (`run-recovery.ts:832`).
- The message for a failed chain points to recovery details even when no run failed; a
  retry never continues the chain; a planner retry takes the latest message before the
  run started, which need not be its own prompt.

**Repositories**

- In memory and file `deleteProject` finds messages and snapshots only through the tasks
  it deletes, in PostgreSQL also by `projectId`.
- The files of an artifact workspace are listed by path in memory and file (`index.html`,
  `styles.css`, `script.js`, as `workbench-repositories.test.ts:262` expects), in PostgreSQL by
  `createdAt` and then by path as text, which puts the script before the styles. The services read or sort
  these files by path, so that nobody sees the difference.
- Bindings, providers, policies, connectors, approvals and members are listed by
  `updatedAt` in PostgreSQL only. `listRuntimeSkillsForProject` keeps the first enabled
  binding of a skill, so the store decides which version runs;
  `2026-05-19-postgres-repository-foundation-design.md:134` promises like behaviour.
- Two processes on one JSON file can save two records of one natural key.

**Services**

- `validateSkillVersion` and `publishSkillVersion` take no lock, so a late save puts a
  published version back to validated.
- The conditions of a tool call are read at different awaits: each held at some moment
  of the call, not all of them at one.
- A cancelled tool run is "cancelled" but its last event is `run.failed`; a failing save
  leaves the run "running"; a failing second save of `createSkillDraft` leaves a skill
  without a version.

**Streams and chats**

- The adapter yields the deltas of an attempt that fails and then those of the retry from
  the beginning (`packages/runtime-adapters/src/index.ts:686`); the route concatenates and
  saves both, whereas `2026-05-23-assistant-streaming-failure-ux-design.md:56` says that a
  partial delta of a failed stream is not taken for the message.
- A stream that closes early without its end mark counts as completed; after a cancel
  the generator's `return()` waits behind a pending `next()`, so that a failing attempt may
  still be retried; tokens of failed attempts are not counted; timers go on while the
  consumer holds a delta.
- A structured builder run that fails late keeps its event `artifact.created`
  (`docs/superpowers/plans/2026-05-14-real-builder-static-artifacts.md:1347`).
- A task that is deleted while a chat streams gives its ids to the next one; the completion,
  which takes no lock, can bring back a deleted message or task. Of two chats on one task
  the first answer is refused. A chat that fails to start after its generator was made leaks a
  reserved run id. A Web that stops in a stream leaves an empty answer and a running run.

**Tab**

- The link for a new task does not clear the cookie of the current one, and
  `submit/route.ts:65` falls back on the cookie: the prompt goes to the old task
  (`2026-05-22-manual-alpha-ux-tightening-design.md:23`, `docs/web-v1-acceptance.md:41`).
- A poll between the last run of a chain and the message that follows it is told that the
  task is terminal, and the panel stops too early
  (`2026-05-21-live-run-timeline-artifact-progress-design.md` promises updates without a
  manual refresh). A page whose review stays pending after a failed reviewer run is never
  terminal, and the panel polls for ever.
- Late events of a stream are applied to a newer prompt. The first "completed" of a stream
  makes the composer usable; a prompt submitted then may come back as `fallback.required` while
  the end of the first stream makes the composer usable again, and what the fallback submits is
  the prompt submitted *last*, `submittedPromptRef.current`
  (`streaming-workbench.tsx:800`). With three prompts one is kept twice. `PromptOnce` and
  `LandsOnTask` leave out prompts submitted while a stream was still read (`early`).
- The composer stays disabled after the fallback to the form.

## What is not modelled, and why

- *Data.* Parsing, validation and rendering of briefs and artifacts, prompt assembly,
  command lines, manifests, deployment files, mappers between rows and records, migration
  of old files, texts, i18n and view models are functions over text without control that
  another part could disturb. The models keep their outcome: parsed or not, blank or not,
  permitted or not.
- *Thin callers.* Settings pages, forms, members, listings: one call each to a service or a
  repository that is modelled.
- *Nothing depends on it.* Worker logs are appended and trimmed, and no decision reads them.
  The queue of unsafe jobs in process memory (`enqueue`, `runNext`) and the tool runner that
  waits for a worker job are constructed in tests only. Configuration and the factory of the
  worker stores are read once.
- *Time* is only past or not past a deadline. Idle sleeping of the daemon is a stutter.
- *Several processes* on the workbench repositories, be they Webs or a Web and an agent worker
  that finalizes into its JSON file, share no lock; properties that rest on one are stated
  for one process, and what is lost otherwise is in the list above. `SkillCommandRun`, which
  has finalizers of both, takes every save of a record as atomic. Memory, PostgreSQL
  and the file of one process are like that; on a JSON file that Web and worker share, a save of
  one can also undo a save of the other, whatever record it was of.
- *Awaits taken together*, where no property looks between them: `AgentRuns.SavePage` is the
  saves of a page version, its workspace and files (`index.ts:984`), and
  `ProjectServices.ReadVers` is the reads of the versions of all bindings, one await each
  (`index.ts:1999`); `ToolAllowed` measures each condition on its own. A task that outlives the
  deletion of its project on PostgreSQL keeps here the project that the database clears
  (`WorkbenchRepositories.Restricts`); such a task was saved behind the deletion, and the properties
  except it.
- *Several projects* in the tab: `LiveTask` has one, so the return of
  `replaceWithTerminalTaskRoute` without a project (`streaming-workbench.tsx:697`) does not happen.

## Plan

Done: the queue with its three stores and the refinement; the records of a run; the workbench
repositories; agent runs; services; streams and chats; the tab; proofs about all of them.

Left: `AgentRuns` as the detail of the chain in `LiveTask`, by a refinement mapping of the
snapshot and the state of the runs.
