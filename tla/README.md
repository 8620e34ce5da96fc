# ShadowGen v2: TLA+ models

ShadowGen takes a picture, asks an ML service to render shadows for it, and
shows the result in a web page. The request is accepted by an HTTP API, carried
by a queue, worked on by a worker process elsewhere, and everybody meets in an
object store that offers no transactions. This directory models that pipeline
in TLA+, checks it with TLC on small instances, and proves the central
properties with TLAPS for every number of jobs, slots and failures.

Paths below are relative to the repository.

## 1. The system

### Components

| Component | State it keeps | Operations | Correct when |
|---|---|---|---|
| Job record and domain lifecycle (`packages/contracts`, `packages/domain`) | `JobRecord`: status, timestamps, result, error, trace | `JobEntity.start/complete/fail` | a job is queued, runs, ends once; final states are final |
| Job creation (`create_job.py`, `cache_keys.py`) | none of its own | look up the request cache, create the record, publish the message | an identical request reuses a finished or fresh live job; a created job is published |
| Operator management (`manage_job.py`, `routes/jobs.py`) | none | `mark_failed`, `delete` | the operator's word is final |
| Job processing (`process_job.py`) | its copy of the record | `execute`: claim, load asset, start, ML probe/submit/poll, store artifacts, complete, or fail | every outcome is recorded, no stage stays open, a redelivery is harmless |
| S3 job repository (`s3_job_repository.py`) | one object per job, one index object per request cache key | `create`, `get`, `update`, `delete`, `find_by_request_cache_key`, `list_recent` | the index names a job worth reusing |
| YMQ job queue (`ymq_job_queue.py`) | messages with receipts and visibility timeouts | `publish`, `receive`, `ack`, `nack` | at least once; deleted only by the holder |
| Worker loop (`loop.py`, `executor.py`) | `_in_flight`: futures and their deliveries | `tick`: drain, receive up to the limit, drain, heartbeat | a delivery is settled once, after its attempt |
| Worker runtime state (`state.py`) | `WorkerRuntimeState` in memory and in the store | `job_submitted`, `job_polled`, `job_finished`, `job_failed`, heartbeats | the in-flight list shows the attempts that run |
| System diagnostics (`get_system_diagnostics.py`) | none | classify live jobs as lost | a lost job is lost, and a job being worked on is not |
| ML core adapter (`ml_core/*`, `legacy_pipeline/*`) | per attempt: cached capabilities | `probe`, `submit`, `poll`, `cancel` | every answer ends the poll loop or continues it within its bounds; nothing is rendered twice or for nobody |
| Runtime configuration (`runtime/*_config_store.py`) | one object with the override of the ML address | saved by the API and the worker, read by each attempt and report | a switch is picked up, and what is published belongs to the address in force |
| Worker actions (`control_loop.py`, `control_actions.py`, action stores) | one JSON object with all commands | `enqueue`, `take_next`, `update`; restart, update, probe; the detached update helper | a command runs once and ends |
| Local queue and repository (`file_job_queue.py`, `file_job_repository.py`) | files; `.claimed` for a received message | the same ports | at least once; nothing is delivered before it is there |
| Asset stores (`file_asset_store.py`, ...) | bytes and metadata, written once | put, get | an asset that is named exists |
| Web client (`apps/web`) | page state, a poll timer | submit, poll, show | the page comes to show the end of its job |
| Routes, control page, configuration, scripts | none | wiring | (nothing of their own) |

### Interactions

    client --POST /jobs--> API --create--> S3 (record, index)
                            |  --publish--> YMQ
    worker loop --receive--> YMQ
       pool thread: get / update record (S3), get / put assets, ML calls,
                    reports to WorkerStateService (S3 object)
    worker loop --ack | nack--> YMQ
    client --GET /jobs/{id}--> API --get--> S3
    operator --mark-failed | delete--> API --get, then update | delete--> S3
    attempt --probe, submit, poll, DELETE--> ML service at the override's address
    operator --command--> API | control page --list--> action store (one object)
    control loop --take, execute, update--> action store; Docker, os.execv
    update helper (container) --replaces--> worker; --verdict--> action store

On one host the same processes share a directory instead of S3 and YMQ. A
restart command ends the worker's process with the attempts of all its slots.

API handlers run concurrently, the worker runs up to `max_in_flight_jobs`
attempts on pool threads, several workers may share the queue, and none of them
takes a lock on a record. The only exclusion between attempts is the queue's
visibility timeout.

### What is hard here

* **Blind read-modify-write.** An attempt reads the record once, edits its own
  copy for minutes, and overwrites the stored record at every stage. So does the
  operator, in two steps. The last writer wins.
* **Two writes per update, two reads per look-up.** The repository puts the record,
  then the cache index, and looks a key up the other way round. Every update, not
  only `create`, points the index at its own job.
* **Two systems per create.** The record is stored, then the message is sent;
  the API can fail in between.
* **At-least-once delivery.** Every failure, by design, leads to a redelivery of
  a job that is already failed. Nothing extends the visibility of a long job.
* **Crash points.** `execute` has about fifteen, of which only the part after the
  `RUNNING` update is inside the `try`.
* **Failing failure paths.** The `except` block itself writes to the store.
* **A service that owes nothing.** It may take a request and lose the answer,
  forget its jobs, be replaced, answer without an image, report "completed" without
  a result or a status nobody knows, never end.
* **One list, four writers.** API, control page, control loop and update helper
  rewrite the whole list of commands from what each of them read; over files each
  write truncates the list first. The helper rewrites the whole worker state, too.
* **Commands that end their executor.** A restart must be recorded before it
  happens, and the process it starts must not meet it again.
* **Files without locks.** A file can be seen before it is filled, by the worker,
  by the control loop, by the look-up of another create and by the page.
* **Overlapping polls.** The page's timer does not wait for an answer.

`PROJECT.json` lists each hazard with its line and the properties that watch it.

## 2. Modules

| Module | Models | State | Proved about |
|---|---|---|---|
| `JobRecords` | `JobRecord` and the edits `JobEntity` and `ProcessJobUseCase` make to it in memory | none (operators on records) | through the others |
| `RenderJobs` | API creates, operator edits, S3 repository, YMQ queue, worker slots, `ProcessJobUseCase.execute` | see below | yes |
| `JobLifecycle` | abstract specification: what is promised of each job | `phase`, `settled` | implemented by `RenderJobs` and `LocalHost` |
| `WorkerRuntime` | one worker process: `WorkerLoop.tick` in its order, `WorkerStateService`, the update helper's reports, the lost-job diagnosis | see below | yes |
| `MLPolling` | the adapter, the poll loop, the ML services, the override, the published capabilities | see below | yes |
| `WorkerActions` | action store, operators, control loop, restarts, update helper | see below | yes |
| `LocalStores` | file assets, records and queue; the API's writes; the worker loop and its attempts over files | see below | yes |
| `WebClient` | the page's poll effect | see below | types |
| `LocalHost` | composition of the last three on one host | theirs | yes |
| `RenderJobsMC`, `WorkerRuntimeMC`, `MLPollingMC`, `LocalHostMC` | finite instances for TLC | | |
| `RenderJobsProofs` | types, coherent outcomes, the trace | | |
| `LifecycleProofs` | one attempt, no lost job, results and failures that stay, refinement | | |
| `ReuseProofs` | when the request cache misses | | |
| `WorkerProofs` | types, published status, no ghosts without a cause, the diagnosis | | |
| `PollingProofs` | types, one render, answered successes, justified failures, orphans, labels | | |
| `ActionsProofs`, `StoreProofs`, `HostProofs` | the steps of `WorkerActions`, of `LocalStores`, and the theorems about `LocalHost` | | |

### Grain of `RenderJobs`

A step is one call of a shared port (repository, queue, asset store, pipeline,
observer), with the local computation that follows it up to the next call.
Local code between two calls touches nothing shared, so nothing can be
observed inside it. An update is two steps, the record put and the index put, and
so are the two gets of a look-up.

| Variable | Code |
|---|---|
| `records`, `index` | the objects under `jobs/` and `jobs-cache/` in the bucket |
| `message`, `holder` | the YMQ message of a job: not sent, visible, hidden, deleted; whose receipt is the latest |
| `request`, `answer` | how far a `POST /jobs` has come in `CreateJobUseCase.execute`, and the job id it returned |
| `pc`, `stage`, `copy`, `job`, `due` | a slot of the worker: the next port call in `execute`, the trace stage it is in, its local `job` object, the job id of its delivery; whether an index put comes first, and where its failure leads |
| `operator` | where a `ManageJobUseCase` call is, and the record it read |
| `budget` | what may still go wrong |
| `clock` | wall clock, coarse, for `LIVE_CACHE_STALE_THRESHOLD_SEC` |

| Actions | Code |
|---|---|
| `LookUp`, `Hit`, `Miss`, `Create`, `CreateIndexed`, `Publish`, `CreateFails` | `CreateJobUseCase.execute`: index get, record get, record put, index put, publish; it may fail before or after each of them |
| `OperatorReads`, `MarkFailed`, `MarkIndexed`, `Delete`, `DeleteLooksUp`, `Unindex`, `OperatorFails` | `ManageJobUseCase`: the read, then the two puts of a mark, or the removal of the record, the two gets of the look-up and the removal of the entry |
| `Receive`, `Ack`, `Nack` | `WorkerLoop.tick` and `_drain_finished`, per delivery |
| `VisibilityExpires` | the queue shows a hidden message again |
| `Get` ... `EmitFinished`, `Except` | `ProcessJobUseCase.execute` and `_complete_job`, line by line; `Update` is the record put of `repository.update` and `UpdateIndex` its index put, each with success and failure, and `OnError` says which calls the `try` covers |
| `Crash` | the worker process ends at any point (a container restart, `os.execv` of `restart_worker_process`) |

Abstractions, each chosen so that the properties cannot tell the difference:

* **Job ids** are the create requests themselves (the code draws a fresh UUID).
  `KeyOf[j]` stands for `render_request_key`.
* **Trace** is the set of stages stored open. A stage opened and closed between
  two writes never shows.
* **Poll loop.** `ml_poll` is one call that answers or raises: `job_ttl_ms` ends
  it. What happens inside is in `MLPolling`.
* **Queue order** is arbitrary: YMQ standard queues do not keep one.
* **Outdated receipts.** Deleting or returning a message with an outdated
  receipt may work or do nothing. Errors of the queue calls, which end the loop
  thread, are in `WorkerRuntime`.
* **Observer calls** are merged with the port call before them, except
  `job_finished`, the one that comes after the final write.
* **Canceled** jobs are left out: nothing calls `JobEntity.cancel`.
* **Slots** are not tied to one worker: several workers are as many slots that
  crash together, and a crash of one of two workers is the `expire` disturbance
  seen from the other.

### Disturbances

`Budget` bounds how often each thing may go wrong, so that a configuration or a
theorem says exactly what it admits: `api` (a create or an operator's request dies or fails), `asset` (a
source is gone), `crash` (worker process), `expire` (a visibility timeout passes
while the message is still being handled), `operator` (a mark or delete), `port`
(ML or asset store raises), `store` (a repository or observer call raises).

### What the lifecycle promises

`JobLifecycle` says it from outside: a job is accepted once, begins once, ends
once, and its message is deleted only after the end, unless an operator withdrew
the job. Two models are held to it:

| Model | `phase` | `settled` | As long as |
|---|---|---|---|
| `RenderJobs` (`JobLifecycle`) | status of the stored record | the message is deleted | no receipt expires and no operator edits records (`Undisturbed`) |
| `LocalHost` (`HostLifecycle`) | status in the record's file, or withdrawn if deleted or marked failed | the message's file is deleted | always, of the jobs an operator leaves alone |

Both exclusions of the first row are necessary: `DuplicateDelivery` and
`MarkFailedRace` show what happens without them. On one host a claimed file never
comes back while its worker lives, so there is no expiry to exclude; a deletion or
a mark withdraws the job for good, because an attempt that is still rendering saves
the record again, as running or with an end of its own, and nothing more can be
promised of it. `LocalStores!Drain`
settles several messages in one step, hence the set in `Settle`.

### `WorkerRuntime`

`RenderJobs` says what attempts do to job records and lets slots receive and
settle in any order. `WorkerRuntime` looks at the same worker from the side of
its own bookkeeping:

| Variable | Code |
|---|---|
| `loop`, `batch`, `processed` | where `tick()` is, the list `completed` of `_drain_finished`, the local `processed`; `loop = "dead"` after an exception, as the daemon thread ends while the control page lives on |
| `delivery`, `attempt` | `_in_flight`: per slot the delivery and how far the attempt on its pool thread has come |
| `memory`, `stored` | `WorkerStateService._state` and `runtime/worker-state.json`: the listed jobs, the status, whether `last_error` is set |
| `record`, `message` | job status and queue message, coarsely |
| `seen` | the stale live job a running `GetSystemDiagnosticsUseCase.execute` has read and judges; it judges each by itself |
| `helper`, `copy` | an update helper about to call `action_state`, and the state its own `WorkerStateService` has loaded |
| `abandoned`, `doubled` | history: jobs whose attempt was lost with the process or the loop thread; jobs whose message expired while a slot held it |
| `revived`, `dropped` | history: jobs whose entry a helper has put back into the stored list, or taken out of it |

Each method of the state service is one operator on a state (`InFlight`,
`Finished`, `FailedState`, `Rested`, `Booted`, `Probed`). `Report` changes the
memory and writes it; `ReportRaises` changes the memory although the write
failed, as the code does. A crash reloads the stored state. `HelperUpdates`,
`HelperReads` and `HelperWrites` are the end of `run_self_manage_helper`: it may
have replaced the worker's container, and its `action_state` writes the whole state
back as it was loaded; `ActionReported` is the same method called by the control
thread, which shares the worker's memory. Time is not counted:
any live record may be older than 300 seconds. `current_job_id` is left out, as
it is always empty or an element of the list. `Allowed` says which disturbances
may happen, `Troubles` how many in all.

### `MLPolling`

`RenderJobs` lets `ml_poll` answer or raise. `MLPolling` opens that call: the
attempts of deliveries that may overlap, each with the adapter it built and the
record it has read, against services at several addresses.

| Variable | Code |
|---|---|
| `override`, `url`, `mode`, `cacheAge` | `LocalRuntimeConfig.legacy_ml_base_url`; per attempt the address its `MLCorePipelineAdapter` was built with, the cached capabilities as the submit mode they lead to, and their age |
| `service`, `ml` | external: what answers at an address, and the asynchronous job of an attempt there |
| `record`, `copy`, `pc`, `age`, `retries` | status of the job, in the store and as an attempt has read it; where `execute` is; the clock of `job_ttl_ms`; `poll_retries` |
| `shown` | the address and mode in `WorkerRuntimeState`, with the address that was really probed (which the code does not keep) |
| `served`, `blank`, `puzzled`, `timedOut`, `hit`, `doubled` | history: attempts that were rendered; that got a placeholder or a result without artifacts; that were told an unknown status; their timed-out polls; attempts met by another fault; jobs two of whose attempts overlapped |

| Actions | Code |
|---|---|
| `Begin`, `Claim`, `Start`, `ClaimRaises` | the pipeline factory and `get`; the `worker_claimed` update with the copy; the update to RUNNING; an exception before the `try` |
| `Probe` | `pipeline.probe()`: handshake, else `GET /test` of a legacy service; `capabilities_refreshed` |
| `Submit`, `SubmitRefused`, `SubmitFails` | `submit()` with the cached or newly probed capabilities: stub, legacy, sync, async; a call that fails before or after the service saw it |
| `WorkRaises` | the asset store, the record or the worker state raises inside the `try` |
| `Poll`, `PollTimesOut`, `PollRejected`, `PollExpires` | one turn of the poll loop: answered, timed out, HTTP error, deadline with `cancel` |
| `Store` | the artifact store and `_complete_job`, with a last report that may raise |
| `SavedByApi`, `SavedByWorker`, `Heartbeat`, `Crash` | the writers of the override and of the published state around the attempts |
| `Progress`, `ServiceRestarts` | external: the service |
| `Tick` | time; ages stop where they make no difference |

Abstractions: an answer is with images or without them (`Answered`): the stub's
placeholder, a legacy answer in whose place the adapter puts it, a result with no
artifact. A job at work under a status the adapter does not know is `"odd"`. Other
payload is left out, and the saves of all stages that leave the status alone are
the one that begins or ends the stage.

### `WorkerActions`

The stored list is a function from commands, numbered by `requested_at`, to
their status or `"absent"`. Each writer keeps what it read and what it will write
(`held`). `FileWorkerActionStore._write` is two steps: `CutList` truncates the file,
`FillList` fills it. In between a reader fails; another writer may fill the file
too, and what it leaves beyond the end of the second text makes the file unreadable
(`pen = "over"`). `clobbered` remembers that a newer list was lost, `spoilt` that a
writer was gone between the two steps (`LetGo`). Over S3 a list is replaced in one
put: the same model without torn lists.

| Variable | Code |
|---|---|
| `items`, `listTorn`, `held` | `worker-actions.json`, whether it can be read, and the lists in the memory of API, control page, loop and helpers between `_read` and the end of `_write` |
| `kind`, `doing`, `stage`, `outcome` | the commands; the one in `tick`; where `take_next` and `execute` are; `action.status` in memory |
| `timers`, `worker`, `helper` | the restart threads that sleep a second; whether there is a container; the update helper of each command |
| `budget` | commands, crashes, failing store calls and failing effects still to come |
| `accepted`, `effects`, `forsaken`, `clobbered`, `spoilt` | history |

| Actions | Code |
|---|---|
| `Ask`, `Enqueue`, `AskLost` | `POST /v1/system/worker-actions` and the buttons of the control page; the API dies over it |
| `Cut` | any of the writers truncates the file |
| `Take`, `TakeRaises`, `UpdateReads`, `UpdateUnread`, `UpdateWrites`, `UpdateRaises` | `take_next` and every `update` of `execute`, with the exceptions, an unreadable list among them, that leave `tick` and end the thread |
| `Act` (`Effect`, `EffectRaises`) | the dispatch of `execute` per command kind |
| `RestartFires`, `RestartLost`, `Crash` | `os.execv`, the Docker restart, a restart that does not happen, the end of the process |
| `HelperStarts` ... `HelperDies` | the script of the detached container: look up, pull and build, swap, verdict |

Each command has a helper of its own; two helpers are two commands.

### `LocalStores`

| Variable | Code |
|---|---|
| `request`, `asset` | how far `POST /v1/assets` and `POST /v1/jobs` have come; the bytes file, then the metadata file |
| `record`, `torn`, `pen` | the record's file; whether it is truncated, or holds parts of two records; what an attempt and the API, both of which write it, have before them in `write_text` |
| `operator` | a `ManageJobUseCase` call between its read and its write |
| `message` | the file in `pending/`: empty, filled, renamed to `.claimed`, gone |
| `loop`, `work` | the loop thread; per job what a slot of the pool does |
| `trouble`, `deleted`, `marked`, `cutOff` | what may still happen; history: jobs deleted, jobs marked failed, jobs whose claim lost its worker |

The actions follow the writes: `PutBytes`, `PutMeta`, `LookUp` (reads every
record, and fails on a truncated one), `CreateBegins`/`CreateEnds`,
`PublishBegins`/`PublishEnds`; `Receive` claims the first file by name and ends
the thread when it is empty; `Load`, `Saved`, `Finish`, `Finished` are one
attempt, `Drain` acks and nacks; `OperatorReads`, `MarkBegins`/`MarkEnds` and
`Delete` are the operator's requests, `ApiDies` and `ProcessLost` the ends of the two
processes. `OpenRecord`, `FillRecord` and `UnlinkRecord` say what two writers and an
unlink do to one file. One `Saved` stands for the saves of all stages: each truncates and
fills the same file. A nacked message gets its old name back, the new name the
code would choose needs a file that cannot be there. Every request has its own
key, as reuse is in `RenderJobs`.

### `WebClient` and `LocalHost`

`WebClient` is the effect of `page.tsx` that polls one job: `shown`, the timer
(`polling`), the polls under way (`call`) and whether the running timer sent them
(`mine`). An answer goes through `setJob` and starts a new timer; a failed poll
stops the timer it belongs to. The page watches one job: a late answer of an
earlier job, after another submit, is not modelled.

`LocalHost` composes the three. `ControlRuns`, `WorkerRuns`, `ApiRuns` and
`PageRuns` are their steps; two steps are shared: a command or a crash that ends the
worker's process (`ProcessStops`) ends its control loop and the attempts of its slots
(`ProcessLost`) at once (`ProcessReplaced`), and with the API's process go its
requests about jobs and about the worker (`ApiEnds`). The page's answers are what the
files say at that moment, an error when a file is half written.

## 3. Runs

`RenderJobsMC`: jobs and slots are interchangeable, so its runs without liveness
use symmetry; `CHECK_DEADLOCK FALSE`, because the pipeline rests when every job
has ended. `WorkerRuntimeMC` and `MLPollingMC` never rest (the loop keeps ticking,
an idle worker keeps reporting), so deadlock is checked there. `Local` may stop:
a dead loop, or no container.

| Run | Instance | Shows |
|---|---|---|
| `Lifecycle` | 2 jobs of one key, 2 slots, 2 API threads, clock 0..1, one each of api/asset/crash/port, two store failures | type, `OneAttemptPerJob`, `NoLostJob`, `OutcomeRecorded`, `TraceClosedAtRest`, refinement of `JobLifecycle` (3,738,265 states) |
| `Chaos` | 1 job, 2 slots, two expired receipts, two operator edits, one port failure, one API failure | `OutcomeRecorded`, `OneOpenStage` when attempts overwrite each other (6,004,020 states) |
| `Reuse` | 3 creates, 2 API threads, 2 slots, one each of asset/crash/expire | `MissIsJustified` as long as no attempt fails (2,187,971 states) |
| `Ends` | 2 jobs, 2 slots, one port failure, fairness | `AnsweredJobEnds`, `EveryMessageSettles` (10,897 states) |
| `Worker` | 2 jobs, 2 slots, any one of crash, expired receipt, failing work, failing queue call, failing state write, update helper; fairness | `WorkerTypeOK`, `NoGhost`, `StatusShowsWork`, `PolledIsNotLost`, `AttemptsSettle`, `GhostsLeave` (590,698 states) |
| `Polling` | one job delivered twice, two addresses, `TTL = Refresh = MaxRetries = 1`, any two of: two failing calls, a switch, a crash, an overlap, a redeployment; fairness | `MLTypeOK`, `RenderedOnce`, `SucceededWasAnswered`, `FailureIsJustified`, `OrphanNeedsACause`, `MislabelledByOldAttempt`, `AttemptsEnd` (362,959 states) |
| `Local` | six kinds of scenario with up to 2 commands, 2 jobs, 2 slots, 2 polls; fairness | `HostTypeOK`, `AcceptedIsKept`, `TakesEffectOnce`, `StuckWasForsaken`, `FinishedStaysFinished`, `CommandsEnd`, `DeliveredIsReady`, `AcknowledgedHasEnded`, `StrandedWasCutOff`, refinement of `JobLifecycle` (`HostLifecycle`), `QueuedIsTakenUp`, `PageSettles` (224,345 states) |
| `ReuseAfterFailure` | 3 creates, one slot, one port failure | `MissIsJustified` violated |
| `EndsAfterCrash` | one job, one crash, fairness | `AnsweredJobEnds` violated |
| `DuplicateDelivery` | one job, two slots, one expired receipt | `ResultSurvives` violated |
| `MarkFailedRace` | one job, one slot, one operator edit | `MarkedStaysFailed` violated |
| `LostInBacklog` | one job, one slot, no disturbance | `LostHasNoMessage` violated |

**Bounds.** Two jobs of one key are what the cache index needs to be contended;
three creates are what `MissIsJustified` needs (one that fails, its successor,
and the one that misses). Two slots are two attempts on one record. Two store
failures let the write that records a failure fail as well. One tick with
`StaleAfter = 0` makes a record fresh or stale; more ticks only repeat that.
Two expired receipts and two edits let an overwritten record be overwritten
again. In `Worker`, two jobs in two slots make the list shared, and one
disturbance is enough for a ghost, a doubled delivery, a dead loop or a state
written back by a helper. In
`Polling`, two failing calls are one more than `MaxRetries`, or a failed poll and a
failed cancel; two of the faults together are what an overlap with a crash or a lost
answer needs; two addresses and one switch let an old attempt probe after the
switch; a second delivery is a second chance to render. The scenarios of `Local`
are chosen so that each hazard meets what it needs: two commands and a crash (two
writers of one list, a restart among them); one command with every mishap; a
command while a job runs and may be deleted or marked; the page over a job that may
be deleted, marked, cut off in the API, or lost in a crash; a job under two requests
of the operator while both processes end; two jobs of which one may be deleted or
marked. Each scenario is exhausted; their product would not be. The proofs of
section 5 remove the bounds for the invariants they cover.

**Fairness** (`FairSpec`, liveness runs only): a create once begun runs to its
end; pool threads are scheduled; the loop keeps receiving and draining
(`run_forever`); `ml_poll` ends because of its TTL; YMQ shows a hidden message
again when no attempt holds it. No client has to ask, no failure has to happen,
the clock need not move. `WorkerRuntime` assumes the same of the loop thread,
the pool threads and the queue; `Poll` has no fairness, but leaving the poll loop
has, because of the TTL. All of it is weak fairness. Fairness cannot revive a
dead loop thread: the liveness properties of `WorkerRuntime` except that case.
`MLFairness`: every HTTP call has a timeout, so an attempt goes on, and the clock
runs; the service owes nothing. `HostFairness`: the control loop, the worker loop
and the attempts run while the worker is up, the browser's timer ticks and its
calls are answered; callers, operators, the restart timers and the update helper
(git, docker build) owe nothing. `CommandsEnd` and `QueuedIsTakenUp` therefore
except a dead thread and a worker that is down.

## 4. What the code does against its documents

* **`ReuseAfterFailure`.** `docs/contracts/jobs.md:85` promises that a matching
  queued, running or succeeded job is returned. After one ML failure the failed
  job's message is redelivered, and the write of its `terminal_noop` trace
  points the cache index back at the failed job. If a retry exists by then,
  it is hidden and the next identical request renders once more.
* **`EndsAfterCrash`.** A worker crash after the `RUNNING` update leaves the job
  running for good: the redelivery finds a record that `JobEntity.start` refuses,
  outside the `try`, and is nacked, forever.
* **`DuplicateDelivery`.** A job longer than the visibility timeout gets a
  second attempt, whose `worker_claimed` write, from a copy read before the
  first attempt finished, removes a stored result.
* **`MarkFailedRace`.** `docs/contracts/api.md:29` says that the endpoint marks the
  job as failed and stores the reason. The attempt an operator gave up overwrites
  `operator_marked_failed` with its next stage.
* **Deletion.** `docs/contracts/jobs.md:68` and `docs/contracts/api.md:35` say that
  `DELETE` removes the request-cache entry when it points at the deleted job. Over S3
  `delete` looks the entry up after it has removed the record, and the look-up
  returns nothing when the record is gone: the entry stays (`DeleteLooksUp` gets
  to `Unindex` only when an attempt has written the record back). A dangling entry
  is a miss, so no property of a run shows it; over files the entry is read
  without the record and does go.
* **`LostInBacklog`.** `docs/contracts/jobs.md:63` calls a job lost when worker
  and queue show no matching work. The code lists the queue counters as evidence
  but does not require them: a job waiting in a backlog for five minutes is
  reported lost, with `mark_failed` suggested.

Seen while modelling, without a document that says otherwise: a create that dies
between record and message leaves a live record that answers requests until it
is stale (the exception in `NoLostJob`); a vanished asset raises outside the
`try`, so that job too is redelivered forever; a job is missed by a look-up between
its record put and its index put (the exception in `MissIsJustified`), so two
creates at the same time may each make one; an exception of a queue call, or of
`job_failed` when the store is down, ends the loop thread with its delivery
popped; a crash between a job's final write and its last report leaves a ghost
entry for good, since the redelivery is a no-op that reports nothing (the
exception in `GhostsLeave`); of two attempts on one job the first to end removes
the in-flight entry of the other, and so does an update helper that writes an older
state back, which may as well bring a removed entry back (the exceptions in
`PolledIsNotLost` and `NoGhost`).

Of the ML side: `MLCoreRetryableError` is retried for a timed-out poll only, never
for a submit or for an HTTP 408, 503 or 504 of a poll (`SubmitFails`,
`PollRejected`); a job is cancelled at the service when its deadline passes, not
when its attempt ends by an error or by too many timeouts
(`docs/contracts/new-ml-service.md:158` gives the general purpose), nor when the
service reports a status the adapter does not know, which fails the attempt and
leaves the job at work; a completed result without artifacts, and the placeholder
put in the place of a legacy answer without images, are stored as a success (`blank`
in `SucceededWasAnswered`); overlapping deliveries of one job both submit it when
both have read it queued (`doubled` in `RenderedOnce`); capabilities are published
without the address they were probed at.

Of the control plane and the file backend: a writer of the action list that is gone
between truncation and filling leaves a list nobody can read, and with it all
commands (`spoilt` in `AcceptedIsKept`); a list met in between ends the control loop's
thread; the loop's record of a launch
overwrites the verdict of a helper that was faster (the exception in
`FinishedStaysFinished`), and the command is then running for good; an update
whose new container does not start leaves no worker; an exception outside the
`try` of `execute` ends the control thread, and commands are accepted and never
taken; a message file met before its text is there ends the loop's thread; a
claimed file whose worker is gone is never looked at again; a deleted job's
message is nacked for ever, and as many of them as slots starve the queue; a poll
or a create that meets a record that is just being saved fails.

## 5. Proofs

The theorems about `RenderJobs` hold of `Spec` for every `Jobs`, `Keys`, `KeyOf`, `Slots`,
`ApiThreads`, `StaleAfter`, `MaxClock` and `Budget` that satisfy
`ConstantsAssumption` and `MaxClockAssumption`. `Jobs` and `Slots` need not be
finite.

* `RenderJobsProofs!TypeCorrect`: `[]TypeOK`.
* `RenderJobsProofs!OutcomeIsRecorded`: `[]OutcomeRecorded`, under any
  disturbance. The invariant needs to be carried by everything that may be
  written later: the stored records, the attempts' copies and the operator's
  copy, with what the copy must be at each program point. No relation between
  copies and stored records is needed, which is why it survives lost updates.
* `RenderJobsProofs!OneStageIsOpen`: `[]OneOpenStage`, under any disturbance;
  `TraceIsClosedAtRest`: `[]TraceClosedAtRest` when `Budget["operator"] = 0`. One
  invariant, `TraceInv`, carries both: what `Traced` says of records holds of the
  stored records and of every copy, `AttemptTraced` adds what is open at each
  program point. `FailingClosesTheTrace` is the lemma about
  `_fail_running_stage`.
* `LifecycleProofs!OneAttempt`, `NoJobIsLost`, `OnlyOperatorTakesResults`: under
  `NoExpiry` (`Budget["expire"] = 0`), with any operator edits. `LockInv` adds to
  `OneAttemptPerJob` that a message belongs to an answered request, so that a
  create cannot send a second one. `MessageInv` then follows the message: a slot
  about to ack has left an ended record, or none, behind. `ResultInv` (under
  `Keeps`, one clause per program point) says that the only attempt of a succeeded
  job holds a copy that has succeeded too, or is not going to write; only
  the operator's second step is outside it, and the theorem names it.
  Without `NoExpiry` all three are false: `DuplicateDelivery` refutes the last, and
  one expired receipt, with a crash for the second, the others.
* `LifecycleProofs!ImplementsLifecycle`, `ResultStays`, `FailureStays`: under
  `Undisturbed`, the refinement, `ResultSurvives` and `MarkedStaysFailed`. The
  second follows from `OnlyOperatorTakesResults`, the third from the refinement.
  The two runs that refute these properties each lack one half of the hypothesis.
  The refinement is not inductive alone. `LifecycleInv` joins four parts:
  * `QuietInv`: no expiry and no operator edit is left in the budget or under way;
  * `RequestInv`: what a create request's progress says about its record and message;
  * `OneAttemptPerJob`: a busy slot holds the current receipt of its job;
  * `CopyInv`: at each program point, how the status of the copy relates to the
    stored status. An attempt must not write a status the record cannot take in
    one step of the lifecycle, and a slot that will ack must have left an ended
    record behind. A store write that raised may have happened or not, hence
    the pairs `Fits` allows on the way to the `except` block.

  `EveryAttemptStep` reduces the fifteen attempt actions to one statement about
  one slot and one record (`AttemptStep`), `AttemptKeepsInv` shows that such a
  step keeps the invariant, `LifecycleNext` adds the other actions, and
  `OneJobMoves` turns a change of one job into a step of `JobLifecycle`.

* `ReuseProofs!MissOnlyWhenStale`, `MissesAreJustified`: under `Unfailing` (no
  create or attempt fails and the operator keeps out), for any number of API
  threads, doubled deliveries, crashes and vanished assets. `IndexInv` is the
  heart: the index names a job that has not failed, and names one as soon as the
  key has one whose create has made both puts, and a look-up that found an entry
  finds a job that has not failed, whatever is written between its two gets; it
  needs that nothing failed is ever written (`AttemptInv`) and that no attempt
  writes a record that is not there (`RecordInv`). `MissOnlyWhenStale` is what
  follows of a miss: every job of the key is between the two puts of its create, or
  the one that was looked up is live and stale. For `MissIsJustified` of all jobs of
  the key, but for those between the two puts, the theorem also assumes
  `[]NoneStale`. Each exclusion is needed: a failed attempt, or a marked one,
  points the index at itself (`ReuseAfterFailure`); a create that dies between its
  two puts leaves a record the index does not name; a stale job that is still
  running writes itself over the fresh one made in its place.
* `WorkerProofs!WorkerTypeCorrect`, `StatusIsRight`, `GhostsNeedACause`,
  `PolledJobsAreNotLost`: for every `Jobs`, `Slots`, `Helpers`, `Allowed` and `Troubles` that satisfy
  `WorkerConstantsAssumption`. `ServiceStep` says that the worker state changes
  only by a report, or is reloaded, and that reports keep status and list in
  agreement; the states that helpers have loaded agree as well (`CopiesAgree`).
  `NoGhost` is not inductive: a slot that has returned holds its job
  but will not report again. `EntriesBacked` asks for a slot whose last report
  is still to come; `KeepsBacking` covers the steps that add no entry and keep
  such slots, `ReportedOut` the reports that take a job out of memory and store
  together. `PolledIsNotLost` is about what a diagnosis has read at two moments:
  it is carried by `PolledListed` (a polling attempt is in the list, in memory and,
  unless a helper dropped it, in the store) and `SoleReceipt` (no other attempt has its job, so nothing else
  removes it), and holds at the moment the answer is given whatever was read first.

* `PollingProofs`: six theorems about `MLSpec` for every set of jobs, deliveries
  and addresses, every `JobOf`, `TTL`, `Refresh`, `MaxRetries` and `Trouble` under
  `MLConstantsAssumption`. `JobsAreRenderedOnce` rests on `OnceInv`, which speaks of
  jobs whose attempts have never overlapped: an attempt between its read and its start
  has a record that is still as it was read, one that is further on, or has left
  something at a service, has a record that is no longer queued, and no two such
  attempts belong to one job. `SuccessWasAnswered` holds with overlaps, too:
  `BackedInv` follows every status, in the record and in the attempts' copies that are
  written back over it, to the answer or the failed attempt it comes from. For
  `FailuresAreJustified` and `OrphansNeedACause` `StageInv` also counts (`timedOut` is
  never below `retries`), and `Justified` and `Accounted` are shown of the attempt that
  steps (`StepSound`) while the others stay (`StepStays`). `OnlyOldAttemptsMislabel`
  is a statement about one step.
* `HostProofs`: seven invariants, one action property and a refinement of `HostSpec`, for every
  number of jobs, slots, commands and polls and every set of scenarios, under the
  assumptions of the three modules and `HostConstantsAssumption`. `HostOK` joins
  * `StoreInv` (`StoreProofs`): `CreationInv` says what is in the stores for how far
    the API has come, so that a message implies its record and its asset; `PenInv`
    who has a record's file open, and that a torn one is being written, was left by a
    writer that is gone, or was written by attempt and operator at once;
    `ClaimInv` that a claim has an attempt or lost it, and that an attempt about to
    be acknowledged has ended its job;
  * `ActionsOK` (`ActionsProofs`): `WriterInv` says which entry each writer is about
    to change, `StageInv` what the loop has in hand. These hold whatever is lost.
    `ListInv` says how the list agrees with effects, helpers and history as long
    as `clobbered` is false: a writer that loses nothing changes one entry
    (`FillListFacts`, `LoopWrites`), and a command still queued is untouched.
    `TornInv` says that an unreadable list is being written, or a write was lost;
  * `PageTypeOK`.

  `HostStepOK` takes each step of the composition apart; only `ProcessReplaced` and
  `ApiEnds` are steps of two components.

  `HostImplementsLifecycle` refines `JobLifecycle`. `ApiStepMoves` and
  `LoopStepMoves` (`StoreProofs`) say of each step of the stores that it moves at
  most one job's record, and how (`Progresses`), or settles messages (`Settles`);
  `HostProofs` turns that into a step of the abstract specification. `LifeInv` says
  who writes a record that the operator leaves alone: nobody before its creation,
  then the attempt that claims it.

No hypothesis is empty: the budgets are constants that a configuration sets, and
the runs `Lifecycle`, `Reuse`, `Worker`, `Polling` and `Local` are instances of them.

Only model-checked: the liveness properties `AnsweredJobEnds`,
`EveryMessageSettles`, `AttemptsSettle`, `GhostsLeave`, `AttemptsEnd`, `CommandsEnd`,
`QueuedIsTakenUp` and `PageSettles`. They rest on fairness, and on `ENABLED` of the
actions that have it, which the prover does not handle. Every other property of a
passing run is proved: `MissIsJustified` as long as no live job goes stale, as in
the run `Reuse`, where the clock stands still. `LostHasNoMessage` is false, as its
run shows, and has no proof.

## 6. Not modelled, and what is left

Left of the plan:

1. A page that submits again while an older job's polls are under way.
2. A second worker process on one host: `LocalStores` has one loop; its `Receive`
   would need the race of two renames.

Left out for good: the in-memory adapters (tests only), the S3 asset store
(write-once blobs whose failures are outcomes in `RenderJobs` and `MLPolling`),
authentication, HTML, wiring, payload mapping, image processing, deployment
scripts.
