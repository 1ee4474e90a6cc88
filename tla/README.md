# Verification of unpod: call pipeline, conversation and ids

unpod is a platform of AI voice agents. Its backend places outbound calls in
bulk: a *run* is a list of *tasks*, each task is one customer to call, and a
distributed pipeline (Prefect flows, Redis, MongoDB, three call providers)
brings each task to a final status. That pipeline is the part of the repository
where processes compete, die and retry, and it is the core of what this project
models. Around it, three smaller protocols with state and concurrency of their
own: the end of a call and what follows it, the conversation of two agents over
a task queue, and the id generator of the back end. Paths below are relative to
`src/apps/super/super_services/` unless they start with `src/`.

## 1. Inventory

### 1.1 The call pipeline

| part | code | state it keeps | operations |
|---|---|---|---|
| Task and run documents | `orchestration/task/task_service.py` | MongoDB: task status, `retry_attempt`, `output`, run status | create, conditional and unconditional status writes, run verdict, recovery of failed and stuck tasks, user retry |
| Redis side | `voice/consumers/voice_task_consumer.py` `RedisLockManager` | `task_lock:*` (900 s), `task_dedup:*` (1 h), `prefect_*_call_workers` | acquire, release, check, mark, increment, decrement, defer |
| Activity | `voice/consumers/prefect_task_consumer.py` `execute_call_activity` | its locals | one call attempt, from deduplication to release |
| Run flows | same file: `process_run_flow`, `check_reschedule_run` | Prefect: waiting and delayed flow runs | create an Execute-Task flow run per pending task; try the run again five minutes later, three times |
| Dispatcher | `voice/consumers/call_dispatcher.py` | none | vapi (HTTP), livekit (agent dispatch), pipecat (in the worker) |
| Status cron | `orchestration/cron_jobs/update_calls_v2.py` | none | polls vapi for ended calls; completes, fails or retries their tasks; looks for pending runs |
| End of a session | `src/apps/super/super/core/voice/`: `livekit/lite_handler.py`, `livekit/livekit_lite_agent.py`, `shared_mixin.py`, `common/prefect.py` | the flag `post_call_triggered`, the key `prefect:{task}` (100 s) | tools of the model, silence and disconnection each trigger the post-call flow; the clean-up cancels what is left |
| Post-call flow | `orchestration/cron_jobs/post_call.py`, `src/apps/super/super/core/voice/`: `workflows/post_call.py`, `workflows/tools/call_scheduler.py`, `common/services.py` | MongoDB: `output.followup_count`, `input.redial_count` | completes task and run; saves a follow-up task; puts the task back for a redial |
| Kafka consumer | `voice/consumers/voice_task_consumer.py` | process pools, the same keys and documents | the previous generation of the activity |

How they interact: the task-service API creates a run and triggers *Execute
Run*; `process_run_flow` creates one *Execute-Task* flow run per pending task;
a Prefect worker slot runs `process_task_flow` and so the activity; the
activity writes the task and, at the end, the run. vapi and livekit calls
outlive the activity: the cron and the post-call flow write their end later.
The scan of pending runs, the cron and the user can put a task back to pending
and start it all again. All meet only in MongoDB, Redis and Prefect's queue:
there is no coordinator, so every read may be stale by the time of the write
that relies on it.

What makes each part correct:

* *lock*: never two activities of one task, whatever dies, raises or expires;
* *deduplication*: a completed task is not worked on again;
* *compare-and-set*: one activity per pending task;
* *counter*: the number of activities between increment and decrement; never
  more, whatever raises, but for units of workers that died;
* *local (pipecat) calls*: one per task, attended by the worker that placed it;
* *deferral*: a task outside business hours comes back, without losing attempts;
* *status*: a task taken up reaches a status that the rest of the system acts on;
* *retries*: granted to what the classifiers call retryable, until a task is
  given up, and then no more;
* *run status*: says completed only of a run whose tasks are;
* *end of a call*: one post-call flow, whichever handlers notice the end;
* *follow-ups and redials*: bounded, and a redial is not overtaken by the end
  of the flow that asked for it.

### 1.2 The dual-agent conversation

`src/apps/super/super/core/voice/workflows/dual_agent/`. The communication
agent walks the nodes of a conversation flow, one user utterance at a time; at a
tool node or an open question it pushes a task into the `TaskQueue` and asks for
its result at every further utterance. The processing agent polls the queue,
starts an executor per task and caches results, by type, in the shared context.
Both run in one event loop; the hard parts are stopping and starting while
executors are about to begin, tools that fail, hang or return after they were
given up, and a wait that must end. Correct means: a tool is called once per
task, the queue's list and statuses agree, a tool node is passed only with a
result, what is explained is what was told, and no wait is for ever. Only
`integration_example.py` puts the parts together so far.

### 1.3 The id generator

`src/apps/backend-core/unpod/common/sonyflake.py`. Each process has a generator
(mutex, elapsed time, sequence number); threads call `next_id` for the ids of
posts. Correct means unique ids, across processes and across restarts, which
increase within a process and fit 63 bits.

### 1.4 The rest of the repository

* `src/apps/super/super/core/voice`: the handlers' pipelines around livekit and
  pipecat, session manager. State lives mostly in those libraries.
* `src/apps/super/super/core/orchestrator/three_layer`: shared context between
  conversation layers (locks, event queue).
* `src/apps/api-services`: messaging (blocks, broadcast, wallet check), store,
  search and the task API.
* `src/apps/backend-core`: Django back end (one-time passwords, spaces, threads,
  notifications): handlers over a relational database.
* `src/apps/web`, `src/apps/unpod-tauri`, `src/libs`: user interfaces.

None of these is modelled; section 7 and `PROJECT.json` say why.

## 2. Modules

| module | what it is |
|---|---|
| `TaskWork` | abstract: what the pipeline promises of one task |
| `CallTask` | detailed: the activity in every worker slot, with Redis, MongoDB, Prefect's queue, the providers, and the faults |
| `CallTask_proofs` | theorems of `CallTask` and their proofs |
| `CallRun` | extends `CallTask`: the status cron, the run flows and the recovery scan, which put tasks to work and back to work |
| `PostCall` | the end of livekit calls, the post-call flow, follow-ups and redials |
| `DualAgent` | the two agents, the task queue and the shared context |
| `SonyFlake` | the generators of several processes, under restarts and a clock set back |
| `CallRun_proofs`, `PostCall_proofs`, `DualAgent_proofs`, `SonyFlake_proofs` | theorems of these modules and their proofs; `CallRun_proofs` extends `CallTask_proofs` |
| `MCCallTask`, `MCCallRun`, `MCPostCall`, `MCDualAgent`, `MCSonyFlake` | instances for TLC |

`CallRun` extends `CallTask`. The other three stand alone: `PostCall` takes of
the activity only what it needs (a flow run, the dispatch and the write of
`in_progress` after it), as its questions are about the writes that come later.

### 2.1 CallTask

`Flows` are worker slots and `Tasks` the tasks of one run. Each slot has a
program counter `pc` and the locals of `execute_call_activity` (`seen` is
`retry_attempt`, `counted` is `counter_incremented`, `response` is
`response.status`, `verdict` is `new_run_status`). One action is one operation
on a shared store or at a provider, in the order of the code:

    idle -> check -> lock -> read -> cas -> gate -> dial (-> calling) -> record
         -> dedup -> tally -> runwrite -> release -> decr -> idle

with the early returns and the exception path (`except`) where the code has
them. The `finally` block is `ReleaseLock` and `Decrement`. Three facts of the
code shape the model and are easily overlooked:

* `CompareAndSet` goes on whatever the status was: `update_one` returns an
  object that is always truthy (finding 1);
* `ReadTask` is between the lock and the `try`: if it raises, no one releases;
* `ReleaseLock` deletes the key without looking at its owner.

Statuses, responses, providers and errors are small sets; `retry` is only read
here. `Faults` selects what may go wrong: `crash` (the process dies at any
step; no handler runs), `raise` (any remote call raises, after it took effect
or not), `evict` (the deduplication key expires), `overrun` (an activity
outlives the lock's 900 s). Without `overrun` the TTL frees only keys whose
holder has gone.

A run and its tasks are created pending, or scheduled for a time the user gives:
`Created` has the statuses of an instance. A step that raises does so before its
effect or after it: `Reschedule` and `RecordInProgress` may raise once the flow
run or the status is written, `DialLost` places a call whose answer is lost. A
POST to vapi that is answered with neither 200 nor 201 is made once more
(`call_dispatcher.py:346`), so `PlaceCalls` may place two calls, of which the
record will name the last.

`done`, `late` and `leaked` are history variables: no action reads them.

The counter is exact (`WorkersAccount`) only as long as no call raises:
`_increment_redis_counter` swallows its exception, the activity marks the unit as
taken, and its `finally` gives back another activity's. What holds with calls
that raise, for every number of activities and however long they take, is
`NoUnitLeaks`: the counter never stands above the units held and lost.

Abstractions: the task's status and its deduplication key are read in one step
(the code reads the one, then the other; the second read only lets a flow run
return); the counter's clamp at zero is atomic (the code decrements and then
sets a negative result to zero); the counter key never expires; identical
waiting flow runs of a task are counted up to `MaxQueued`.

### 2.2 TaskWork

Per task: who works on it, whether a local call is going on, whether it has
been recorded as completed. `CallTask` implements it with `worker` = the slot
inside the locked section, `talking` = a pipecat call in progress, `finished`
= `done`. The property `OneWorkerPerTask` is that refinement.

### 2.3 CallRun

`CallTask` with `Trigger` replaced by what really creates flow runs. The
`Scanners` are the cron process and the Prefect slots that run *Check
Reschedule Run* and *Execute Run*. Each reads documents into its `image` at one
step and decides about them, one write per step, at later ones:

    cron:  idle -> poll (one step per call) -> tally -> runwrite
                -> list -> scan -> mark (one step per task) -> count -> idle
    flow:  idle -> list -> scan -> mark -> (one Execute-Task per task) -> idle

`list`, `scan` and `mark` are `get_pending_tasks` and `mark_task_status`, which
all of them go through. An *Execute Run* that finds its run scheduled (`kind` is
`scheduled`) lists the scheduled tasks, every other flow the pending ones. The
scan reads all tasks that have failed or are in processing; `Marks` is the
decision tree of `mark_task_status` on classes of errors. It looks at the image
(of its error class only in a failed task) and at the time of the decision, and
`Overwrite` writes over whatever the document has become: status, attempts and
error. `aged` says that a task has been in processing for longer than
`IN_PROGRESS_HOLD_MINUTES`, of the document and of an image, which ages while it
waits to be decided about (`AgeRead`). `named` says that the document in
progress names the call placed last, which decides what vapi answers when the
cron asks about "the" call.

When vapi says a call has ended, the cron runs `execute_post_call_workflow`
itself, and so does `mark_task_status` for an API error. If the customer is to be
called again at once, that writes `scheduled` (`Redial`) and creates a flow run
(`CreateRedial`); the caller then writes `completed` over it (`CallCompleted`,
`Mark`), unless an exception comes in between. An image's `step` says how far
its task's decision has got. The follow-up tasks this workflow may save are new
documents with flow runs of their own: they are left out here, as the tasks of a
run are fixed, and are part of `PostCall`, with the same functions called from
the other place.

`later` has the flow runs the cron has delayed (`mark_call_to_schedule`) and
those of redials, the former the set of slots that were at work on the task when
it was made and still are. `LaterDue` starts one when that set is empty:
`VAPI_RESCHEDULE_TIME` is 15 minutes or more, as long as the lock's TTL, so a
slot still at work by then has overrun its lock, and only the fault `overrun`
lets the flow run come due before. The model assumes that nobody configures a
shorter time. A redial is due after two minutes and waits for nobody (the empty
set).

The activity is `CallTask`'s, unchanged (`ActivityStep`): it stamps
`last_status_change` with every status and records the name of a call.
Abstractions: flow runs that wait are flags (`runs`, `checks`: the code gives
several of them one name and never counts them); attempts are counted up to
`MaxAttempts`; what the filters of `check_running_flow` see of the flows at work
is left open (`Busy`). They go by name and state, so a flow run whose worker was
killed and that Prefect still shows as running would hold back the check flow
for as long as it is shown (`update_calls_v2.py:450-483`); with `Busy` the cron
may go on as well as not, and `PendingIsTaken` rests on Prefect not showing dead
flow runs for ever. The thread pool of the cron polls the calls in any order; in
an instance without run-flow slots `Trigger` takes their place. The one call
ending that is passed over (`sip-completed-call`) is `StillOn`.

### 2.4 PostCall

The tasks are those of one contact in one run: the first one and the follow-ups
it leads to. Per task: the document (`status`, `redials`, `followups`), the
waiting Execute-Task flow runs, the activity (`act`), the session of its latest
call (`call`, `flag`, one `end` per handler) and the Redis `key`. A post-call
flow run goes

    queued -> analyse -> follow -> hand -> write -> run -> free
                      -> redial -> again -> free

`Begin` is the activity up to its dispatch. Its compare-and-set writes
`processing` to a pending task only; a redialled or follow-up task stays
`scheduled` until `in_progress` is written after the dispatch.

A handler gets from its check of the flag to setting the key without giving up
the event loop (building the result awaits nothing), so `ToolEnds` and
`EnsureEnds` are one step each; creating the flow run (`Trigger`) is another,
and there other handlers and the clean-up come in between. The tools call
`trigger_post_call` directly and set the flag only after it; the silence monitor
and the disconnect handler go through `_ensure_post_call_triggered`, which sets
it before. `CleanUp` ends the session. The clean-up cancels the idle monitor;
other handlers still creating the flow run (a tool, the end of a handover) are
cancelled if the process ends with the session, and otherwise go on.
`trigger_post_call` has set the key by then.

`ReplaceOutput` is the fact that finding 4 rests on: `update_one` with an
`output` sets the whole field. What the language model concludes from the
transcript is a free choice in `Analyse`. `Logged` and `Duplicate` are the two
queries about the tasks of the contact: `_get_logs` goes by `ref_id` and, without
a match, by the number; `create_scheduled_task` looks for a scheduled task with
the same `ref_id` or, if the task has none, for one that references it. A new
follow-up task has no `ref_id`; the final write gives the task one if the
contact has a document (`Document`).

`spoiled` marks tasks that a fault hit (a flow run that could not be created or
died, a failed dispatch, a handler cancelled on its way) or whose `completed`
was written over by the activity's `in_progress` after their post-call flow's
last write; nothing reads it. `TasksSettle` speaks of the others.

Abstractions: result building, logs and what the output holds besides are left
out; a redial, due after two minutes, starts when the key of 100 s is gone and
the session over; a key does not expire while its handler creates the flow run
(100 s against one request).

### 2.5 DualAgent

An action lasts from one sleep or tool call to the next: no lock of this code
is awaited while another one holds it, and `asyncio` then does not switch. One
disjunct of `process_user_input` is one action; `Check...` are the outcomes of
`_check_task_status`. `Poll` is one round of `_poll_loop`; `loops` counts the
loops alive, as `start` may come before the old loop has noticed `stop`. `exec`
has the executors of a task and `entry` the one listed in `_executor_tasks`: an
executor cancelled before it began (`created`) never writes the task's status,
one cancelled in its tool (`cancelling`) writes `FAILED` when it next runs.
`TimeOut` is `is_timed_out` becoming true; the executor goes on and may return
late. Results are represented by the task they are of. `Drop` removes the
first occurrence of a task from the pending list, as `list.remove` does.

Instructions and questions are one kind, `speak`: the placeholder that extracts
the answer always fills every field asked. `react` nodes never answer from the
cache, as `_try_answer_from_cache` returns nothing.

### 2.6 SonyFlake

`wall` is the clock in ticks of 10 ms. `Enter` takes the mutex and reads it;
`NewTick`, `SameTick` and `Borrow` are the three ways through `next_id`. A
thread that wraps the sequence borrows the next tick and sleeps (`nap`), with
the mutex, and `Wake` returns the id. `Boot` is a new process: gunicorn recycles
its workers. The sequence starts at its last value, so the first id in the tick
of the start is a borrowed one; together with the sleep this is what keeps a
restarted generator clear of the ids of the one before. The widths of the
fields are constants; `issued`, `repeated` and `last` are history.

`sleep_time` multiplies by 10 where the unit is already 10 ms, so the sleep is
ten times as long as needed (`SleepFactor`); the properties need only that it
is not shorter.

## 3. Runs

| run | instance | shows |
|---|---|---|
| `crash` | 1 pipecat task, 3 slots, crash + evict | `SectionExclusive`, `LocalCallExclusive`, `WorkersAccount`, refinement `OneWorkerPerTask` |
| `faults` | 1 vapi task, 2 slots, crash + raise + evict | `TypeOK`, `SectionExclusive` and `NoUnitLeaks` on every exception path |
| `clean` | 1 pipecat task, 3 slots, no faults, fair | `LateFlowSkips`, `NotAbandoned`, `TaskResolved` |
| `two_calls` | 1 vapi task, 2 slots, no faults | violated: finding 1 |
| `retry` | 1 vapi task, called at any hour, 1 activity slot, the cron, 1 run-flow slot that may die | `RunTypeOK`, `ScheduledComesBack`, `GivenUpForGood` |
| `recovery` | 1 pipecat task, 1 slot, the cron, 1 run-flow slot, crash, fair; created pending or scheduled | `StuckIsRecovered`, `PendingIsTaken`, `ScheduledRunStarts` |
| `completed` | as `retry`, immortal scanners | violated: finding 2 |
| `unique` | 2 processes on machines of their own, 2 + 1 threads, a restart, a clock set back | `FlakeTypeOK`, `IdsUnique`, `IdsFit`, `IdsIncrease` |
| `shared` | the same with one machine id | violated: finding 3 |
| `ends` | first task and room for one follow-up, 4 handlers, 1 redial, 1 fault, fair | `PostCallTypeOK`, `OneFlowPerCall`, `RedialsBounded`, `TasksSettle` |
| `followups` | room for two follow-ups, `max_calls` = 2, no fault | violated: finding 4 |
| `dual` | the flow of the integration example with one question, 3 tasks, 2 starts, fair | `DualAgentTypeOK`, `PendingListed`, `ToolCalledOnce`, `ToolNodesAnswered`, `ExplainsWhatWasTold`, `DoneStays`, `WaitEnds` |

Bounds. Tasks share nothing but the counter of their provider and the run
document, so one task shows the competition for a task. Two slots suffice for a
race between two activities; the third one in `crash` and `clean` is the
bystander that enters after a wrong release, and lets two runs of a task end
while a third is inside. `MaxRetries = 1` with an initial `retry` of 0 or 1
takes both branches of the retry check. `MaxQueued = 1` is refilled at any time
by `Trigger`, so a slot can always be started. `MaxOrphans = 1` is enough to
see a second call, and 2 in `faults` for the two calls one `DialLost` may place
beside a call going on; `MaxLeaks = 1` lets one process die with a counter unit.
`crash` and `faults` start with a task that was created pending or scheduled
(`EitherWay`), the other runs of `CallTask` with a pending one.

The runs of `CallRun` need one task and one activity slot: what races there is a
scanner with the activity or with another scanner, and two scanners (the cron
and a run flow) hold images at the same time. The limits are 1 (the code: 3, 2
and 2) in `retry` and `completed`. Counting stops at `MaxAttempts`, which is not
below them: every decision only compares with a limit, so counts beyond decide
alike. `retry` has no business hours to keep (`CheckHours`, the code's
`ENABLE_BUSINESS_HOURS_CHECK`): deferral is in the other runs, and with it
`retry` would have twice the states. `retry` places no second call while one is
going on (`MaxOrphans = 0`): that is the question of `two_calls`.
`GivenUpForGood` speaks of a task given up once nobody acts any more on what he
read before, and not of the number of attempts, as that is not bounded by the
limits: of two scanners with images of one task the later writer may lower
`retry_attempt`, and the task is retried once more (limits of 2 show this).
`recovery` has no attempts left (`MaxRetries = 0`): a flow run there only gives
the task up or dies, which is what the liveness properties need; attempts would
multiply the states by ten. The error classes differ from run to run (a
retryable error, an unanswered call, a final one); the API errors and the
refused calls, which share the branches of `Marks`, are in no run, and with them
the redial that an API error leads to (the one after an ended call is in `retry`
and `completed`). The theorems hold for every set of classes, except that
`ScheduledReturns` excludes the API errors. `retry`, `completed` and `clean`
begin with a pending run. `ScheduledRunStarts` begins where the API has
triggered the first *Execute Run* of a scheduled run (`runs`), in `recovery`; it
says nothing of a run flow triggered once the run is under way.

`ends` has one flow run at a time, which the key and the two minutes before a
redial enforce for one task, so what it leaves out is the flows of two tasks
crossing; the one redial and the one fault let each fault meet each step. Two
handlers can overlap before the flag is set (a tool and the silence monitor),
the end of a handover may meet the disconnect handler, and these come after
either. Its contact has no document, so tasks are found by the number and
duplicates by the reference; `followups` has contacts with and without one.
`unique` has a sequence of two numbers, so every second id wraps, and the limit
of the time is within reach. In `dual`, `PollLimit = 1` makes a poll leave tasks
behind, three tasks let a retried and a late one meet, and two starts make two
poll loops.

`CHECK_DEADLOCK FALSE` is in the runs whose bounds let the system stop: the
clock of `SonyFlake` ends, calls are no longer placed, or the tasks of the
conversation are used up.

Fairness (`FairSpec`): Prefect keeps starting waiting flow runs in idle slots
(strong, as slots compete), a slot keeps executing its activity (weak), Redis
expires keys and calls end (weak), a delayed flow run comes due (strong: it is
held back while the activity that asked for it finishes), and office hours are
open again and again when an activity looks (strong fairness of `Increment`).
All but the last are what Prefect, Redis and the providers do; the last is the
calendar. `FairRunSpec` adds that the cron job is started again and again and
goes on, that a run flow once started goes on and a waiting one is started, and
that a task in processing grows old (strong, because a new activity may hold the
task in between), and that what the cron has delayed comes due (weak: once the
slots ahead have ended it stays possible). Workers may die for ever; in
`recovery` the cron and the run flows do not, as nothing recovers a cron that
never ends a round.

`PostCall`: activities and flow runs are executed (Prefect), calls end, the
handlers and the clean-up run and the key expires, all weak; no tool has to be
called, no handler of silence to fire before the end, and no fault to happen.
`DualAgent`: the event loop gets to a poll that is due, to a created and to a
cancelled executor, and time passes (weak). A tool may never return. `WaitEnds`
also needs the customer to keep talking when speech is nearly over (strong
fairness of `Check`): the agent looks at its task only when it is spoken to.
How much speech is left is the environment's: `update_tts_state`
(`dual_agent/context_aggregator.py:312`) is called by nobody in the repository, so
that whoever embeds the agents must call it for the waits to be cut short.

## 4. Findings

1. `two_calls`: the compare-and-set never reports failure, so a task in
   progress can be called a second time.
2. `completed`: a scan undoes a completed task with a decision from before.
3. `shared`: all workers of the server use the machine id 257, so two of them
   can return the same id; a machine id set by `APP_MACHINE_ID` is a string and
   makes `to_id` raise.
4. `followups`: completing a task overwrites its `followup_count`; every
   follow-up counts as the first and `max_calls` does not bound them.

Observations without a run of their own.

*Call pipeline.* A task outside business hours stays in `processing`: the
deferral writes `scheduled` only to a pending task
(`voice_task_consumer.py:636`). It counts as stuck after 15 minutes and each
scan costs it an attempt, until it is given up without a call. The same ignored
result of the compare-and-set is what lets redialled, follow-up and scheduled
tasks be called at all: they are not pending when their activity begins. An
increment of the counter that fails is swallowed and the unit given back all the
same, so the counter then falls short by another activity's unit
(`voice_task_consumer.py:497-510`, `prefect_task_consumer.py:184`). A POST to
vapi answered with an error is made once more, and if the first one did place a
call, the customer is called twice (`call_dispatcher.py:346`). The cron
completes a task whose post-call workflow has just put it back for a redial, and
the redial's flow run then skips it (`update_calls_v2.py:331-349`). A scheduled
task that fails and is put back to pending is not listed while its run is still
scheduled (`task_service.py:801`). Two scanners that hold images of one task can
also lose an attempt: the later writer writes the count it has read, plus one.
An activity may outlive the lock's 15 minutes (the wait for a vapi channel, a
long pipecat call), and nothing renews the key. A run whose tasks have all
failed is failed at once, although a retryable task would be retried in a
pending one (`task_service.py:1567`). The cron that dies between writing
`scheduled` and creating the delayed flow run leaves the task there. A livekit
task in progress is polled by nobody and depends on its post-call flow alone.

*After a call.* If creating the post-call flow run fails, or the clean-up
cancels it, the error is swallowed and flag and key keep every other handler
from trying. A follow-up is saved before its flow run is created; if that fails
it stays `scheduled` and suppresses later ones as a duplicate. If creating the
run of a redial fails, the task is completed without it. A run is written
`completed` while another task of it is still to be called. The activity's
write of `in_progress` may come after a short call's post-call flow and undo its
`completed`. A redial of a pipecat call meets the one-hour `task_dedup` key of
its first call. `get_doc_id` takes `contact_number[1]`, one digit, where a
number without its first digit is meant (`post_call.py:198`).

*Dual agent.* The priorities are sorted as strings: HIGH, LOW, MEDIUM, against
the comment at `task_queue.py:145` (all tasks pushed today are HIGH).
`mark_node_complete` of the last node leaves it current, so `_handle_end` is
unreachable and the last node is spoken at every utterance. A `PENDING` task
never times out, so a wait under a stopped processing agent does not end.
Results are cached by the type of the task: a late one of a task given up
replaces the newer one, and is what an explanation then explains.

*Ids.* `sleep_time` sleeps ten times as long as it needs to, with the mutex
held. Distinct machine ids, on which `IdsUnique` in `unique` and `Unique` rest,
are the class's default (from the private address) and not what the application
configures: that is finding 3.

## 5. Proofs

Proved for every value of the constants: any tasks, slots, providers, scanners,
limits and bounds in the call pipeline, any calls, handlers and flow runs in
`PostCall`, any conversation flow, tools, tasks and starts in `DualAgent`, any
processes, threads and widths in `SonyFlake`. What the constants must satisfy is
the named `ASSUME` of each module; what a theorem assumes beyond it is in the
table and concerns the faults, except `MaxQueued > 0`: the bound on waiting
flow runs must let one wait.

| module | theorem | assumption | property |
|---|---|---|---|
| `CallTask` | `TypeCorrect` | | `TypeOK` |
| | `MutualExclusion` | no `overrun` | `SectionExclusive` |
| | `OneLocalCall` | no `overrun` | `LocalCallExclusive` |
| | `Refinement` | no `overrun` | `OneWorkerPerTask` |
| | `CompletedIsLeftAlone` | no faults | `LateFlowSkips` |
| | `CounterIsExact` | no `raise`, finitely many slots | `WorkersAccount` |
| | `NoUnitIsKept` | finitely many slots | `NoUnitLeaks` |
| | `NothingForgotten` | no `crash`, no `raise`, not created scheduled, `MaxQueued > 0` | `NotAbandoned` |
| `CallRun` | `RunTypeCorrect` | | `RunTypeOK` |
| | `RunMutualExclusion` | no `overrun` | `SectionExclusive`, `LocalCallExclusive` |
| | `RunRefinement` | no `overrun` | `OneWorkerPerTask` |
| | `RunCounterIsExact` | no `raise`, finitely many slots | `WorkersAccount` |
| | `GivenUpStays` | no `raise` | `GivenUpForGood` |
| | `ScheduledReturns` | no `crash`, `raise`, `overrun`; the cron does not die; not created scheduled; no API errors; `MaxQueued > 0` | `ScheduledComesBack` |
| `PostCall` | `TypeCorrect` | | `PostCallTypeOK` |
| | `FlowCreatedOnce` | | `OneFlowPerCall` |
| | `RedialsAreBounded` | | `RedialsBounded` |
| `DualAgent` | `TypeCorrect` | | `DualAgentTypeOK` |
| | `ListIsStatus` | | `PendingListed` |
| | `ToolIsCalledOnce` | | `ToolCalledOnce` |
| | `FinishedStays` | | `DoneStays` |
| | `AnsweredBeforeLeft` | | `ToolNodesAnswered` |
| | `ExplanationIsOfWhatWasTold` | | `ExplainsWhatWasTold` |
| `SonyFlake` | `FlakeTypeCorrect` | | `FlakeTypeOK` |
| | `EveryIdFits` | | `IdsFit` |
| | `Increasing` | | `IdsIncrease` |
| | `Unique` | machine ids differ | `IdsUnique` |

Every safety and action property of a passing run is in the table. The
inductive invariants are defined at the end of the module they are about.

### 5.1 CallTask

`SectionExclusive` is not inductive: a release might free a key that another
slot relies on. `LockHeld` says that a slot inside the section is the one its
task's key names; a release then deletes the slot's own key, an expiry hits only
a key whose holder is outside, and two slots inside would be named by one key.
`LocalCallAttended` adds that a pipecat call in progress has its worker waiting
in `calling`, hence inside the section, so by `LockHeld` no one else can dial.
The refinement uses both. `CountedAfterIncrement` says where a slot may hold a
counter unit; with it each step changes the counter and the set of holders
alike. `NoUnitLeaks` follows from it under every fault: a slot becomes a holder
with its increment or without one, and ceases to be one when the counter is at
zero, has been decremented, or `leaked` is. `DoneIsMarked` says that a completed
task has its key or is still completed with its worker about to set it: the
window in which only the status stops a late flow run.

`NotAbandoned` speaks of any slot that has the task in hand, also of one that
the lock is about to turn away, and such a slot leaves. `LockNamesHolder`, the
converse of `LockHeld`, says that it then leaves the task to the slot the lock
names; `ActivitySettles` that a slot past its write of the status leaves the
task settled or with a delayed flow run, and that a task in the deduplication
cache, which turns flow runs away before the lock, is settled. `InHand` is
`NotAbandoned` without the slots that have only their counter unit to give
back. It needs no word about `overrun`: the argument is about the slot the lock
names, not about there being one.

The lemmas `InsideSteps` and `OutsideSteps` reduce the twenty-odd actions to
what they do to `pc`, `job` and `lock`, so each invariant is argued once for
all steps inside the section.

### 5.2 CallRun

A step of an activity in `CallRun` is a step of `CallTask`, and no other step
touches slots, lock, calls and counter (`SlotsRest`). So the invariants of
`CallTask` that speak only of these carry over as they are, and with them mutual
exclusion, the refinement and the counter; those that speak of the documents
(`NotAbandoned`, `LateFlowSkips`) do not, as scanners overwrite these.

`GivenUp` is split into the document, the images and the slots. A scanner that
holds an image of the task as given up has no rule for it and writes nothing; an
image taken now agrees with the document (`SnapshotAgrees`); an activity that
takes the task up reads that its attempts are used up, goes from the gate to
giving it up again, and never dials. `PollsInProgress` says that the cron's
images of calls are of tasks that were in progress, so none of them passes for
an image of the task given up. That the property says nothing before the
old images are gone is needed: finding 2 is what happens before.

`ScheduledComesBack` must exclude that the flow run in sight comes due while the
lock turns it away and is lost. `ScheduledInSight` therefore says two things of
a scheduled task: something is in sight (`InSight`: a waiting or delayed flow
run, the cron about to create one, or a slot that has yet to write the status),
and whatever slot has written its status and still holds the lock is outlasted
(`Outlasts`): the cron has yet to create the flow run, or has created it with
that slot ahead of it, or the slot has itself just deferred the task.
`OnlyLocalsComplete` says that the deduplication cache has pipecat tasks only,
so it turns away no flow run of the others. `LockHeld` and `LockNamesHolder` tie
the slot to the lock. `Acting` is the cron between a first write about a task
and its last: it is about to create the flow run or to complete the task. With
calls that raise, or a run flow that dies in the workflow of an API error, a
redial may be left half made, hence the assumptions. `ImageAssumption`, that
`NoImage` is no image, is needed as both are values of one variable.

### 5.3 PostCall

`OneHandlerTriggers`: the key is set while a handler creates the flow run, so
there is one such handler, and once a flow run exists the flag is set and the
session is ending; by then no tool can run, and only tools do not look at the
flag. That the key may expire at any later time costs nothing.

`RedialsBounded` counts calls of a task against redials scheduled, while the
field that limits them, `input.redial_count`, is read and written by flows that
overwrite each other. The argument follows the next call of a task as a token:
by `OneNextCall` it is in one place, a waiting flow run, an activity about to
dial, a session whose end has yet to be looked into, or one post-call flow that
may still ask for it. `CallsCounted` says that a call more than redials were
scheduled is nowhere on its way, and that what was scheduled is in the count;
`NothingBeforeCreation` that a follow-up task starts with nothing.

### 5.4 DualAgent

`OneExecutor` is what stopping and starting could break: an executor that has
not begun is listed under its task and the task is pending; one in its tool has
it in progress. A second loop, or a loop started later, finds the task listed
and leaves it alone. With `PendingListed`, proved together with it and the
types, a tool is called only on the step out of `PENDING` (`CalledOnLeaving`),
which a task takes once. `WaitsAtNode` says that the task waited for was pushed
by the current node, so the result that lets the conversation leave it is its
own. For explanations, `OnlyAwaited` says that as long as no task was given up
the one unfinished task is the one waited for, so nothing can overwrite a result
told (`CachedIsCompleted`) before the next one is told.

### 5.5 SonyFlake

`IdOrder` reduces the order of ids of one machine to that of times and sequence
numbers (the only place with products), and `IdMachine` recovers the machine
from an id. `MutexInv` says that one thread of a process is inside `next_id`;
`LastInv` that the latest id of a process is `Passed`: it lies behind the
generator's time and sequence number, except for a sleeping thread's borrowed
one, which is not out yet. `Increasing` follows, with no word about the clock.
Uniqueness across a restart needs the clock: `ClockInv` says that, unless it was
set back, a generator is never ahead of it but by the tick on which a thread
sleeps, long enough to catch up. `IssuedInv` says that every id returned is
passed in its machine's present generator; a new one starts at the clock with
the last sequence number, hence passed everything the old one returned. An id
about to be returned is not passed, so it is new.

### 5.6 Only model-checked

`TaskResolved`, `StuckIsRecovered`, `PendingIsTaken`, `ScheduledRunStarts`,
`TasksSettle` and `WaitEnds` are liveness under fairness, which the prover
cannot reach, and stay with TLC, as do the findings. What the theorems assume of
the faults is needed, so TLC shows the rest on its instances: a crash leaves a
task behind (`StuckIsRecovered` says when it is found), and an overrun lets two
slots in.

## 6. Plan

1. `RetryPolicy`: the classifiers and the retry decisions as operators, and the
   cases on which they differ.
2. `KafkaWorker`: the previous consumer with its capacity check, its process
   pool and the two-step clamp of the counter, against the same lock.
3. The subscriber bookkeeping of the messaging broadcaster (a sender that is
   cancelled never runs the code after its `yield`), the session manager, the
   shared context of the three-layer orchestrator.
4. Proofs: that a task deferred under crashes is still in hand or stuck in
   processing, where the scan looks; what of `ScheduledComesBack` holds of
   pipecat tasks, which the deduplication cache may turn away.

## 7. Not modelled

* Most of the repository by size: user interfaces, request handlers that are
  one database transaction each, schemas, and the assembly of speech and
  language-model pipelines, whose state and concurrency are in livekit, pipecat
  and the providers' SDKs. A state machine of theirs would restate single
  assignments, so the share of the code the models cover stays small.
* `orchestration/cron_jobs/calls_cron.py` and `update_calls.py`: superseded.
* `update_run_status` (a user retries a run): an unconditional reset.
* Texts: prompts, transcripts, error messages beyond their class, webhooks, SMS.
* Pipecat calls in `PostCall`; clean-up of old tasks, statistics and user
  attributes in `DualAgent`, which nothing calls or no control depends on;
  `decompose` and `time_to_id` of the generator, which only look at ids.
