------------------------------ MODULE CallTask ------------------------------
(***************************************************************************)
(* One "Execute-Task" flow run of the outbound-call pipeline, and all its  *)
(* competitors: execute_call_activity of                                   *)
(*   super_services/voice/consumers/prefect_task_consumer.py               *)
(* with the Redis lock, deduplication key and worker counter of            *)
(* RedisLockManager (voice_task_consumer.py), the status writes of         *)
(* TaskService (orchestration/task/task_service.py) and the provider calls *)
(* of CallDispatcher (call_dispatcher.py).                                 *)
(*                                                                         *)
(* Prefect creates flow runs (the variable queued) and executes them in    *)
(* worker slots (Flows).  A slot walks through the activity one database,  *)
(* Redis or provider operation at a time; pc names the operation the slot  *)
(* performs next.                                                          *)
(***************************************************************************)
EXTENDS Naturals, FiniteSets

CONSTANTS
  Tasks,       (* the call tasks of one run                                *)
  Flows,       (* the worker slots that execute "Execute-Task" flow runs   *)
  NoFlow,      (* no lock holder                                           *)
  NoTask,      (* the job of an idle slot                                  *)
  Provider,    (* the provider of each task                                *)
  Created,     (* the statuses a run and its tasks may be created with     *)
  CheckHours,  (* ENABLE_BUSINESS_HOURS_CHECK                              *)
  Errors,      (* the classes of call failures (CallRun tells them apart)  *)
  MaxRetries,  (* MAX_CALL_RETRIES                                         *)
  Faults,      (* the kinds of faults that may happen                      *)
  MaxQueued,   (* bound: flow runs waiting for a slot, per task            *)
  MaxOrphans,  (* bound: calls still running that no task record names     *)
  MaxLeaks     (* bound: worker processes that die holding a counter unit  *)

Providers  == {"vapi", "livekit", "pipecat"}
FaultKinds == {"crash",    \* a worker process dies between two steps
               "raise",    \* a MongoDB, Redis or Prefect call raises
               "evict",    \* the one-hour deduplication key expires
               "overrun"}  \* an activity outlives the 900 s lock

ASSUME ConstantsAssumption ==
  /\ NoFlow \notin Flows /\ NoTask \notin Tasks
  /\ Provider \in [Tasks -> Providers]
  /\ Created \subseteq {"pending", "scheduled"} /\ CheckHours \in BOOLEAN
  /\ MaxRetries \in Nat
  /\ Faults \subseteq FaultKinds
  /\ MaxQueued \in Nat
  /\ MaxOrphans \in Nat /\ MaxLeaks \in Nat
  /\ "none" \in Errors /\ "max_retries" \in Errors

Statuses    == {"pending", "processing", "in_progress", "scheduled",
                "completed", "failed"}
RunStatuses == {"pending", "scheduled", "completed", "failed",
                "partially_completed"}
Responses   == {"none", "completed", "in_progress", "failed", "rescheduled"}

VARIABLES
  (* MongoDB: the task and run documents *)
  status,    \* TaskModel.status
  retry,     \* TaskModel.retry_attempt
  error,     \* class of TaskModel.output.error
  run,       \* RunModel.status
  (* Redis *)
  lock,      \* task_lock:{task_id}
  dedup,     \* task_dedup:{task_id} is set
  workers,   \* prefect_{provider}_call_workers
  (* Prefect *)
  queued,    \* Execute-Task flow runs that a slot may start
  delayed,   \* Execute-Task flow runs Scheduled for a later time
  pc, job,   \* what a slot does next, and for which task
  seen,      \* its local retry_attempt
  counted,   \* its local counter_incremented
  response,  \* its local response.status, or what it is about to return
  verdict,   \* its local new_run_status
  (* the provider *)
  current,   \* the call last placed for the task is in progress
  orphans,   \* earlier calls of the task still in progress
  (* history, read by properties only *)
  done,      \* an activity has recorded the task as completed
  late,      \* the slot's flow run started after that
  leaked     \* counter increments whose worker died before decrementing

taskVars == <<status, retry, error>>
redis    == <<lock, dedup, workers>>
prefect  == <<queued, delayed>>
locals   == <<job, seen, counted, response, verdict, late>>
calls    == <<current, orphans>>
vars     == <<taskVars, run, redis, prefect, pc, locals, calls, done, leaked>>

-----------------------------------------------------------------------------
(* Control points.  Section is the stretch between taking the task's lock  *)
(* and deleting it: the lines the lock is there to protect.                 *)
TryBody == {"cas", "gate", "reschedule", "dial", "calling",
            "record", "dedup", "tally", "runwrite"}
Section == TryBody \cup {"read", "except", "release"}
Points  == Section \cup {"idle", "check", "lock", "decr"}

InSection(f, t) == pc[f] \in Section /\ job[f] = t
Raises == "raise" \in Faults

Goto(f, p) == pc' = [pc EXCEPT ![f] = p]
Respond(f, r) == response' = [response EXCEPT ![f] = r]
Local(f)   == Provider[job[f]] = "pipecat"   \* the call runs inside the worker

(* The waiting flow runs of a task are identical: only MaxQueued of them   *)
(* are counted.                                                            *)
Add(queue, t) == [queue EXCEPT ![t] = IF @ < MaxQueued THEN @ + 1 ELSE @]

(* update_task_status without expected_status: an unconditional write.     *)
SetStatus(t, s) == status' = [status EXCEPT ![t] = s]

Init ==
  /\ run \in Created              \* scheduled: for a time the user has given
  /\ status = [t \in Tasks |-> run]
  /\ retry \in [Tasks -> 0 .. MaxRetries]   \* earlier periods count
  /\ error = [t \in Tasks |-> "none"]
  /\ lock = [t \in Tasks |-> NoFlow]
  /\ dedup = [t \in Tasks |-> FALSE]
  /\ workers = [p \in Providers |-> 0]
  /\ queued = [t \in Tasks |-> 0]
  /\ delayed = [t \in Tasks |-> 0]
  /\ pc = [f \in Flows |-> "idle"]
  /\ job = [f \in Flows |-> NoTask]
  /\ seen = [f \in Flows |-> 0]
  /\ counted = [f \in Flows |-> FALSE]
  /\ response = [f \in Flows |-> "none"]
  /\ verdict = [f \in Flows |-> "none"]
  /\ current = [t \in Tasks |-> FALSE]
  /\ orphans = [t \in Tasks |-> 0]
  /\ done = [t \in Tasks |-> FALSE]
  /\ late = [f \in Flows |-> FALSE]
  /\ leaked = [p \in Providers |-> 0]

-----------------------------------------------------------------------------
(* Prefect.                                                                *)

(* Something creates an Execute-Task flow run for the task.                *)
Trigger(t) ==
  /\ queued[t] < MaxQueued
  /\ queued' = Add(queued, t)
  /\ UNCHANGED <<taskVars, run, redis, delayed, pc, locals, calls, done, leaked>>

(* A delayed flow run comes due, minutes or hours after it was asked for:  *)
(* the activity that asked for it is not still deleting its lock.          *)
ComesDue(t) ==
  /\ delayed[t] > 0
  /\ \A f \in Flows : InSection(f, t) => pc[f] # "release"
  /\ delayed' = [delayed EXCEPT ![t] = @ - 1]
  /\ queued' = Add(queued, t)
  /\ UNCHANGED <<taskVars, run, redis, pc, locals, calls, done, leaked>>

(* A slot starts a waiting flow run: process_task_flow calls the activity. *)
Start(f, t) ==
  /\ pc[f] = "idle" /\ queued[t] > 0
  /\ queued' = [queued EXCEPT ![t] = @ - 1]
  /\ job' = [job EXCEPT ![f] = t]
  /\ late' = [late EXCEPT ![f] = done[t]]
  /\ Goto(f, "check")
  /\ UNCHANGED <<taskVars, run, redis, delayed, seen, counted, response, verdict,
                 calls, done, leaked>>

(* The locals of a slot whose flow run is over.                            *)
Return(f) ==
  /\ Goto(f, "idle")
  /\ job' = [job EXCEPT ![f] = NoTask]
  /\ seen' = [seen EXCEPT ![f] = 0]
  /\ counted' = [counted EXCEPT ![f] = FALSE]
  /\ response' = [response EXCEPT ![f] = "none"]
  /\ verdict' = [verdict EXCEPT ![f] = "none"]
  /\ late' = [late EXCEPT ![f] = FALSE]

-----------------------------------------------------------------------------
(* The activity, step by step.                                             *)

(* Variant: only the status is looked at, never the deduplication key.     *)
AlreadyCompleted(t) == status[t] = "completed"

(* _is_task_already_processed: a check that raises counts as processed.    *)
AlreadyProcessed(t) == status[t] = "completed" \/ dedup[t]

CheckDedup(f) ==
  /\ pc[f] = "check"
  /\ \/ AlreadyProcessed(job[f]) /\ Return(f)
     \/ Raises /\ Return(f)
     \/ ~AlreadyProcessed(job[f]) /\ Goto(f, "lock") /\ UNCHANGED locals
  /\ UNCHANGED <<taskVars, run, redis, prefect, calls, done, leaked>>

(* Variant: the lock is taken inside the try block, so that the finally    *)
(* block of a skipped flow run deletes the key of the run that holds it.   *)
AcquireInsideTry(f) ==
  /\ pc[f] = "lock"
  /\ IF lock[job[f]] = NoFlow
     THEN lock' = [lock EXCEPT ![job[f]] = f] /\ Goto(f, "read")
     ELSE UNCHANGED lock /\ Goto(f, "release")
  /\ UNCHANGED <<taskVars, run, dedup, workers, prefect, locals, calls, done, leaked>>

(* _acquire_task_lock: SET NX EX 900; a SET that raises counts as taken.   *)
AcquireLock(f) ==
  /\ pc[f] = "lock"
  /\ \/ /\ lock[job[f]] = NoFlow
        /\ lock' = [lock EXCEPT ![job[f]] = f]
        /\ Goto(f, "read")
        /\ UNCHANGED locals
     \/ /\ lock[job[f]] # NoFlow \/ Raises
        /\ Return(f)
        /\ UNCHANGED lock
  /\ UNCHANGED <<taskVars, run, dedup, workers, prefect, calls, done, leaked>>

(* TaskModel.get between the lock and the try block: if it raises, nothing *)
(* releases the lock but its TTL.                                          *)
ReadTask(f) ==
  /\ pc[f] = "read"
  /\ \/ /\ seen' = [seen EXCEPT ![f] = retry[job[f]]]
        /\ Goto(f, "cas")
        /\ UNCHANGED <<job, counted, response, verdict, late>>
     \/ Raises /\ Return(f)
  /\ UNCHANGED <<taskVars, run, redis, prefect, calls, done, leaked>>

(* update_task_status_atomic(pending -> processing).  The update applies   *)
(* only to a pending task; the UpdateResult it returns is truthy whether   *)
(* or not a document matched, so the caller always goes on.                *)
CompareAndSet(f) ==
  /\ pc[f] = "cas"
  /\ status' = [status EXCEPT ![job[f]] = IF @ = "pending" THEN "processing" ELSE @]
  /\ Goto(f, "gate")
  /\ UNCHANGED <<retry, error, run, redis, prefect, locals, calls, done, leaked>>

(* retry_attempt as read under the lock: too many attempts end the task.   *)
GiveUp(f) ==
  /\ pc[f] = "gate" /\ seen[f] >= MaxRetries
  /\ SetStatus(job[f], "failed")
  /\ error' = [error EXCEPT ![job[f]] = "max_retries"]
  /\ Goto(f, "tally")
  /\ UNCHANGED <<retry, run, redis, prefect, locals, calls, done, leaked>>

(* Outside business hours, _schedule_task_for_later: upadate_task_raw sets *)
(* scheduled on a pending task only; an exception leaves no scheduled time *)
(* and no later run.                                                       *)
Defer(f) ==
  /\ pc[f] = "gate" /\ seen[f] < MaxRetries /\ CheckHours
  /\ \/ /\ status' = [status EXCEPT ![job[f]] = IF @ = "pending" THEN "scheduled" ELSE @]
        /\ Goto(f, "reschedule")
     \/ /\ Raises
        /\ Goto(f, "release")
        /\ UNCHANGED status
  /\ UNCHANGED <<retry, error, run, redis, prefect, locals, calls, done, leaked>>

(* Variant: the deferred task is given no delayed flow run.                *)
RescheduleNothing(f) ==
  /\ pc[f] = "reschedule"
  /\ Respond(f, "rescheduled")
  /\ Goto(f, "release")
  /\ UNCHANGED <<taskVars, run, redis, prefect, job, seen, counted, verdict,
                 late, calls, done, leaked>>

(* _reschedule_task_to_prefect: a delayed Execute-Task flow run; the       *)
(* request may raise although Prefect has created the run.                 *)
Reschedule(f) ==
  /\ pc[f] = "reschedule"
  /\ delayed' = Add(delayed, job[f])
  /\ \/ Respond(f, "rescheduled") /\ Goto(f, "release")
     \/ Raises /\ Goto(f, "except") /\ UNCHANGED response
  /\ UNCHANGED <<taskVars, run, redis, queued, job, seen, counted, verdict,
                 late, calls, done, leaked>>

(* Within business hours, _increment_redis_counter: it swallows exceptions *)
(* and counter_incremented is set all the same.                            *)
Increment(f) ==
  /\ pc[f] = "gate" /\ seen[f] < MaxRetries
  /\ \/ workers' = [workers EXCEPT ![Provider[job[f]]] = @ + 1]
     \/ Raises /\ UNCHANGED workers
  /\ counted' = [counted EXCEPT ![f] = TRUE]
  /\ Goto(f, "dial")
  /\ UNCHANGED <<taskVars, run, lock, dedup, prefect, job, seen, response,
                 verdict, late, calls, done, leaked>>

(* n calls start at the provider; the task record will name the last one.  *)
PlaceCalls(t, n) ==
  /\ current' = [current EXCEPT ![t] = TRUE]
  /\ orphans' = [orphans EXCEPT ![t] = IF current[t] THEN @ + n ELSE @ + n - 1]
  /\ orphans'[t] <= MaxOrphans

PlaceCall(t) == PlaceCalls(t, 1)

(* A call run by a worker is over.                                         *)
CallOver(t) ==
  IF orphans[t] > 0
  THEN orphans' = [orphans EXCEPT ![t] = @ - 1] /\ UNCHANGED current
  ELSE current' = [current EXCEPT ![t] = FALSE] /\ UNCHANGED orphans

(* Variant: a pipecat call is started in the background like the others.   *)
DialDetached(f) ==
  /\ pc[f] = "dial"
  /\ PlaceCall(job[f])
  /\ Goto(f, "record") /\ Respond(f, "in_progress")
  /\ UNCHANGED <<taskVars, run, redis, prefect, job, seen, counted, verdict,
                 late, done, leaked>>

(* CallDispatcher.execute_call.  vapi and livekit return once the call is  *)
(* created; pipecat runs the call in the worker (EndLocalCall ends it).    *)
Dial(f) ==
  /\ pc[f] = "dial"
  /\ PlaceCall(job[f])
  /\ IF Local(f) THEN Goto(f, "calling") /\ UNCHANGED response
                 ELSE Goto(f, "record") /\ Respond(f, "in_progress")
  /\ UNCHANGED <<taskVars, run, redis, prefect, job, seen, counted, verdict,
                 late, done, leaked>>

(* The provider places the call but its answer is lost.  The dispatch of   *)
(* livekit is caught and answered with failed.  A POST to vapi that raises *)
(* goes to the handler; after any status but 200 or 201 it is made once    *)
(* more, so that a second call may be placed, and that one be answered.    *)
DialLost(f) ==
  /\ Raises /\ pc[f] = "dial" /\ ~Local(f)
  /\ \/ /\ Provider[job[f]] = "vapi"
        /\ \E posts \in 1 .. 2 : PlaceCalls(job[f], posts)
        /\ \/ Goto(f, "except") /\ UNCHANGED response
           \/ /\ Goto(f, "record")
              /\ \E r \in {"in_progress", "failed"} : Respond(f, r)
     \/ /\ Provider[job[f]] = "livekit"
        /\ PlaceCall(job[f])
        /\ Goto(f, "record") /\ Respond(f, "failed")
  /\ UNCHANGED <<taskVars, run, redis, prefect, job, seen, counted, verdict,
                 late, done, leaked>>

(* No call is placed: outgoing calls disabled, bad number, provider error. *)
DialFails(f) ==
  /\ pc[f] = "dial"
  /\ Respond(f, "failed")
  /\ Goto(f, "record")
  /\ UNCHANGED <<taskVars, run, redis, prefect, job, seen, counted, verdict,
                 late, calls, done, leaked>>

EndLocalCall(f) ==
  /\ pc[f] = "calling"
  /\ CallOver(job[f])
  /\ \E r \in {"completed", "failed"} : Respond(f, r)
  /\ Goto(f, "record")
  /\ UNCHANGED <<taskVars, run, redis, prefect, job, seen, counted, verdict,
                 late, done, leaked>>

(* Step 6: one unconditional status write, whatever the status is by now.  *)
RecordCompleted(f) ==
  /\ pc[f] = "record" /\ response[f] = "completed"
  /\ SetStatus(job[f], "completed")
  /\ done' = [done EXCEPT ![job[f]] = TRUE]
  /\ Goto(f, "dedup")
  /\ UNCHANGED <<retry, error, run, redis, prefect, locals, calls, leaked>>

RecordInProgress(f) ==
  /\ pc[f] = "record" /\ response[f] = "in_progress"
  /\ SetStatus(job[f], "in_progress")
  /\ Goto(f, "release") \/ (Raises /\ Goto(f, "except"))
  /\ UNCHANGED <<retry, error, run, redis, prefect, locals, calls, done, leaked>>

(* Variant: a failed call writes its error but leaves the status alone.    *)
RecordErrorOnly(f) ==
  /\ pc[f] = "record" /\ response[f] = "failed"
  /\ \E e \in Errors \ {"none", "max_retries"} : error' = [error EXCEPT ![job[f]] = e]
  /\ Goto(f, "tally")
  /\ UNCHANGED <<status, retry, run, redis, prefect, locals, calls, done, leaked>>

RecordFailed(f) ==
  /\ pc[f] = "record" /\ response[f] = "failed"
  /\ SetStatus(job[f], "failed")
  /\ \E e \in Errors \ {"none", "max_retries"} : error' = [error EXCEPT ![job[f]] = e]
  /\ Goto(f, "tally")
  /\ UNCHANGED <<retry, run, redis, prefect, locals, calls, done, leaked>>

(* _mark_task_in_dedup_cache; the webhook, thread and call-log writes that *)
(* follow do not touch the state modelled here.                            *)
MarkDedup(f) ==
  /\ pc[f] = "dedup"
  /\ \/ dedup' = [dedup EXCEPT ![job[f]] = TRUE]
     \/ Raises /\ UNCHANGED dedup
  /\ Goto(f, "tally")
  /\ UNCHANGED <<taskVars, run, lock, workers, prefect, locals, calls, done, leaked>>

-----------------------------------------------------------------------------
(* check_and_update_run_status: what the tasks read say of the run ...     *)
RunVerdict(st) ==
  IF \A t \in Tasks : st[t] = "failed" THEN "failed"
  ELSE IF \A t \in Tasks : st[t] = "completed" THEN "completed"
  ELSE IF \A t \in Tasks : st[t] \in {"completed", "failed"} THEN "partially_completed"
  ELSE "none"

Tally(f) ==
  /\ pc[f] = "tally"
  /\ \/ /\ RunVerdict(status) \notin {"none", run}
        /\ verdict' = [verdict EXCEPT ![f] = RunVerdict(status)]
        /\ Goto(f, "runwrite")
     \/ /\ RunVerdict(status) \in {"none", run} \/ Raises
        /\ Goto(f, "release")
        /\ UNCHANGED verdict
  /\ UNCHANGED <<taskVars, run, redis, prefect, job, seen, counted, response,
                 late, calls, done, leaked>>

(* ... and the unconditional write of it; an exception is swallowed.       *)
WriteRun(f) ==
  /\ pc[f] = "runwrite"
  /\ run' = verdict[f] \/ (Raises /\ UNCHANGED run)
  /\ Goto(f, "release")
  /\ UNCHANGED <<taskVars, redis, prefect, locals, calls, done, leaked>>

-----------------------------------------------------------------------------
(* Any call of the try body may raise, but for what the run's update does  *)
(* itself.                                                                 *)
Raise(f) ==
  /\ Raises /\ pc[f] \in TryBody \ {"runwrite"}
  /\ Goto(f, "except")
  /\ IF pc[f] = "calling" THEN CallOver(job[f]) ELSE UNCHANGED calls
  /\ UNCHANGED <<taskVars, run, redis, prefect, locals, done, leaked>>

(* Variant: the handler deletes the lock, and the finally block again.     *)
ExceptReleases(f) ==
  /\ pc[f] = "except"
  /\ SetStatus(job[f], "failed")
  /\ lock' = [lock EXCEPT ![job[f]] = NoFlow]
  /\ Goto(f, "release")
  /\ UNCHANGED <<retry, error, run, dedup, workers, prefect, locals, calls,
                 done, leaked>>

(* The handler: its write may raise too, and is then given up.             *)
Except(f) ==
  /\ pc[f] = "except"
  /\ \/ /\ SetStatus(job[f], "failed")
        /\ \E e \in Errors \ {"none", "max_retries"} :
             error' = [error EXCEPT ![job[f]] = e]
     \/ UNCHANGED <<status, error>>
  /\ Goto(f, "release")
  /\ UNCHANGED <<retry, run, redis, prefect, locals, calls, done, leaked>>

(* finally: _release_task_lock deletes the key, whoever set it ...         *)
ReleaseLock(f) ==
  /\ pc[f] = "release"
  /\ \/ lock' = [lock EXCEPT ![job[f]] = NoFlow]
     \/ Raises /\ UNCHANGED lock
  /\ Goto(f, "decr")
  /\ UNCHANGED <<taskVars, run, dedup, workers, prefect, locals, calls, done, leaked>>

(* Variant: the unit is given back whether or not one was taken.           *)
DecrementAlways(f) ==
  /\ pc[f] = "decr"
  /\ LET p == Provider[job[f]] IN
       workers' = [workers EXCEPT ![p] = IF @ > 0 THEN @ - 1 ELSE 0]
  /\ Return(f)
  /\ UNCHANGED <<taskVars, run, lock, dedup, prefect, calls, done, leaked>>

(* Variant: the counter is not clamped at zero.                            *)
DecrementUnclamped(f) ==
  /\ pc[f] = "decr"
  /\ LET p == Provider[job[f]] IN
       workers' = IF counted[f] THEN [workers EXCEPT ![p] = @ - 1] ELSE workers
  /\ Return(f)
  /\ UNCHANGED <<taskVars, run, lock, dedup, prefect, calls, done, leaked>>

(* Variant: the unit is given back only once a call has been answered.     *)
DecrementAnswered(f) ==
  /\ pc[f] = "decr"
  /\ LET p == Provider[job[f]] IN
       workers' = IF counted[f] /\ response[f] # "none" /\ workers[p] > 0
                  THEN [workers EXCEPT ![p] = @ - 1] ELSE workers
  /\ Return(f)
  /\ UNCHANGED <<taskVars, run, lock, dedup, prefect, calls, done, leaked>>

(* ... and _decrement_redis_counter, clamped at zero: DECR and the SET of a *)
(* negative result are one step here.                                      *)
Decrement(f) ==
  /\ pc[f] = "decr"
  /\ LET p == Provider[job[f]] IN
       \/ /\ workers' = IF counted[f] /\ workers[p] > 0
                        THEN [workers EXCEPT ![p] = @ - 1] ELSE workers
          /\ UNCHANGED leaked
       \/ /\ Raises /\ counted[f] /\ leaked[p] < MaxLeaks
          /\ leaked' = [leaked EXCEPT ![p] = @ + 1]
          /\ UNCHANGED workers
  /\ Return(f)
  /\ UNCHANGED <<taskVars, run, lock, dedup, prefect, calls, done>>

-----------------------------------------------------------------------------
(* The environment: faults, timers, and the far end of the call.           *)

(* The worker process dies: no handler and no finally runs, and a call it  *)
(* was running itself dies with it.                                        *)
Crash(f) ==
  /\ "crash" \in Faults /\ pc[f] # "idle"
  /\ LET p == Provider[job[f]] IN
       IF counted[f]
       THEN /\ leaked[p] < MaxLeaks
            /\ leaked' = [leaked EXCEPT ![p] = @ + 1]
       ELSE UNCHANGED leaked
  /\ IF pc[f] = "calling" THEN CallOver(job[f]) ELSE UNCHANGED calls
  /\ Return(f)
  /\ UNCHANGED <<taskVars, run, redis, prefect, done>>

(* The lock's 900 s run out.  Without an overrun that is after its holder  *)
(* has stopped working on the task, without having deleted it.             *)
LockExpires(t) ==
  /\ lock[t] # NoFlow
  /\ "overrun" \in Faults \/ ~InSection(lock[t], t)
  /\ lock' = [lock EXCEPT ![t] = NoFlow]
  /\ UNCHANGED <<taskVars, run, dedup, workers, prefect, pc, locals, calls, done, leaked>>

(* The deduplication key's hour runs out.                                  *)
DedupExpires(t) ==
  /\ "evict" \in Faults /\ dedup[t]
  /\ dedup' = [dedup EXCEPT ![t] = FALSE]
  /\ UNCHANGED <<taskVars, run, lock, workers, prefect, pc, locals, calls, done, leaked>>

(* A call placed at vapi or livekit ends.                                  *)
HangUp(t) ==
  /\ Provider[t] # "pipecat"
  /\ \/ /\ current[t]
        /\ current' = [current EXCEPT ![t] = FALSE]
        /\ UNCHANGED orphans
     \/ /\ orphans[t] > 0
        /\ orphans' = [orphans EXCEPT ![t] = @ - 1]
        /\ UNCHANGED current
  /\ UNCHANGED <<taskVars, run, redis, prefect, pc, locals, done, leaked>>

-----------------------------------------------------------------------------
(* One step of the activity in slot f, faults aside.                       *)
Activity(f) ==
  \/ CheckDedup(f) \/ AcquireLock(f) \/ ReadTask(f) \/ CompareAndSet(f)
  \/ GiveUp(f) \/ Defer(f) \/ Reschedule(f) \/ Increment(f)
  \/ Dial(f) \/ DialLost(f) \/ DialFails(f) \/ EndLocalCall(f)
  \/ RecordCompleted(f) \/ RecordInProgress(f) \/ RecordFailed(f)
  \/ MarkDedup(f) \/ Tally(f) \/ WriteRun(f)
  \/ Except(f) \/ ReleaseLock(f) \/ Decrement(f)

FlowStep == \E f \in Flows :
  Activity(f) \/ Raise(f) \/ Crash(f) \/ \E t \in Tasks : Start(f, t)

TimerStep == \E t \in Tasks : LockExpires(t) \/ DedupExpires(t) \/ HangUp(t)

Next == FlowStep \/ TimerStep \/ \E t \in Tasks : Trigger(t) \/ ComesDue(t)

Spec == Init /\ [][Next]_vars

(* The scheduling the code can count on: Prefect keeps starting waiting    *)
(* runs in idle slots, a slot keeps executing its activity, Redis expires  *)
(* keys, calls end, and a run delayed to the opening hour comes due.       *)
(* Business hours are open again and again when the activity looks.        *)
Fairness ==
  /\ \A f \in Flows : WF_vars(Activity(f)) /\ SF_vars(Increment(f))
  /\ \A t \in Tasks :
       /\ SF_vars(\E f \in Flows : Start(f, t))
       /\ WF_vars(LockExpires(t)) /\ WF_vars(HangUp(t)) /\ SF_vars(ComesDue(t))

FairSpec == Spec /\ Fairness

-----------------------------------------------------------------------------
(* Properties.                                                             *)

TypeOK ==
  /\ status \in [Tasks -> Statuses]
  /\ retry \in [Tasks -> Nat]
  /\ error \in [Tasks -> Errors]
  /\ run \in RunStatuses
  /\ lock \in [Tasks -> Flows \cup {NoFlow}]
  /\ dedup \in [Tasks -> BOOLEAN]
  /\ workers \in [Providers -> Nat]
  /\ queued \in [Tasks -> Nat]
  /\ delayed \in [Tasks -> Nat]
  /\ pc \in [Flows -> Points]
  /\ job \in [Flows -> Tasks \cup {NoTask}]
  /\ \A f \in Flows : pc[f] # "idle" => job[f] \in Tasks
  /\ seen \in [Flows -> Nat]
  /\ counted \in [Flows -> BOOLEAN]
  /\ response \in [Flows -> Responses]
  /\ verdict \in [Flows -> RunStatuses \cup {"none"}]
  /\ \A f \in Flows : pc[f] = "runwrite" => verdict[f] \in RunStatuses
  /\ current \in [Tasks -> BOOLEAN]
  /\ orphans \in [Tasks -> Nat]
  /\ done \in [Tasks -> BOOLEAN]
  /\ late \in [Flows -> BOOLEAN]
  /\ leaked \in [Providers -> Nat]

(* The lock does what its docstring says, "exclusive distributed lock for  *)
(* task execution": two flow runs are never inside the activity of one     *)
(* task, as long as no activity outlives the lock's TTL, through crashes   *)
(* and raised exceptions and although the release deletes the key          *)
(* without looking whose it is.                                            *)
SectionExclusive ==
  \A f, g \in Flows, t \in Tasks : InSection(f, t) /\ InSection(g, t) => f = g

(* A pipecat call runs inside the worker that holds the task's lock, so    *)
(* one customer never has two pipecat calls of one task at a time.         *)
LocalCallExclusive ==
  \A t \in Tasks : Provider[t] = "pipecat" => orphans[t] = 0

(* As long as no call raises, the provider counter is exactly the number   *)
(* of slots between their increment and their decrement, plus one for      *)
(* every worker process that died in between: no early return and no       *)
(* competing run leaks a unit or gives one back twice.  With calls that    *)
(* raise it may fall short: an increment that failed is swallowed, and the *)
(* activity gives back a unit all the same, which is another one's.        *)
Counting(p) == {f \in Flows : counted[f] /\ Provider[job[f]] = p}
WorkersAccount ==
  \A p \in Providers : workers[p] = Cardinality(Counting(p)) + leaked[p]

(* Whatever raises, and however long an activity takes, the counter never  *)
(* stands above the slots that hold a unit, plus the decrements that never *)
(* happened because the worker died or Redis failed: every exception path  *)
(* of the activity gives its unit back.                                    *)
NoUnitLeaks ==
  \A p \in Providers : workers[p] <= Cardinality(Counting(p)) + leaked[p]

(* The status and the deduplication key together stop every flow run that  *)
(* starts after an activity has recorded the task as completed, even when  *)
(* a competing run that started earlier overwrites the status afterwards.  *)
LateFlowSkips ==
  \A f \in Flows : late[f] => pc[f] \in {"idle", "check"}

(* No task is lost: a task in processing or scheduled has a flow run at    *)
(* work on it, or one that waits or will come due, as long as no worker    *)
(* process dies, no call raises and no run is created for a later time.    *)
NotAbandoned ==
  \A t \in Tasks : status[t] \in {"processing", "scheduled"} =>
    \/ queued[t] > 0 \/ delayed[t] > 0
    \/ \E f \in Flows : job[f] = t

(* What an activity takes up (pending to processing) reaches a status the  *)
(* rest of the system acts on, however often it is deferred.               *)
TaskResolved ==
  \A t \in Tasks : status[t] = "processing" ~> status[t] # "processing"

(* What the abstract task promises (see TaskWork): it has one worker at a  *)
(* time, only that worker starts its pipecat call and records it as        *)
(* completed, and the worker leaves neither before the call is over.       *)
Worker(t) == IF \E f \in Flows : InSection(f, t)
             THEN CHOOSE f \in Flows : InSection(f, t) ELSE NoFlow
Work == INSTANCE TaskWork WITH
  Workers  <- Flows,
  Nobody   <- NoFlow,
  worker   <- [t \in Tasks |-> Worker(t)],
  talking  <- [t \in Tasks |-> Provider[t] = "pipecat" /\ current[t]],
  finished <- done
OneWorkerPerTask == Work!Spec

(* Why these hold: the facts the proofs carry along (CallTask_proofs).     *)

(* A slot between taking and deleting a task's lock is who the lock names. *)
LockHeld == \A f \in Flows : pc[f] \in Section => lock[job[f]] = f

(* A pipecat call in progress has its worker waiting for its end.          *)
LocalCallAttended ==
  \A t \in Tasks : Provider[t] = "pipecat" =>
    /\ orphans[t] = 0
    /\ current[t] => \E f \in Flows : pc[f] = "calling" /\ job[f] = t

(* Only a slot past the increment has a unit to give back.                 *)
CountedAfterIncrement ==
  \A f \in Flows : counted[f] =>
    pc[f] \in (Section \ {"read", "cas", "gate", "reschedule"}) \cup {"decr"}

(* A completed task is in the deduplication cache, or about to be and      *)
(* still completed.                                                        *)
DoneIsMarked ==
  /\ \A t \in Tasks : done[t] =>
       \/ dedup[t]
       \/ /\ status[t] = "completed"
          /\ \E f \in Flows : pc[f] = "dedup" /\ job[f] = t
  /\ \A f \in Flows : late[f] => pc[f] = "check" /\ done[job[f]]

(* Without crashes and exceptions the lock names a slot at work: a flow    *)
(* run that is turned away leaves the task to somebody.                    *)
LockNamesHolder == \A t \in Tasks : lock[t] # NoFlow => InSection(lock[t], t)

(* An activity ends with the task in a status others act on, or with a     *)
(* delayed flow run that has yet to come due.                              *)
Settled(t) == status[t] \notin {"pending", "processing", "scheduled"}
ActivitySettles ==
  /\ \A t \in Tasks : dedup[t] => Settled(t)
  /\ \A f \in Flows :
       /\ pc[f] \in {"dedup", "tally", "runwrite"} => Settled(job[f])
       /\ pc[f] = "release" => Settled(job[f]) \/ delayed[job[f]] > 0
       /\ pc[f] # "except"

(* Until then the task has a flow run that is not about to leave it.       *)
InHand ==
  \A t \in Tasks : status[t] \in {"processing", "scheduled"} =>
    \/ queued[t] > 0 \/ delayed[t] > 0
    \/ \E f \in Flows : job[f] = t /\ pc[f] \notin {"idle", "decr"}

-----------------------------------------------------------------------------
(* What the source says of itself and does not do.                         *)

(* "Use this method to ensure only one worker processes a task": the       *)
(* transition from pending to processing admits one activity, so a task    *)
(* never has two calls in progress.  Refuted by the code for vapi and      *)
(* livekit.                                                                *)
AtMostOneCall == \A t \in Tasks : orphans[t] = 0
=============================================================================
