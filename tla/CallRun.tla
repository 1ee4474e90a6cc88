------------------------------ MODULE CallRun ------------------------------
(***************************************************************************)
(* A run of call tasks: the activities of CallTask together with what puts *)
(* tasks to work and back to work.                                         *)
(*   - the status cron (VapiCallUpdater.run, update_calls_v2.py): asks     *)
(*     vapi for the calls in progress, then looks after pending runs;      *)
(*   - the flows "Check Reschedule Run" and "Execute Run" of               *)
(*     prefect_task_consumer.py;                                           *)
(*   - get_pending_tasks and mark_task_status of TaskService, which all    *)
(*     three go through.                                                   *)
(* Each of them is a scanner: it reads documents at one time and writes    *)
(* over them, unconditionally, at another; image is what it has read.      *)
(***************************************************************************)
EXTENDS CallTask

CONSTANTS
  Scanners,      (* the cron process and the slots for run flows           *)
  Cron,          (* the scanner that is the cron                           *)
  NoImage,       (* nothing to decide about a task                         *)
  CronRetries,   (* VapiCallUpdater.max_retries                            *)
  RejectRetries, (* USER_REJECT_RETRY                                      *)
  Mortal,        (* scanners that may die or fail at any step              *)
  MaxAttempts    (* bound: retry_attempt is counted no further             *)

ASSUME RunAssumption ==
  /\ Cron \in Scanners /\ Mortal \subseteq Scanners
  /\ CronRetries \in Nat /\ RejectRetries \in Nat
  /\ MaxAttempts \in Nat /\ MaxAttempts >= MaxRetries

VARIABLES
  aged,     \* processing for more than IN_PROGRESS_HOLD_MINUTES
  named,    \* a record in progress names the call last placed
  runs,     \* an "Execute Run" flow run waits
  checks,   \* a "Check Reschedule Run" flow run waits
  later,    \* the Execute-Task flow runs the cron has delayed: of each, the
            \* slots at work on the task then that are still at it
  at,       \* what a scanner does next
  kind,     \* what it runs: cron, check or run
  image,    \* the task documents it has yet to decide about, as read
  listed,   \* the pending tasks it has read
  asked,    \* the cron has the run in hand
  ruling    \* the cron's local new_run_status

flowVars == <<runs, checks, later>>
cronVars == <<asked, ruling>>
scanVars == <<at, kind, image, listed, cronVars>>
docs     == <<taskVars, aged, named>>
runVars  == <<vars, aged, named, flowVars, scanVars>>
slotVars == <<redis, pc, locals, calls, done, leaked>>  \* an activity's own

(* The classifiers of TaskService, on the classes that tell decisions      *)
(* apart ("status" is both retryable and an API error).                    *)
RetryableErrors == {"retryable", "status"}
ApiErrors       == {"api", "status"}
Unanswered      == {"unanswered"}   \* did not answer, voicemail
Refused         == {"refused"}      \* busy, rejected, unavailable

ScanPoints == {"idle", "poll", "tally", "runwrite", "list", "scan", "mark",
               "count"}

(* error: of a failed task, the class of its failure;                      *)
(* older: the call the document names is not the one last placed;          *)
(* aged: its last_status_change is IN_PROGRESS_HOLD_MINUTES ago by now;    *)
(* step: what has been done about the task and is not complete: later, the *)
(* cron has written scheduled; redial, the post-call workflow has; created,*)
(* the workflow has created the flow run for the redial as well.           *)
Image == [status : Statuses, retry : Nat, error : Errors, older : BOOLEAN,
          aged : BOOLEAN, step : {"read", "later", "redial", "created"}]
ASSUME ImageAssumption == NoImage \notin Image
Read(t) == [status |-> status[t], retry |-> retry[t],
            error |-> IF status[t] = "failed" THEN error[t] ELSE "none",
            older |-> ~named[t], aged |-> aged[t], step |-> "read"]
Nothing == [t \in Tasks |-> NoImage]

(* What a scanner reads: the tasks it will look at, in one query.          *)
Snapshot(S) == [t \in Tasks |-> IF t \in S THEN Read(t) ELSE NoImage]

Move(s, p) == at' = [at EXCEPT ![s] = p]
Decided(s, t) == image' = [image EXCEPT ![s][t] = NoImage]
HasDone(s, t, step) == image' = [image EXCEPT ![s][t].step = step]

(* get_pending_tasks is about to return.                                   *)
Marked(s) == at[s] = "mark" /\ image[s] = Nothing

(* A slot's flow run is over.                                              *)
Leave(s) == Move(s, "idle") /\ kind' = [kind EXCEPT ![s] = "none"]

(* One write of status, retry_attempt and error over whatever is there.    *)
Overwrite(t, st, r, e) ==
  /\ SetStatus(t, st)
  /\ retry' = [retry EXCEPT ![t] = IF r < MaxAttempts THEN r ELSE MaxAttempts]
  /\ error' = [error EXCEPT ![t] = e]
  /\ aged' = [aged EXCEPT ![t] = FALSE] /\ named' = [named EXCEPT ![t] = TRUE]

RunInit ==
  /\ Init
  /\ retry = [t \in Tasks |-> 0]
  /\ aged = [t \in Tasks |-> FALSE] /\ named = [t \in Tasks |-> TRUE]
  /\ runs = TRUE /\ checks = FALSE   \* the API triggers the first Execute Run
  /\ later = [t \in Tasks |-> {}]
  /\ at = [s \in Scanners |-> "idle"]
  /\ kind = [s \in Scanners |-> IF s = Cron THEN "cron" ELSE "none"]
  /\ image = [s \in Scanners |-> Nothing]
  /\ listed = [s \in Scanners |-> {}]
  /\ asked = FALSE /\ ruling = "none"

-----------------------------------------------------------------------------
(* The cron's first half: calls that have ended.                           *)

(* get_all_tasks: the tasks in progress whose record names a vapi call.    *)
StartCron ==
  /\ at[Cron] = "idle"
  /\ LET InProgress == {t \in Tasks : Provider[t] = "vapi" /\ status[t] = "in_progress"} IN
       /\ image' = [image EXCEPT ![Cron] = Snapshot(InProgress)]
       /\ asked' = (InProgress # {})
  /\ Move(Cron, "poll")
  /\ UNCHANGED <<docs, run, slotVars, prefect, flowVars, kind, listed, ruling>>

Polling(t, step) == at[Cron] = "poll" /\ image[Cron][t] # NoImage
                    /\ image[Cron][t].step = step

(* The call the cron has read of may have ended.                           *)
Ended(t) == ~current[t] \/ image[Cron][t].older

(* The call is not over, vapi does not answer, or the call has ended for   *)
(* the one reason that is passed over (sip-completed-call); or the cron is *)
(* stopped halfway by an exception, which it swallows.                     *)
StillOn(t) ==
  /\ Polling(t, "read") \/ (Raises /\ \E step \in {"redial", "created"} : Polling(t, step))
  /\ Decided(Cron, t)
  /\ UNCHANGED <<docs, run, slotVars, prefect, flowVars, at, kind, listed,
                 cronVars>>

(* It ended with a retryable error: mark_pending_for_error.                *)
CallRetry(t) ==
  /\ Polling(t, "read") /\ Ended(t)
  /\ image[Cron][t].retry < CronRetries
  /\ Overwrite(t, "pending", image[Cron][t].retry + 1, error[t])
  /\ Decided(Cron, t)
  /\ UNCHANGED <<run, slotVars, prefect, flowVars, at, kind, listed, cronVars>>

(* The customer did not take it: mark_call_to_schedule writes scheduled ...*)
CallAgainLater(t) ==
  /\ Polling(t, "read") /\ Ended(t)
  /\ image[Cron][t].retry < CronRetries
  /\ Overwrite(t, "scheduled", image[Cron][t].retry + 1, error[t])
  /\ HasDone(Cron, t, "later")
  /\ UNCHANGED <<run, slotVars, prefect, flowVars, at, kind, listed, cronVars>>

(* Variant: no delayed flow run is created.                                *)
CreateNothing(t) ==
  /\ Polling(t, "later")
  /\ Decided(Cron, t)
  /\ UNCHANGED <<docs, run, slotVars, prefect, flowVars, at, kind, listed,
                 cronVars>>

(* ... and then creates the delayed flow run, VAPI_RESCHEDULE_TIME ahead.  *)
CreateDelayed(t) ==
  /\ Polling(t, "later")
  /\ \/ later' = [later EXCEPT ![t] = @ \cup {{f \in Flows : InSection(f, t)}}]
     \/ Raises /\ UNCHANGED later
  /\ Decided(Cron, t)
  /\ UNCHANGED <<docs, run, slotVars, prefect, runs, checks, at, kind, listed,
                 cronVars>>

(* It comes due.  For the cron's that is the 15 minutes of the lock's TTL  *)
(* later or more: without an overrun no slot is still at work that was     *)
(* when it was made.                                                       *)
LaterDue(t) ==
  /\ \E ahead \in later[t] :
       /\ ahead = {} \/ "overrun" \in Faults
       /\ later' = [later EXCEPT ![t] = @ \ {ahead}]
  /\ queued' = Add(queued, t)
  /\ UNCHANGED <<docs, run, slotVars, delayed, runs, checks, scanVars>>

(* Either of them once too often: mark_failed_max_retries.                 *)
CallGivenUp(t) ==
  /\ Polling(t, "read") /\ Ended(t)
  /\ image[Cron][t].retry >= CronRetries
  /\ Overwrite(t, "failed", image[Cron][t].retry + 1, "max_retries")
  /\ Decided(Cron, t)
  /\ UNCHANGED <<run, slotVars, prefect, flowVars, at, kind, listed, cronVars>>

(* Any other end: the post-call workflow, and the task is completed,       *)
(* whatever the workflow has written.                                      *)
CallCompleted(t) ==
  /\ (Polling(t, "read") /\ Ended(t)) \/ Polling(t, "created")
  /\ Overwrite(t, "completed", retry[t], error[t])
  /\ Decided(Cron, t)
  /\ UNCHANGED <<run, slotVars, prefect, flowVars, at, kind, listed, cronVars>>

-----------------------------------------------------------------------------
(* The cron's second half: check_pending_runs.                             *)

Query ==
  /\ at[Cron] = "poll" /\ image[Cron] = Nothing
  /\ \/ run = "pending" /\ Move(Cron, "tally") /\ asked' = TRUE
     \/ run # "pending" /\ asked /\ Move(Cron, "count") /\ UNCHANGED asked
     \/ run # "pending" /\ ~asked /\ Move(Cron, "idle") /\ UNCHANGED asked
  /\ UNCHANGED <<docs, run, slotVars, prefect, flowVars, kind, image,
                 listed, ruling>>

(* Variant: a run without a verdict is written as well.                    *)
CronTallyBlind ==
  /\ at[Cron] = "tally"
  /\ IF RunVerdict(status) # run
     THEN ruling' = RunVerdict(status) /\ Move(Cron, "runwrite")
     ELSE UNCHANGED ruling /\ Move(Cron, "list")
  /\ UNCHANGED <<docs, run, slotVars, prefect, flowVars, kind, image, listed,
                 asked>>

(* check_and_update_run_status, as in the activity.                        *)
CronTally ==
  /\ at[Cron] = "tally"
  /\ \/ /\ RunVerdict(status) \notin {"none", run}
        /\ ruling' = RunVerdict(status)
        /\ Move(Cron, "runwrite")
     \/ /\ RunVerdict(status) \in {"none", run} \/ Raises
        /\ Move(Cron, "list")
        /\ UNCHANGED ruling
  /\ UNCHANGED <<docs, run, slotVars, prefect, flowVars, kind, image,
                 listed, asked>>

CronWriteRun ==
  /\ at[Cron] = "runwrite"
  /\ run' = ruling
  /\ ruling' = "none"
  /\ Move(Cron, "list")
  /\ UNCHANGED <<docs, slotVars, prefect, flowVars, kind, image, listed,
                 asked>>

(* check_pending_retry and check_running_flow: pending tasks of a run that *)
(* no flow is seen to work for get a "Check Reschedule Run".  The filters  *)
(* go by name and state and do not see every flow.                         *)
RunFlow(s) == kind[s] \in {"run", "scheduled"}
Busy == \/ runs \/ \E s \in Scanners : at[s] # "idle" /\ RunFlow(s)
        \/ \E t \in Tasks : queued[t] > 0 \/ delayed[t] > 0 \/ later[t] # {}
        \/ \E f \in Flows : pc[f] # "idle"

Count ==
  /\ at[Cron] = "count" \/ Marked(Cron)
  /\ \/ /\ \E t \in Tasks : status[t] = "pending"
        /\ checks' = TRUE
     \/ /\ (\A t \in Tasks : status[t] # "pending") \/ Busy \/ Raises
        /\ UNCHANGED checks
  /\ Move(Cron, "idle")
  /\ asked' = FALSE
  /\ UNCHANGED <<docs, run, slotVars, prefect, runs, later, kind, image, listed,
                 ruling>>

-----------------------------------------------------------------------------
(* The run flows.                                                          *)

(* A slot starts a waiting flow run.                                       *)
StartCheck(s) ==
  /\ s # Cron /\ at[s] = "idle" /\ checks
  /\ checks' = FALSE
  /\ kind' = [kind EXCEPT ![s] = "check"]
  /\ Move(s, "list")
  /\ UNCHANGED <<docs, run, slotVars, prefect, runs, later, image, listed, cronVars>>

(* process_run_flow leaves a completed run alone, and keeps in mind        *)
(* whether the run is a scheduled one.                                     *)
StartRun(s) ==
  /\ s # Cron /\ at[s] = "idle" /\ runs
  /\ runs' = FALSE
  /\ IF run = "completed" THEN UNCHANGED <<at, kind>>
     ELSE /\ Move(s, "list")
          /\ kind' = [kind EXCEPT ![s] = IF run = "scheduled" THEN run ELSE "run"]
  /\ UNCHANGED <<docs, run, slotVars, prefect, checks, later, image, listed,
                 cronVars>>

(* Variant: no "Execute Run" is created.                                   *)
AfterCheckNothing(s) ==
  /\ Marked(s) /\ kind[s] = "check"
  /\ listed' = [listed EXCEPT ![s] = {}]
  /\ Leave(s)
  /\ UNCHANGED <<docs, run, slotVars, prefect, flowVars, image, cronVars>>

(* check_reschedule_run: an "Execute Run" for the pending tasks listed,    *)
(* five minutes later.                                                     *)
AfterCheck(s) ==
  /\ Marked(s) /\ kind[s] = "check"
  /\ runs' = (runs \/ listed[s] # {})
  /\ listed' = [listed EXCEPT ![s] = {}]
  /\ Leave(s)
  /\ UNCHANGED <<docs, run, slotVars, prefect, checks, later, image, cronVars>>

(* process_run_flow: an Execute-Task for every pending task listed, one    *)
(* after the other.                                                        *)
TriggerTask(s, t) ==
  /\ Marked(s) /\ RunFlow(s) /\ t \in listed[s]
  /\ \/ queued' = Add(queued, t)
     \/ Raises /\ UNCHANGED queued
  /\ listed' = [listed EXCEPT ![s] = @ \ {t}]
  /\ IF listed[s] = {t} THEN Leave(s) ELSE UNCHANGED <<at, kind>>
  /\ UNCHANGED <<docs, run, slotVars, delayed, flowVars, image, cronVars>>

EndRun(s) ==
  /\ Marked(s) /\ RunFlow(s) /\ listed[s] = {}
  /\ Leave(s)
  /\ UNCHANGED <<docs, run, slotVars, prefect, flowVars, image, listed, cronVars>>

-----------------------------------------------------------------------------
(* Variant: the pending tasks are listed, whatever the run's status.       *)
ListPending(s) ==
  /\ at[s] = "list"
  /\ LET Pending == {t \in Tasks : status[t] = "pending"}
     IN listed' = [listed EXCEPT ![s] = IF s = Cron THEN {} ELSE Pending]
  /\ Move(s, "scan")
  /\ UNCHANGED <<docs, run, slotVars, prefect, flowVars, kind, image, cronVars>>

(* get_pending_tasks, of every scanner: the tasks listed are read first    *)
(* (the cron has no use for them), of a scheduled run the scheduled ones...*)
List(s) ==
  /\ at[s] = "list"
  /\ \/ /\ LET Wanted == IF kind[s] = "scheduled" THEN "scheduled" ELSE "pending"
               Found  == {t \in Tasks : status[t] = Wanted}
           IN listed' = [listed EXCEPT ![s] = IF s = Cron THEN {} ELSE Found]
        /\ Move(s, "scan")
     \/ Raises /\ Move(s, "mark") /\ UNCHANGED listed
  /\ UNCHANGED <<docs, run, slotVars, prefect, flowVars, kind, image, cronVars>>

(* Variant: only failed tasks are looked after.                            *)
ScanFailedOnly(s) ==
  /\ at[s] = "scan"
  /\ LET Actionable == {t \in Tasks : status[t] = "failed"}
     IN image' = [image EXCEPT ![s] = Snapshot(Actionable)]
  /\ Move(s, "mark")
  /\ UNCHANGED <<docs, run, slotVars, prefect, flowVars, kind, listed, cronVars>>

(* ... the tasks that may need a new status next; if that read fails, none *)
(* are listed ...                                                          *)
Scan(s) ==
  /\ at[s] = "scan"
  /\ LET Actionable == {t \in Tasks : status[t] \in {"failed", "processing"}}
     IN \/ image' = [image EXCEPT ![s] = Snapshot(Actionable)] /\ UNCHANGED listed
        \/ /\ Raises
           /\ listed' = [listed EXCEPT ![s] = {}]
           /\ UNCHANGED image
  /\ Move(s, "mark")
  /\ UNCHANGED <<docs, run, slotVars, prefect, flowVars, kind, cronVars>>

(* Variant: whatever failed is tried again.                                *)
MarksAny(im) == {"pending"}

(* ... and mark_task_status decides about each: which statuses it may      *)
(* write, from the document it was given and the time it is by now.        *)
Marks(im) ==
  IF im.status = "processing" THEN (IF im.aged THEN {"pending"} ELSE {})
  ELSE IF im.error \in RetryableErrors /\ im.retry < MaxRetries THEN {"pending"}
  ELSE IF im.error \in ApiErrors THEN {"completed"}
  ELSE IF im.error \in Unanswered /\ im.retry < RejectRetries THEN {"pending"}
  ELSE IF im.error \in Unanswered \cup Refused THEN {"completed"}
  ELSE {}

(* The post-call workflow that an API error leads to may come to nothing.  *)
ByWorkflow(im) == im.error \in ApiErrors /\ Marks(im) = {"completed"}
Undecided(im)  == Marks(im) = {} \/ Raises \/ (ByWorkflow(im) /\ im.step = "read")

Mark(s, t) ==
  /\ at[s] = "mark" /\ image[s][t] # NoImage /\ image[s][t].step # "redial"
  /\ LET im == image[s][t] IN
       \/ \E st \in Marks(im) :
            Overwrite(t, st, im.retry + 1,
                      IF st = "completed" /\ im.error \in ApiErrors THEN "none"
                      ELSE im.error)
       \/ Undecided(im) /\ UNCHANGED docs
  /\ Decided(s, t)
  /\ UNCHANGED <<run, slotVars, prefect, flowVars, at, kind, listed, cronVars>>

(* execute_post_call_workflow, for a call the cron sees ended and for an   *)
(* API error: it may want the customer called again at once, and           *)
(* schedule_redial_task writes scheduled ...                               *)
Redial(s, t) ==
  /\ \/ s = Cron /\ Polling(t, "read") /\ Ended(t)
     \/ /\ at[s] = "mark" /\ image[s][t] # NoImage /\ image[s][t].step = "read"
        /\ ByWorkflow(image[s][t])
  /\ SetStatus(t, "scheduled")
  /\ aged' = [aged EXCEPT ![t] = FALSE] /\ named' = [named EXCEPT ![t] = TRUE]
  /\ HasDone(s, t, "redial")
  /\ UNCHANGED <<retry, error, run, slotVars, prefect, flowVars, at, kind,
                 listed, cronVars>>

(* ... and instant_redial creates a flow run two minutes ahead.            *)
CreateRedial(s, t) ==
  /\ at[s] \in {"poll", "mark"}
  /\ image[s][t] # NoImage /\ image[s][t].step = "redial"
  /\ \/ later' = [later EXCEPT ![t] = @ \cup {{}}] /\ HasDone(s, t, "created")
     \/ Raises /\ UNCHANGED later /\ Decided(s, t)
  /\ UNCHANGED <<docs, run, slotVars, prefect, runs, checks, at, kind, listed,
                 cronVars>>

-----------------------------------------------------------------------------
(* The environment.                                                        *)

(* A scanner's process dies, or an exception ends it.                      *)
ScanCrash(s) ==
  /\ s \in Mortal /\ at[s] # "idle"
  /\ IF s = Cron THEN Move(s, "idle") /\ UNCHANGED kind ELSE Leave(s)
  /\ image' = [image EXCEPT ![s] = Nothing]
  /\ listed' = [listed EXCEPT ![s] = {}]
  /\ IF s = Cron THEN asked' = FALSE /\ ruling' = "none" ELSE UNCHANGED cronVars
  /\ UNCHANGED <<docs, run, slotVars, prefect, flowVars>>

(* Fifteen minutes pass, for a task or for what a scan has read of it; an  *)
(* activity is over by then.                                               *)
AllOver(t) == "overrun" \in Faults \/ \A f \in Flows : ~InSection(f, t)

Age(t) ==
  /\ status[t] = "processing" /\ ~aged[t] /\ AllOver(t)
  /\ aged' = [aged EXCEPT ![t] = TRUE]
  /\ UNCHANGED <<vars, named, flowVars, scanVars>>

AgeRead(s, t) ==
  /\ image[s][t] # NoImage /\ image[s][t].status = "processing"
  /\ ~image[s][t].aged /\ AllOver(t)
  /\ image' = [image EXCEPT ![s][t].aged = TRUE]
  /\ UNCHANGED <<vars, aged, named, flowVars, at, kind, listed, cronVars>>

-----------------------------------------------------------------------------
CronStep ==
  \/ StartCron \/ Query \/ CronTally \/ CronWriteRun \/ Count
  \/ \E t \in Tasks : \/ StillOn(t) \/ CallRetry(t) \/ CallAgainLater(t)
                      \/ CreateDelayed(t) \/ CallGivenUp(t) \/ CallCompleted(t)

RunFlowStep(s) ==
  \/ List(s) \/ Scan(s) \/ AfterCheck(s) \/ EndRun(s)
  \/ \E t \in Tasks : \/ Mark(s, t) \/ TriggerTask(s, t)
                      \/ Redial(s, t) \/ CreateRedial(s, t)

ScanStep == CronStep \/ \E s \in Scanners :
  RunFlowStep(s) \/ StartCheck(s) \/ StartRun(s) \/ ScanCrash(s)

(* A step of an activity or its environment: it renews last_status_change  *)
(* with the status, and the document names a new call once that is         *)
(* recorded, whether or not the write then raises.  In an instance without *)
(* slots for run flows their place is taken by Trigger, as in CallTask.    *)
Redialled(t) == current'[t] /\ (~current[t] \/ orphans'[t] > orphans[t])
Recorded(t) == \E f \in Flows : job[f] = t /\ RecordInProgress(f)
ActivityStep ==
  /\ \/ FlowStep \/ TimerStep
     \/ \E t \in Tasks : ComesDue(t) \/ (Scanners = {Cron} /\ Trigger(t))
  /\ aged' = [t \in Tasks |-> aged[t] /\ status'[t] = "processing"]
  /\ named' = [t \in Tasks |-> \/ named[t] /\ ~Redialled(t)
                               \/ Recorded(t) \/ status'[t] # "in_progress"]
  /\ image' = [image EXCEPT ![Cron] = [t \in Tasks |->
       IF Polling(t, "read") /\ Redialled(t)
       THEN [image[Cron][t] EXCEPT !.older = TRUE] ELSE image[Cron][t]]]
  /\ later' = [t \in Tasks |->
       {{f \in ahead : InSection(f, t)'} : ahead \in later[t]}]
  /\ UNCHANGED <<runs, checks, at, kind, listed, cronVars>>

RunNext ==
  \/ ActivityStep \/ ScanStep
  \/ \E t \in Tasks : Age(t) \/ LaterDue(t) \/ \E s \in Scanners : AgeRead(s, t)

RunSpec == RunInit /\ [][RunNext]_runVars

(* Cron jobs are started again and again, Prefect starts waiting run flows *)
(* and everything started goes on; time passes.                            *)
RunFairness ==
  /\ Fairness
  /\ WF_runVars(CronStep)
  /\ \A s \in Scanners : WF_runVars(RunFlowStep(s))
  /\ SF_runVars(\E s \in Scanners : StartCheck(s))
  /\ SF_runVars(\E s \in Scanners : StartRun(s))
  /\ \A t \in Tasks : SF_runVars(Age(t)) /\ WF_runVars(LaterDue(t))

FairRunSpec == RunSpec /\ RunFairness

-----------------------------------------------------------------------------
(* Properties.                                                             *)

RecordsOK  == aged \in [Tasks -> BOOLEAN] /\ named \in [Tasks -> BOOLEAN]
RunFlowsOK == /\ runs \in BOOLEAN /\ checks \in BOOLEAN
              /\ later \in [Tasks -> SUBSET SUBSET Flows]
ScannersOK == /\ at \in [Scanners -> ScanPoints]
              /\ kind \in [Scanners -> {"cron", "check", "run", "scheduled", "none"}]
              /\ listed \in [Scanners -> SUBSET Tasks]
ImagesOK   == image \in [Scanners -> [Tasks -> Image \cup {NoImage}]]
RulingOK   == /\ asked \in BOOLEAN
              /\ ruling \in RunStatuses \cup {"none"}
              /\ at[Cron] = "runwrite" => ruling \in RunStatuses
RunTypeOK  == TypeOK /\ RecordsOK /\ RunFlowsOK /\ ScannersOK /\ ImagesOK /\ RulingOK

(* What _mark_task_permanently_failed means to say: a task given up after  *)
(* MAX_CALL_RETRIES attempts stays given up, through all the flow runs,    *)
(* polls and scans that still come by, once nobody acts any more on what   *)
(* it read before: no scanner on an older document, no activity on fewer   *)
(* attempts.                                                               *)
GivenUp(t) ==
  /\ status[t] = "failed" /\ error[t] = "max_retries" /\ retry[t] >= MaxRetries
  /\ \A s \in Scanners : image[s][t] # NoImage =>
       image[s][t].status = "failed" /\ image[s][t].error = "max_retries"
  /\ \A f \in Flows : InSection(f, t) =>
       /\ pc[f] \in {"read", "cas", "gate", "tally", "runwrite", "release"}
       /\ pc[f] \in {"cas", "gate"} => seen[f] >= MaxRetries
GivenUpForGood == [][\A t \in Tasks : GivenUp(t) => GivenUp(t)']_runVars

(* A scheduled task whose call would run at vapi or livekit comes back: if *)
(* the run was not created as scheduled, no call fails with an API error   *)
(* (the workflow of a run flow that dies then leaves a redial half made)   *)
(* and the cron lives, whatever the activities, the polls and the scans    *)
(* write over it and over each other, a delayed flow run is there, or has  *)
(* come due, or the cron is about to create it or to complete the task.    *)
Acting(t) == at[Cron] = "poll" /\ image[Cron][t] # NoImage
             /\ image[Cron][t].step # "read"
ScheduledComesBack ==
  \A t \in Tasks : Provider[t] # "pipecat" /\ status[t] = "scheduled" =>
    \/ queued[t] > 0 \/ delayed[t] > 0 \/ later[t] # {}
    \/ \E f \in Flows : job[f] = t
    \/ Acting(t)

(* A task left in processing by a worker that died does not stay there     *)
(* while its run is pending: the cron's scan finds it, however often       *)
(* workers die.                                                            *)
StuckIsRecovered == \A t \in Tasks :
  status[t] = "processing" ~> (status[t] # "processing" \/ run # "pending")

(* A pending task of a pending run gets another flow run, although the one *)
(* before it may have died at any step: the cron, a "Check Reschedule Run" *)
(* and an "Execute Run" together create it, and a slot starts it.          *)
PendingIsTaken == \A t \in Tasks :
  status[t] = "pending" ~>
    \/ status[t] # "pending" \/ run # "pending"
    \/ \E f \in Flows : job[f] = t

(* A run created for a later time is executed: an "Execute Run" that finds *)
(* it scheduled gives every task that is scheduled with it to a slot.      *)
ScheduledRunStarts == \A t \in Tasks :
  runs /\ run = "scheduled" /\ status[t] = "scheduled" ~>
    \/ status[t] # "scheduled" \/ run # "scheduled"
    \/ \E f \in Flows : job[f] = t

(* Why these hold: the facts the proofs carry along (CallRun_proofs).      *)

(* Only a call run by a worker is seen to complete by the activity, so     *)
(* only such a task is ever in the deduplication cache.                    *)
OnlyLocalsComplete ==
  /\ \A f \in Flows :
       pc[f] \in {"calling", "dedup"} \/ response[f] = "completed" =>
         pc[f] # "idle" /\ Local(f)
  /\ \A t \in Tasks : dedup[t] => Provider[t] = "pipecat"

(* A scheduled task has a flow run in sight, or an activity that has yet   *)
(* to write its status.                                                    *)
Deciding == {"check", "lock", "read", "cas", "gate", "reschedule", "dial",
             "calling", "record"}
InSight(t) ==
  \/ queued[t] > 0 \/ delayed[t] > 0 \/ later[t] # {} \/ Acting(t)
  \/ \E f \in Flows : job[f] = t /\ pc[f] \in Deciding

(* If an activity has written its status and still holds the lock, which   *)
(* turns flow runs away, the flow run in sight comes after it.             *)
Outlasts(t, f) ==
  \/ Acting(t)
  \/ \E ahead \in later[t] : f \in ahead
  \/ pc[f] = "release" /\ delayed[t] > 0
ScheduledInSight ==
  \A t \in Tasks : Provider[t] # "pipecat" /\ status[t] = "scheduled" =>
    /\ InSight(t)
    /\ \A f \in Flows : InSection(f, t) /\ pc[f] \notin Deciding => Outlasts(t, f)

-----------------------------------------------------------------------------
(* What the source says of itself and does not do.                         *)

(* "No action needed for completed tasks": a scan never changes the status *)
(* of a completed task.  Refuted by the code.                              *)
ScansKeepCompleted == [][\A s \in Scanners, t \in Tasks :
  Mark(s, t) /\ status[t] = "completed" => status'[t] = "completed"]_status
=============================================================================
