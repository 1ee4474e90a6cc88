------------------------------ MODULE PostCall ------------------------------
(***************************************************************************)
(* What follows a livekit call: the handlers that notice its end and        *)
(* trigger the post-call flow behind a flag and a Redis key, the flow that  *)
(* completes task and run, and the follow-up and redial calls it schedules, *)
(* which come back through Execute-Task.  The tasks are those of one        *)
(* contact and one run; follow-ups add to them.                             *)
(***************************************************************************)
EXTENDS Integers, FiniteSets

CONSTANTS
  Tasks,       \* bound: task documents there is room for
  First,       \* the task the run starts with
  Tools,       \* handlers the language model calls: end_call, voicemail
  Idlers,      \* handlers of silence
  Handovers,   \* handlers of the end of a handover
  Disconnect,  \* the handler of the end of the session
  Document,    \* get_doc_id finds or creates a document of the contact
  Flows,       \* bound: post-call flow runs at a time
  MaxRedials,  \* schedule_redial_task: redial_count (2)
  MaxCalls,    \* follow-ups: max_calls, the first call included (3)
  MaxFaults    \* bound on faults

Closers == Handovers \cup {Disconnect}
Ends == Tools \cup Idlers \cup Closers

ASSUME PostCallAssumption ==
  /\ First \in Tasks
  /\ Disconnect \notin Tools \cup Idlers \cup Handovers
  /\ Document \in BOOLEAN
  /\ MaxRedials \in Nat /\ MaxCalls \in Nat \ {0} /\ MaxFaults \in Nat

VARIABLES
  status,     \* status of each task document; "none" if there is none
  redials,    \* input.redial_count
  followups,  \* output.followup_count, 0 if the output has no such key
  parent,     \* output.referenced_task, the task itself if there is none
  ref,        \* ref_id is set: to the contact's document, for any task
  run,        \* status of the run document
  queue,      \* waiting flow runs of Execute-Task, per task
  act,        \* where the activity of a task is
  call,       \* the session of a task's latest call
  flag,       \* its post_call_triggered
  key,        \* the Redis key prefect:<task>
  end,        \* where each handler of the session is
  step, of, fresh,  \* post-call flows: where, of which task, new follow-up
  placed,     \* history: calls placed for each task
  asked,      \* history: redials scheduled for each task
  triggered,  \* history: post-call flows created for the latest call
  spoiled,    \* history: a fault, or a write that came late, hit the task
  faults

output   == <<followups, parent>>
docs     == <<status, redials, output, ref, run>>
session  == <<call, flag, end>>
flows    == <<step, of, fresh>>
history  == <<placed, asked, triggered>>
vars == <<docs, queue, act, session, key, flows, history, spoiled, faults>>

Init ==
  /\ status = [k \in Tasks |-> IF k = First THEN "pending" ELSE "none"]
  /\ redials = [k \in Tasks |-> 0]
  /\ followups = [k \in Tasks |-> 0]
  /\ parent = [k \in Tasks |-> k]
  /\ \E given \in {FALSE, Document} : ref = [k \in Tasks |-> k = First /\ given]
  /\ run = "pending"
  /\ queue = [k \in Tasks |-> IF k = First THEN 1 ELSE 0]
  /\ act = [k \in Tasks |-> "none"]
  /\ call = [k \in Tasks |-> "none"]
  /\ flag = [k \in Tasks |-> FALSE]
  /\ key = [k \in Tasks |-> FALSE]
  /\ end = [k \in Tasks |-> [e \in Ends |-> "idle"]]
  /\ step = [f \in Flows |-> "free"]
  /\ of = [f \in Flows |-> First]
  /\ fresh = [f \in Flows |-> First]
  /\ placed = [k \in Tasks |-> 0]
  /\ asked = [k \in Tasks |-> 0]
  /\ triggered = [k \in Tasks |-> 0]
  /\ spoiled = [k \in Tasks |-> FALSE]
  /\ faults = 0

SetStatus(k, s) == status' = [status EXCEPT ![k] = s]

(* TaskModel.update_one with an output replaces the whole output, and with  *)
(* it the followup_count and the referenced_task.                           *)
ReplaceOutput(k) ==
  /\ followups' = [followups EXCEPT ![k] = 0]
  /\ parent' = [parent EXCEPT ![k] = k]

Fault == faults < MaxFaults /\ faults' = faults + 1
-----------------------------------------------------------------------------
(* The activity, as far as it matters here (see CallTask). *)

(* Variant: a redialled or follow-up task is not taken up. *)
BeginPending(k) ==
  /\ queue[k] > 0 /\ act[k] = "none" /\ ~key[k]
  /\ call[k] \in {"none", "over"}
  /\ queue' = [queue EXCEPT ![k] = @ - 1]
  /\ IF status[k] # "pending"
     THEN UNCHANGED <<status, act>>
     ELSE SetStatus(k, "processing") /\ act' = [act EXCEPT ![k] = "dial"]
  /\ UNCHANGED <<redials, output, ref, run, session, key, flows, history, spoiled, faults>>

(* A flow run comes due and skips a completed task; the compare-and-set     *)
(* makes a pending task processing and leaves others as they are.  A redial *)
(* is due two minutes after its flow, when the key of 100 s has expired.    *)
Begin(k) ==
  /\ queue[k] > 0 /\ act[k] = "none" /\ ~key[k]
  /\ call[k] \in {"none", "over"}
  /\ queue' = [queue EXCEPT ![k] = @ - 1]
  /\ IF status[k] = "completed"
     THEN UNCHANGED <<status, act>>
     ELSE /\ status' = [status EXCEPT ![k] = IF @ = "pending" THEN "processing" ELSE @]
          /\ act' = [act EXCEPT ![k] = "dial"]
  /\ UNCHANGED <<redials, output, ref, run, session, key, flows, history, spoiled, faults>>

(* The call is dispatched: a new session with handlers of its own. *)
Dial(k) ==
  /\ act[k] = "dial"
  /\ act' = [act EXCEPT ![k] = "write"]
  /\ call' = [call EXCEPT ![k] = "on"]
  /\ flag' = [flag EXCEPT ![k] = FALSE]
  /\ end' = [end EXCEPT ![k] = [e \in Ends |-> "idle"]]
  /\ placed' = [placed EXCEPT ![k] = @ + 1]
  /\ triggered' = [triggered EXCEPT ![k] = 0]
  /\ UNCHANGED <<docs, queue, key, flows, asked, spoiled, faults>>

DialFails(k) ==
  /\ act[k] = "dial"
  /\ Fault
  /\ act' = [act EXCEPT ![k] = "none"]
  /\ SetStatus(k, "failed")
  /\ spoiled' = [spoiled EXCEPT ![k] = TRUE]
  /\ UNCHANGED <<redials, output, ref, run, queue, session, key, flows, history>>

(* The write of in_progress comes after the dispatch.  It spoils a task if  *)
(* the post-call flow of a short call has made its last write by then.      *)
RecordInProgress(k) ==
  /\ act[k] = "write"
  /\ act' = [act EXCEPT ![k] = "none"]
  /\ SetStatus(k, "in_progress")
  /\ LET over == /\ status[k] = "completed"
                 /\ \A f \in Flows : of[f] = k => step[f] \in {"free", "run"} IN
       spoiled' = [spoiled EXCEPT ![k] = @ \/ over]
  /\ UNCHANGED <<redials, output, ref, run, queue, session, key, flows, history, faults>>
-----------------------------------------------------------------------------
(* The handlers of the end of a call.  Result and key need no await, so a   *)
(* handler gets to the key in one step; the flow run is created in another. *)

(* The session ends: the customer hangs up, or the handover is over. *)
HangUp(k) ==
  /\ call[k] = "on"
  /\ call' = [call EXCEPT ![k] = "closing"]
  /\ UNCHANGED <<docs, queue, act, flag, key, end, flows, history, spoiled, faults>>

(* A handler is through, and disconnects; a tool sets the flag only now.    *)
Through(k, e) ==
  /\ end' = [end EXCEPT ![k][e] = "done"]
  /\ flag' = [flag EXCEPT ![k] = TRUE]
  /\ call' = [call EXCEPT ![k] = IF @ = "on" THEN "closing" ELSE @]

(* Variant: the key is not looked at. *)
ClaimAlways(k, e) ==
  /\ key' = [key EXCEPT ![k] = TRUE]
  /\ end' = [end EXCEPT ![k][e] = "triggering"]
  /\ flag' = [flag EXCEPT ![k] = @ \/ e \notin Tools]
  /\ UNCHANGED call

(* trigger_post_call: the first handler finds no key, sets it and goes on.  *)
Claim(k, e) ==
  IF key[k]
  THEN Through(k, e) /\ UNCHANGED key
  ELSE /\ key' = [key EXCEPT ![k] = TRUE]
       /\ end' = [end EXCEPT ![k][e] = "triggering"]
       /\ flag' = [flag EXCEPT ![k] = @ \/ e \notin Tools]
       /\ UNCHANGED call

(* A tool of the model does not look at the flag. *)
ToolEnds(k, e) ==
  /\ e \in Tools /\ call[k] = "on" /\ end[k][e] = "idle"
  /\ Claim(k, e)
  /\ UNCHANGED <<docs, queue, act, flows, history, spoiled, faults>>

(* _ensure_post_call_triggered, of the silence and of the end of a handover *)
(* or a session.                                                            *)
EnsureEnds(k, e) ==
  /\ \/ e \in Idlers /\ call[k] = "on"
     \/ e \in Closers /\ call[k] = "closing"
  /\ end[k][e] = "idle"
  /\ IF flag[k] THEN Through(k, e) /\ UNCHANGED key ELSE Claim(k, e)
  /\ UNCHANGED <<docs, queue, act, flows, history, spoiled, faults>>

(* The flow run is created.  If that fails, the exception is swallowed, and *)
(* flag and key tell the other handlers that all is done.                   *)
Trigger(k, e) ==
  /\ end[k][e] = "triggering"
  /\ Through(k, e)
  /\ \/ \E f \in Flows :
          /\ step[f] = "free"
          /\ step' = [step EXCEPT ![f] = "queued"]
          /\ of' = [of EXCEPT ![f] = k]
          /\ triggered' = [triggered EXCEPT ![k] = @ + 1]
          /\ UNCHANGED <<spoiled, faults>>
     \/ /\ Fault
        /\ spoiled' = [spoiled EXCEPT ![k] = TRUE]
        /\ UNCHANGED <<step, of, triggered>>
  /\ UNCHANGED <<docs, queue, act, key, fresh, placed, asked>>

(* The session is cleaned up when its disconnect handler is through.  Of    *)
(* the handlers still creating a flow run, the idle monitor is cancelled;   *)
(* the others are if the process ends with the session, or go on.           *)
CleanUp(k) ==
  /\ call[k] = "closing" /\ end[k][Disconnect] = "done"
  /\ call' = [call EXCEPT ![k] = "over"]
  /\ \E cancelled \in {Ends, Idlers} :
       /\ end' = [end EXCEPT ![k] = [e \in Ends |->
            IF end[k][e] = "triggering" /\ e \notin cancelled THEN "triggering" ELSE "done"]]
       /\ spoiled' = [spoiled EXCEPT ![k] =
            @ \/ \E e \in cancelled : end[k][e] = "triggering"]
  /\ UNCHANGED <<docs, queue, act, flag, key, flows, history, faults>>

(* The key expires after 100 s, in which the handler that set it is taken   *)
(* to have created the flow run.                                            *)
KeyExpires(k) ==
  /\ key[k]
  /\ \A e \in Ends : end[k][e] # "triggering"
  /\ key' = [key EXCEPT ![k] = FALSE]
  /\ UNCHANGED <<docs, queue, act, session, flows, history, spoiled, faults>>
-----------------------------------------------------------------------------
(* The post-call flow. *)
GoTo(f, s) == step' = [step EXCEPT ![f] = s]

Existing == {k \in Tasks : status[k] # "none"}

(* _get_logs: the tasks found by ref_id, or else by the contact's number.   *)
Logged == IF \E k \in Existing : ref[k] THEN {k \in Existing : ref[k]} ELSE Existing

(* A scheduled task that create_scheduled_task takes for a follow-up of k:  *)
(* one with the same ref_id, or, if k has none, one that references k.      *)
Duplicate(j, k) ==
  status[j] = "scheduled" /\ IF ref[k] THEN ref[j] ELSE j # k /\ parent[j] = k

(* The task is completed, with a provisional output. *)
Provisional(f) ==
  /\ step[f] = "queued"
  /\ SetStatus(of[f], "completed")
  /\ ReplaceOutput(of[f])
  /\ GoTo(f, "analyse")
  /\ UNCHANGED <<redials, ref, run, queue, act, session, key, of, fresh, history,
                 spoiled, faults>>

(* FollowUpAnalyzer suppresses a follow-up if one of the tasks logged counts *)
(* enough of them; else the language model decides.  Without a follow-up, a *)
(* dropped call may be redialled.                                           *)
Analyse(f) ==
  /\ step[f] = "analyse"
  /\ \/ /\ \A k \in Logged : followups[k] < MaxCalls - 1
        /\ Existing # Tasks
        /\ GoTo(f, "follow")
     \/ GoTo(f, "redial")
     \/ GoTo(f, "write")
  /\ UNCHANGED <<docs, queue, act, session, key, of, fresh, history, spoiled, faults>>

(* create_scheduled_task: one follow-up more than the task counts, unless   *)
(* that is too many or one is scheduled already.  The input is copied, and  *)
(* with it the count of redials; the new task has no ref_id.                *)
FollowUp(f) ==
  /\ step[f] = "follow"
  /\ LET count == followups[of[f]] + 1 IN
     \/ /\ count >= MaxCalls \/ \E k \in Tasks : Duplicate(k, of[f])
        /\ GoTo(f, "write")
        /\ UNCHANGED <<status, redials, output, fresh>>
     \/ /\ count < MaxCalls /\ ~\E k \in Tasks : Duplicate(k, of[f])
        /\ \E k \in Tasks \ Existing :
             /\ SetStatus(k, "scheduled")
             /\ followups' = [followups EXCEPT ![k] = count]
             /\ parent' = [parent EXCEPT ![k] = of[f]]
             /\ redials' = [redials EXCEPT ![k] = redials[of[f]]]
             /\ fresh' = [fresh EXCEPT ![f] = k]
        /\ GoTo(f, "hand")
  /\ UNCHANGED <<ref, run, queue, act, session, key, of, history, spoiled, faults>>

(* create_follow_up_task triggers the delayed run; a failure is swallowed. *)
HandOver(f) ==
  /\ step[f] = "hand"
  /\ GoTo(f, "write")
  /\ \/ /\ queue' = [queue EXCEPT ![fresh[f]] = @ + 1]
        /\ UNCHANGED <<spoiled, faults>>
     \/ /\ Fault
        /\ spoiled' = [spoiled EXCEPT ![fresh[f]] = TRUE]
        /\ UNCHANGED queue
  /\ UNCHANGED <<docs, act, session, key, of, fresh, history>>

(* Variant: the count is compared before this redial is added. *)
RedialUpTo(f) ==
  /\ step[f] = "redial"
  /\ LET k == of[f] IN
     IF redials[k] > MaxRedials
     THEN GoTo(f, "write") /\ UNCHANGED <<status, redials, asked>>
     ELSE /\ SetStatus(k, "scheduled")
          /\ redials' = [redials EXCEPT ![k] = @ + 1]
          /\ asked' = [asked EXCEPT ![k] = @ + 1]
          /\ GoTo(f, "again")
  /\ UNCHANGED <<output, ref, run, queue, act, session, key, of, fresh,
                 placed, triggered, spoiled, faults>>

(* schedule_redial_task. *)
Redial(f) ==
  /\ step[f] = "redial"
  /\ LET k == of[f] IN
     IF redials[k] + 1 > MaxRedials
     THEN GoTo(f, "write") /\ UNCHANGED <<status, redials, asked>>
     ELSE /\ SetStatus(k, "scheduled")
          /\ redials' = [redials EXCEPT ![k] = @ + 1]
          /\ asked' = [asked EXCEPT ![k] = @ + 1]
          /\ GoTo(f, "again")
  /\ UNCHANGED <<output, ref, run, queue, act, session, key, of, fresh,
                 placed, triggered, spoiled, faults>>

(* Variant: the flow of a call that is redialled goes on to its last steps. *)
AgainAndWrite(f) ==
  /\ step[f] = "again"
  /\ queue' = [queue EXCEPT ![of[f]] = @ + 1]
  /\ GoTo(f, "write")
  /\ UNCHANGED <<docs, act, session, key, of, fresh, history, spoiled, faults>>

(* instant_redial triggers the delayed run, and the flow returns.  If that  *)
(* fails, the flow goes on with an empty result and completes the task.     *)
Again(f) ==
  /\ step[f] = "again"
  /\ \/ /\ queue' = [queue EXCEPT ![of[f]] = @ + 1]
        /\ GoTo(f, "free")
        /\ UNCHANGED <<spoiled, faults>>
     \/ /\ Fault
        /\ spoiled' = [spoiled EXCEPT ![of[f]] = TRUE]
        /\ GoTo(f, "write")
        /\ UNCHANGED queue
  /\ UNCHANGED <<docs, act, session, key, of, fresh, history>>

(* update_task: the task, with the ref_id of the contact's document if one  *)
(* is found or created ...                                                  *)
WriteTask(f) ==
  /\ step[f] = "write"
  /\ SetStatus(of[f], "completed")
  /\ ReplaceOutput(of[f])
  /\ ref' = [ref EXCEPT ![of[f]] = @ \/ Document]
  /\ GoTo(f, "run")
  /\ UNCHANGED <<redials, run, queue, act, session, key, of, fresh, history, spoiled, faults>>

(* ... and the run. *)
WriteRun(f) ==
  /\ step[f] = "run"
  /\ run' = "completed"
  /\ GoTo(f, "free")
  /\ UNCHANGED <<status, redials, output, ref, queue, act, session, key, of, fresh,
                 history, spoiled, faults>>

(* The flow raises or is killed. *)
FlowDies(f) ==
  /\ step[f] # "free"
  /\ Fault
  /\ GoTo(f, "free")
  /\ spoiled' = [k \in Tasks |->
       spoiled[k] \/ k = of[f] \/ (step[f] = "hand" /\ k = fresh[f])]
  /\ UNCHANGED <<docs, queue, act, session, key, of, fresh, history>>

Activity(k) == Begin(k) \/ Dial(k) \/ RecordInProgress(k)
EndStep(k, e) == EnsureEnds(k, e) \/ Trigger(k, e)
FlowStep(f) ==
  \/ Provisional(f) \/ Analyse(f) \/ FollowUp(f) \/ HandOver(f)
  \/ Redial(f) \/ Again(f) \/ WriteTask(f) \/ WriteRun(f)

Next ==
  \/ \E k \in Tasks :
       \/ Activity(k) \/ DialFails(k)
       \/ HangUp(k) \/ CleanUp(k) \/ KeyExpires(k)
       \/ \E e \in Ends : ToolEnds(k, e) \/ EndStep(k, e)
  \/ \E f \in Flows : FlowStep(f) \/ FlowDies(f)

Spec == Init /\ [][Next]_vars

(* Flow runs and activities are executed, calls end, handlers run, keys     *)
(* expire; no tool has to be called and no fault to happen.                 *)
Fairness ==
  /\ \A k \in Tasks :
       /\ WF_vars(Activity(k)) /\ WF_vars(HangUp(k)) /\ WF_vars(CleanUp(k))
       /\ WF_vars(KeyExpires(k))
       /\ \A e \in Ends : WF_vars(EndStep(k, e))
  /\ \A f \in Flows : WF_vars(FlowStep(f))

FairSpec == Spec /\ Fairness
-----------------------------------------------------------------------------
DocumentsOK ==
  /\ status \in [Tasks -> {"none", "pending", "scheduled", "processing",
                           "in_progress", "completed", "failed"}]
  /\ redials \in [Tasks -> 0 .. MaxRedials]
  /\ followups \in [Tasks -> 0 .. MaxCalls - 1]
  /\ parent \in [Tasks -> Tasks] /\ ref \in [Tasks -> BOOLEAN]
  /\ run \in {"pending", "completed"}

ActivitiesOK ==
  /\ queue \in [Tasks -> Nat]
  /\ act \in [Tasks -> {"none", "dial", "write"}]

SessionsOK ==
  /\ call \in [Tasks -> {"none", "on", "closing", "over"}]
  /\ flag \in [Tasks -> BOOLEAN] /\ key \in [Tasks -> BOOLEAN]
  /\ end \in [Tasks -> [Ends -> {"idle", "triggering", "done"}]]

FlowsOK ==
  /\ step \in [Flows -> {"free", "queued", "analyse", "follow", "hand", "redial",
                         "again", "write", "run"}]
  /\ of \in [Flows -> Tasks] /\ fresh \in [Flows -> Tasks]

HistoryOK ==
  /\ placed \in [Tasks -> Nat] /\ asked \in [Tasks -> Nat] /\ triggered \in [Tasks -> Nat]
  /\ spoiled \in [Tasks -> BOOLEAN] /\ faults \in 0 .. MaxFaults

PostCallTypeOK == DocumentsOK /\ ActivitiesOK /\ SessionsOK /\ FlowsOK /\ HistoryOK

(* However the handlers of a call's end overlap, its post-call flow is      *)
(* created at most once: the key stops those that overlap, the flag those   *)
(* that come when the key has expired.                                      *)
OneFlowPerCall == \A k \in Tasks : triggered[k] <= 1

(* A customer is redialled at most MaxRedials times for a task, although    *)
(* the count is read, and written back with the status, by flows of         *)
(* different calls.                                                         *)
RedialsBounded == \A k \in Tasks : placed[k] <= 1 + MaxRedials

(* A task ends completed, with every redial the flow scheduled made, and a  *)
(* follow-up gets its call, although the activity writes in_progress over   *)
(* what the post-call flow has written so far: the flow's later writes make *)
(* up for it.  Excepted are a task hit by a fault and one whose flow had    *)
(* made its last write when the activity wrote in_progress.                 *)
Settled(k) ==
  \/ status[k] = "none"
  \/ status[k] = "completed" /\ placed[k] = 1 + asked[k]
  \/ spoiled[k]

TasksSettle == <>[](\A k \in Tasks : Settled(k))

(* "max_calls is total attempts (initial + retries)": no contact has more   *)
(* tasks, the first and its follow-ups, than that.                          *)
AttemptsBounded == Cardinality(Existing) <= MaxCalls
-----------------------------------------------------------------------------
(* Why these hold: the facts the proofs carry along (PostCall_proofs).      *)

(* The session of a task's latest call can still create a post-call flow.   *)
Live(k) ==
  /\ triggered[k] = 0
  /\ call[k] \in {"on", "closing"} \/ \E e \in Ends : end[k][e] = "triggering"

(* Only one handler at a time is creating a flow run, with the key set; a   *)
(* session that has created one has its flag set and is ending.             *)
OneHandlerTriggers ==
  \A k \in Tasks :
    /\ \A e \in Ends : end[k][e] = "triggering" =>
         key[k] /\ Live(k) /\ call[k] # "none"
    /\ \A d, e \in Ends :
         end[k][d] = "triggering" /\ end[k][e] = "triggering" => d = e
    /\ triggered[k] <= 1
    /\ triggered[k] = 1 => flag[k] /\ call[k] \in {"closing", "over"}
    /\ act[k] = "dial" =>
         /\ call[k] \in {"none", "over"}
         /\ \A e \in Ends : end[k][e] # "triggering"

(* A post-call flow that may yet have task k called: again, or, for a new   *)
(* follow-up, at all.                                                       *)
MayRecall(f, k) ==
  \/ of[f] = k /\ step[f] \in {"queued", "analyse", "redial", "again"}
  \/ fresh[f] = k /\ step[f] = "hand"

(* The next call of a task is in one place: a waiting flow run, an activity *)
(* about to dial, a session whose end will be looked into, or one post-call *)
(* flow.                                                                    *)
OneNextCall ==
  \A k \in Tasks :
    /\ queue[k] <= 1
    /\ queue[k] = 1 => act[k] # "dial" /\ ~Live(k)
    /\ \A f \in Flows : MayRecall(f, k) =>
         /\ queue[k] = 0 /\ act[k] # "dial" /\ ~Live(k)
         /\ \A g \in Flows : MayRecall(g, k) => f = g

(* Nothing happens to a task that does not exist.                           *)
NothingBeforeCreation ==
  /\ \A k \in Tasks : status[k] = "none" =>
       /\ queue[k] = 0 /\ act[k] = "none" /\ call[k] = "none"
       /\ placed[k] = 0 /\ asked[k] = 0
  /\ \A f \in Flows :
       /\ step[f] # "free" => status[of[f]] # "none"
       /\ step[f] = "hand" => status[fresh[f]] # "none"

(* A task has one call more than redials were scheduled, less the one that  *)
(* is on its way; redials scheduled are counted, follow-ups inherit counts. *)
CallsCounted ==
  \A k \in Tasks :
    /\ asked[k] <= redials[k]
    /\ placed[k] <= 1 + asked[k]
    /\ \/ queue[k] = 1 \/ act[k] = "dial"
       \/ \E f \in Flows : MayRecall(f, k) /\ step[f] \in {"again", "hand"}
       => placed[k] <= asked[k]
=============================================================================
