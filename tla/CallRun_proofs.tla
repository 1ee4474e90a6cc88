---------------------------- MODULE CallRun_proofs ----------------------------
(***************************************************************************)
(* Proofs about CallRun, for every set of tasks, worker slots and          *)
(* scanners, every assignment of providers and every retry limit.  A step  *)
(* of an activity is a step of CallTask, so what CallTask_proofs shows of  *)
(* its steps carries over; a scanner leaves the slots alone.               *)
(***************************************************************************)
EXTENDS CallRun, CallTask_proofs

LEMMA ActivityIsNext == ActivityStep => Next
BY DEF ActivityStep, Next

(* The steps of the run, one name each.                                    *)
LEMMA RunNextCases ==
  ASSUME RunNext
  PROVE  \/ ActivityStep
         \/ StartCron \/ Query \/ CronTally \/ CronWriteRun \/ Count
         \/ \E t \in Tasks :
              \/ StillOn(t) \/ CallRetry(t) \/ CallAgainLater(t) \/ CreateDelayed(t)
              \/ CallGivenUp(t) \/ CallCompleted(t) \/ LaterDue(t) \/ Age(t)
         \/ \E s \in Scanners :
              \/ List(s) \/ Scan(s) \/ AfterCheck(s) \/ EndRun(s)
              \/ StartCheck(s) \/ StartRun(s) \/ ScanCrash(s)
         \/ \E s \in Scanners, t \in Tasks :
              \/ Mark(s, t) \/ TriggerTask(s, t) \/ Redial(s, t)
              \/ CreateRedial(s, t) \/ AgeRead(s, t)
BY DEF RunNext, ScanStep, CronStep, RunFlowStep

(* What is not a step of an activity leaves the slots, the lock and the    *)
(* calls alone.                                                            *)
LEMMA SlotsRest ==
  ASSUME RunNext, ~ActivityStep
  PROVE  UNCHANGED slotVars
<1>1. CASE \/ StartCron \/ Query \/ CronTally \/ CronWriteRun \/ Count
  BY <1>1 DEF StartCron, Query, CronTally, CronWriteRun, Count
<1>2. CASE \E t \in Tasks :
              \/ StillOn(t) \/ CallRetry(t) \/ CallAgainLater(t) \/ CreateDelayed(t)
              \/ CallGivenUp(t) \/ CallCompleted(t) \/ LaterDue(t) \/ Age(t)
  BY <1>2 DEF StillOn, CallRetry, CallAgainLater, CreateDelayed, CallGivenUp,
              CallCompleted, LaterDue, Age, vars, slotVars
<1>3. CASE \E s \in Scanners :
              \/ List(s) \/ Scan(s) \/ AfterCheck(s) \/ EndRun(s)
              \/ StartCheck(s) \/ StartRun(s) \/ ScanCrash(s)
  BY <1>3 DEF List, Scan, AfterCheck, EndRun, StartCheck, StartRun, ScanCrash
<1>4. CASE \E s \in Scanners, t \in Tasks :
              \/ Mark(s, t) \/ TriggerTask(s, t) \/ Redial(s, t)
              \/ CreateRedial(s, t) \/ AgeRead(s, t)
  BY <1>4 DEF Mark, TriggerTask, Redial, CreateRedial, AgeRead, vars, slotVars
<1>5. QED
  BY <1>1, <1>2, <1>3, <1>4, RunNextCases
-----------------------------------------------------------------------------
(* Types.                                                                  *)

DocsOK == /\ status \in [Tasks -> Statuses] /\ retry \in [Tasks -> Nat]
          /\ error \in [Tasks -> Errors] /\ RecordsOK
PrefectOK == queued \in [Tasks -> Nat] /\ delayed \in [Tasks -> Nat]

LEMMA GroupsOK ==
  RunTypeOK => DocsOK /\ PrefectOK /\ run \in RunStatuses /\ pc \in [Flows -> Points]
BY DEF RunTypeOK, TypeOK, DocsOK, PrefectOK

(* A type holds on as long as nothing it speaks of changes.                *)
LEMMA SlotTypesRest ==
  ASSUME TypeOK, UNCHANGED slotVars, DocsOK', run' \in RunStatuses, PrefectOK'
  PROVE  TypeOK'
BY DEF TypeOK, DocsOK, PrefectOK, slotVars, redis, locals, calls

LEMMA DocsRest == ASSUME DocsOK, UNCHANGED docs PROVE DocsOK'
BY DEF DocsOK, RecordsOK, docs, taskVars

LEMMA PrefectRest == ASSUME PrefectOK, UNCHANGED prefect PROVE PrefectOK'
BY DEF PrefectOK, prefect

LEMMA FlowVarsRest == ASSUME RunFlowsOK, UNCHANGED flowVars PROVE RunFlowsOK'
BY DEF RunFlowsOK, flowVars

LEMMA ImagesRest == ASSUME ImagesOK, UNCHANGED image PROVE ImagesOK'
BY DEF ImagesOK

LEMMA RulingRest == ASSUME RulingOK, UNCHANGED <<at, cronVars>> PROVE RulingOK'
BY DEF RulingOK, cronVars

(* One more waiting flow run.                                              *)
LEMMA AddTypes ==
  ASSUME NEW queue \in [Tasks -> Nat], NEW t \in Tasks
  PROVE  Add(queue, t) \in [Tasks -> Nat]
BY DEF Add

(* An overwritten document is still one.                                   *)
LEMMA OverwriteTypes ==
  ASSUME DocsOK, NEW t \in Tasks, NEW st \in Statuses, NEW r \in Nat,
         NEW e \in Errors, Overwrite(t, st, r, e)
  PROVE  DocsOK'
BY RunAssumption DEF DocsOK, RecordsOK, Overwrite, SetStatus

LEMMA SnapshotTypes ==
  ASSUME DocsOK, NEW S \in SUBSET Tasks
  PROVE  Snapshot(S) \in [Tasks -> Image \cup {NoImage}]
<1>1. ASSUME NEW t \in Tasks PROVE Read(t) \in Image
  BY <1>1, ConstantsAssumption DEF DocsOK, RecordsOK, Read, Image
<1>2. QED
  BY <1>1 DEF Snapshot

(* Reading, deciding about a task and forgetting keep images what they are.*)
LEMMA SetImageTypes ==
  ASSUME ImagesOK, NEW s \in Scanners, NEW new \in [Tasks -> Image \cup {NoImage}],
         image' = [image EXCEPT ![s] = new]
  PROVE  ImagesOK'
BY DEF ImagesOK

LEMMA DecidedTypes ==
  ASSUME ImagesOK, NEW s \in Scanners, NEW t \in Tasks, Decided(s, t)
  PROVE  ImagesOK'
<1>1. [image[s] EXCEPT ![t] = NoImage] \in [Tasks -> Image \cup {NoImage}]
  BY DEF ImagesOK
<1>2. image' = [image EXCEPT ![s] = [image[s] EXCEPT ![t] = NoImage]]
  BY DEF Decided
<1>3. QED
  BY <1>1, <1>2, SetImageTypes

LEMMA EditTypes ==
  ASSUME ImagesOK, NEW s \in Scanners, NEW t \in Tasks, NEW im \in Image,
         image' = [image EXCEPT ![s] = [image[s] EXCEPT ![t] = im]]
  PROVE  ImagesOK'
<1>1. [image[s] EXCEPT ![t] = im] \in [Tasks -> Image \cup {NoImage}]
  BY DEF ImagesOK
<1>2. QED
  BY <1>1, SetImageTypes

LEMMA HasDoneTypes ==
  ASSUME ImagesOK, NEW s \in Scanners, NEW t \in Tasks, image[s][t] # NoImage,
         NEW step \in {"later", "redial", "created"}, HasDone(s, t, step)
  PROVE  ImagesOK'
<1> DEFINE im == [image[s][t] EXCEPT !.step = step]
<1>1. image[s][t] \in Image
  BY DEF ImagesOK
<1>2. im \in Image
  BY <1>1 DEF Image
<1>3. image' = [image EXCEPT ![s] = [image[s] EXCEPT ![t] = im]]
  BY DEF HasDone
<1> HIDE DEF im
<1>4. QED
  BY <1>2, <1>3, EditTypes

(* What a scanner may write of what it has read.                           *)
LEMMA MarksTypes ==
  ASSUME NEW im \in Image
  PROVE  Marks(im) \subseteq {"pending", "completed"}
BY DEF Marks

LEMMA VerdictTypes == RunVerdict(status) # "none" => RunVerdict(status) \in RunStatuses
BY DEF RunVerdict, RunStatuses

(* A scanner that moves on, except to the write of the run.                *)
LEMMA MoveTypes ==
  ASSUME ScannersOK, RulingOK, NEW s \in Scanners, NEW p \in ScanPoints \ {"runwrite"},
         Move(s, p), UNCHANGED ruling, asked' \in BOOLEAN
  PROVE  at' \in [Scanners -> ScanPoints] /\ RulingOK'
BY RunAssumption DEF ScannersOK, RulingOK, Move

(* The step of an activity, seen from here.                                *)
LEMMA ActivityTypes ==
  ASSUME RunTypeOK, ActivityStep
  PROVE  RunTypeOK'
<1>1. TypeOK'
  BY ActivityIsNext, TypePreserved DEF RunTypeOK
<1>2. RecordsOK'
  <2>1. ASSUME NEW t \in Tasks
        PROVE  /\ (aged[t] /\ status'[t] = "processing") \in BOOLEAN
               /\ (\/ named[t] /\ ~Redialled(t)
                   \/ Recorded(t) \/ status'[t] # "in_progress") \in BOOLEAN
    OBVIOUS
  <2>2. /\ aged' = [t \in Tasks |-> aged[t] /\ status'[t] = "processing"]
        /\ named' = [t \in Tasks |-> \/ named[t] /\ ~Redialled(t)
                                     \/ Recorded(t) \/ status'[t] # "in_progress"]
    BY DEF ActivityStep
  <2> HIDE DEF Redialled, Recorded
  <2>3. QED
    BY <2>1, <2>2, Zenon DEF RecordsOK
<1>3. RunFlowsOK'
  BY DEF ActivityStep, RunTypeOK, RunFlowsOK
<1>4. ImagesOK'
  <2> DEFINE new == [t \in Tasks |->
               IF Polling(t, "read") /\ Redialled(t)
               THEN [image[Cron][t] EXCEPT !.older = TRUE] ELSE image[Cron][t]]
  <2>1. ASSUME NEW t \in Tasks PROVE new[t] \in Image \cup {NoImage}
    <3>1. image[Cron][t] \in Image \cup {NoImage}
      BY RunAssumption DEF RunTypeOK, ImagesOK
    <3>2. ASSUME NEW im \in Image PROVE [im EXCEPT !.older = TRUE] \in Image
      BY DEF Image
    <3>3. Polling(t, "read") => image[Cron][t] # NoImage
      BY DEF Polling
    <3>4. QED
      BY <3>1, <3>2, <3>3
  <2>2. new \in [Tasks -> Image \cup {NoImage}]
    <3>1. new = [t \in Tasks |-> new[t]]
      OBVIOUS
    <3> HIDE DEF new
    <3>2. QED
      BY <2>1, <3>1
  <2>3. image' = [image EXCEPT ![Cron] = new]
    BY DEF ActivityStep
  <2> HIDE DEF new
  <2>4. QED
    BY <2>2, <2>3, RunAssumption, SetImageTypes DEF RunTypeOK
<1>5. ScannersOK' /\ RulingOK'
  BY DEF ActivityStep, RunTypeOK, ScannersOK, RulingOK, cronVars
<1>6. QED
  BY <1>1, <1>2, <1>3, <1>4, <1>5 DEF RunTypeOK

(* The steps of the scanners and the environment, one group of variables   *)
(* after the other.                                                        *)
LEMMA DocsTypes ==
  ASSUME RunTypeOK, RunNext, ~ActivityStep
  PROVE  DocsOK'
<1> USE GroupsOK, RunAssumption, ConstantsAssumption
<1>0. \A t \in Tasks : image[Cron][t] # NoImage => image[Cron][t].retry + 1 \in Nat
  BY DEF RunTypeOK, ImagesOK, Image
<1>1. ASSUME NEW t \in Tasks, CallRetry(t) \/ CallAgainLater(t) PROVE DocsOK'
  <2>1. error[t] \in Errors /\ {"pending", "scheduled"} \subseteq Statuses
    BY DEF DocsOK, Statuses
  <2>2. image[Cron][t].retry + 1 \in Nat
    BY <1>0, <1>1 DEF CallRetry, CallAgainLater, Polling
  <2>3. \/ Overwrite(t, "pending", image[Cron][t].retry + 1, error[t])
        \/ Overwrite(t, "scheduled", image[Cron][t].retry + 1, error[t])
    BY <1>1 DEF CallRetry, CallAgainLater
  <2>4. QED
    BY <2>1, <2>2, <2>3, OverwriteTypes
<1>2. ASSUME NEW t \in Tasks, CallGivenUp(t) PROVE DocsOK'
  <2>1. image[Cron][t].retry + 1 \in Nat
    BY <1>0, <1>2 DEF CallGivenUp, Polling
  <2>2. Overwrite(t, "failed", image[Cron][t].retry + 1, "max_retries")
    BY <1>2 DEF CallGivenUp
  <2>3. QED
    BY <2>1, <2>2, OverwriteTypes DEF Statuses
<1>3. ASSUME NEW t \in Tasks, CallCompleted(t) PROVE DocsOK'
  <2>1. retry[t] \in Nat /\ error[t] \in Errors
    BY DEF DocsOK
  <2>2. Overwrite(t, "completed", retry[t], error[t])
    BY <1>3 DEF CallCompleted
  <2>3. QED
    BY <2>1, <2>2, OverwriteTypes DEF Statuses
<1>4. ASSUME NEW s \in Scanners, NEW t \in Tasks, Mark(s, t) PROVE DocsOK'
  <2> DEFINE im == image[s][t]
  <2>1. im \in Image
    BY <1>4 DEF Mark, RunTypeOK, ImagesOK
  <2>2. CASE UNCHANGED docs
    BY <2>2, DocsRest
  <2>3. ASSUME NEW st \in Marks(im),
               Overwrite(t, st, im.retry + 1,
                         IF st = "completed" /\ im.error \in ApiErrors THEN "none"
                         ELSE im.error)
        PROVE  DocsOK'
    <3> DEFINE e == IF st = "completed" /\ im.error \in ApiErrors THEN "none"
                    ELSE im.error
    <3>1. st \in Statuses
      BY <2>1, MarksTypes DEF Statuses
    <3>2. im.retry + 1 \in Nat /\ e \in Errors
      BY <2>1 DEF Image
    <3>3. Overwrite(t, st, im.retry + 1, e)
      BY <2>3
    <3> HIDE DEF e, im
    <3>4. QED
      BY <3>1, <3>2, <3>3, OverwriteTypes
  <2>4. QED
    BY <1>4, <2>2, <2>3 DEF Mark
<1>5. ASSUME NEW t \in Tasks, Age(t) PROVE DocsOK'
  BY <1>5 DEF Age, DocsOK, RecordsOK, vars, taskVars
<1>10. ASSUME NEW s \in Scanners, NEW t \in Tasks, Redial(s, t) PROVE DocsOK'
  BY <1>10 DEF Redial, SetStatus, DocsOK, RecordsOK, Statuses
<1>11. ASSUME NEW s \in Scanners, NEW t \in Tasks, CreateRedial(s, t) \/ AgeRead(s, t)
       PROVE  DocsOK'
  BY <1>11, DocsRest DEF CreateRedial, AgeRead, docs, vars
<1>6. CASE StartCron \/ Query \/ CronTally \/ CronWriteRun \/ Count
  BY <1>6, DocsRest DEF StartCron, Query, CronTally, CronWriteRun, Count
<1>7. ASSUME NEW t \in Tasks, StillOn(t) \/ CreateDelayed(t) \/ LaterDue(t)
      PROVE  DocsOK'
  BY <1>7, DocsRest DEF StillOn, CreateDelayed, LaterDue
<1>8. ASSUME NEW s \in Scanners,
             \/ List(s) \/ Scan(s) \/ AfterCheck(s) \/ EndRun(s) \/ StartCheck(s)
             \/ StartRun(s) \/ ScanCrash(s) \/ \E t \in Tasks : TriggerTask(s, t)
      PROVE  DocsOK'
  BY <1>8, DocsRest DEF List, Scan, AfterCheck, EndRun, StartCheck, StartRun, ScanCrash,
                        TriggerTask
<1>9. QED
  BY <1>1, <1>2, <1>3, <1>4, <1>5, <1>6, <1>7, <1>8, <1>10, <1>11, RunNextCases

LEMMA RunAndPrefectTypes ==
  ASSUME RunTypeOK, RunNext, ~ActivityStep
  PROVE  run' \in RunStatuses /\ PrefectOK'
<1> USE GroupsOK
<1>1. CASE CronWriteRun
  BY <1>1, PrefectRest DEF CronWriteRun, RunTypeOK, RulingOK
<1>2. ASSUME NEW t \in Tasks, LaterDue(t) PROVE run' \in RunStatuses /\ PrefectOK'
  BY <1>2, AddTypes DEF LaterDue, PrefectOK
<1>3. ASSUME NEW s \in Scanners, NEW t \in Tasks, TriggerTask(s, t)
      PROVE  run' \in RunStatuses /\ PrefectOK'
  BY <1>3, AddTypes DEF TriggerTask, PrefectOK
<1>4. CASE StartCron \/ Query \/ CronTally \/ Count
  BY <1>4, PrefectRest DEF StartCron, Query, CronTally, Count
<1>5. ASSUME NEW t \in Tasks,
             \/ StillOn(t) \/ CallRetry(t) \/ CallAgainLater(t) \/ CreateDelayed(t)
             \/ CallGivenUp(t) \/ CallCompleted(t) \/ Age(t)
      PROVE  run' \in RunStatuses /\ PrefectOK'
  BY <1>5, PrefectRest DEF StillOn, CallRetry, CallAgainLater, CreateDelayed, CallGivenUp,
                           CallCompleted, Age, vars
<1>6. ASSUME NEW s \in Scanners,
             \/ List(s) \/ Scan(s) \/ AfterCheck(s) \/ EndRun(s) \/ StartCheck(s)
             \/ StartRun(s) \/ ScanCrash(s)
             \/ \E t \in Tasks : Mark(s, t) \/ Redial(s, t) \/ CreateRedial(s, t) \/ AgeRead(s, t)
      PROVE  run' \in RunStatuses /\ PrefectOK'
  BY <1>6, PrefectRest DEF List, Scan, AfterCheck, EndRun, StartCheck, StartRun, ScanCrash,
                           Mark, Redial, CreateRedial, AgeRead, vars
<1>7. QED
  BY <1>1, <1>2, <1>3, <1>4, <1>5, <1>6, RunNextCases

LEMMA FlowVarsTypes ==
  ASSUME RunTypeOK, RunNext, ~ActivityStep
  PROVE  RunFlowsOK'
<1>0. RunFlowsOK
  BY DEF RunTypeOK
<1>1. ASSUME NEW t \in Tasks, CreateDelayed(t) \/ LaterDue(t) PROVE RunFlowsOK'
  BY <1>0, <1>1 DEF CreateDelayed, LaterDue, RunFlowsOK
<1>2. CASE Count
  BY <1>0, <1>2 DEF Count, RunFlowsOK
<1>3. ASSUME NEW s \in Scanners, StartCheck(s) \/ StartRun(s) \/ AfterCheck(s)
      PROVE  RunFlowsOK'
  <2>1. (runs \/ listed[s] # {}) \in BOOLEAN
    OBVIOUS
  <2>2. QED
    BY <1>0, <1>3, <2>1 DEF StartCheck, StartRun, AfterCheck, RunFlowsOK
<1>4. CASE StartCron \/ Query \/ CronTally \/ CronWriteRun
  BY <1>0, <1>4, FlowVarsRest DEF StartCron, Query, CronTally, CronWriteRun
<1>5. ASSUME NEW t \in Tasks, \/ StillOn(t) \/ CallRetry(t) \/ CallAgainLater(t)
                              \/ CallGivenUp(t) \/ CallCompleted(t) \/ Age(t)
      PROVE  RunFlowsOK'
  BY <1>0, <1>5, FlowVarsRest DEF StillOn, CallRetry, CallAgainLater, CallGivenUp,
                                  CallCompleted, Age
<1>6. ASSUME NEW s \in Scanners,
             \/ List(s) \/ Scan(s) \/ EndRun(s) \/ ScanCrash(s)
             \/ \E t \in Tasks : Mark(s, t) \/ TriggerTask(s, t)
      PROVE  RunFlowsOK'
  BY <1>0, <1>6, FlowVarsRest DEF List, Scan, EndRun, ScanCrash, Mark, TriggerTask
<1>8. ASSUME NEW s \in Scanners, NEW t \in Tasks, CreateRedial(s, t) PROVE RunFlowsOK'
  BY <1>0, <1>8 DEF CreateRedial, RunFlowsOK
<1>9. ASSUME NEW s \in Scanners, NEW t \in Tasks, Redial(s, t) \/ AgeRead(s, t)
      PROVE  RunFlowsOK'
  BY <1>0, <1>9, FlowVarsRest DEF Redial, AgeRead
<1>7. QED
  BY <1>1, <1>2, <1>3, <1>4, <1>5, <1>6, <1>8, <1>9, RunNextCases

LEMMA ImagesTypes ==
  ASSUME RunTypeOK, RunNext, ~ActivityStep
  PROVE  ImagesOK'
<1> USE GroupsOK, RunAssumption
<1>0. ImagesOK
  BY DEF RunTypeOK
<1>1. CASE StartCron
  <2> DEFINE S == {t \in Tasks : Provider[t] = "vapi" /\ status[t] = "in_progress"}
  <2>1. Snapshot(S) \in [Tasks -> Image \cup {NoImage}]
    BY SnapshotTypes
  <2>2. image' = [image EXCEPT ![Cron] = Snapshot(S)]
    BY <1>1 DEF StartCron
  <2> HIDE DEF S
  <2>3. QED
    BY <1>0, <2>1, <2>2, SetImageTypes
<1>2. ASSUME NEW s \in Scanners, Scan(s) PROVE ImagesOK'
  <2> DEFINE S == {t \in Tasks : status[t] \in {"failed", "processing"}}
  <2>1. Snapshot(S) \in [Tasks -> Image \cup {NoImage}]
    BY SnapshotTypes
  <2>2. UNCHANGED image \/ image' = [image EXCEPT ![s] = Snapshot(S)]
    BY <1>2 DEF Scan
  <2> HIDE DEF S
  <2>3. QED
    BY <1>0, <2>1, <2>2, SetImageTypes, ImagesRest
<1>3. ASSUME NEW s \in Scanners, ScanCrash(s) PROVE ImagesOK'
  <2>1. Nothing \in [Tasks -> Image \cup {NoImage}]
    BY DEF Nothing
  <2>2. QED
    BY <1>0, <1>3, <2>1, SetImageTypes DEF ScanCrash
<1>4. ASSUME NEW t \in Tasks, CallAgainLater(t) PROVE ImagesOK'
  BY <1>0, <1>4, HasDoneTypes DEF CallAgainLater, Polling
<1>11. ASSUME NEW s \in Scanners, NEW t \in Tasks, Redial(s, t) \/ CreateRedial(s, t)
       PROVE  ImagesOK'
  <2>1. \/ image[s][t] # NoImage /\ HasDone(s, t, "redial")
        \/ image[s][t] # NoImage /\ HasDone(s, t, "created")
        \/ Decided(s, t)
    BY <1>11 DEF Redial, CreateRedial, Polling
  <2>2. QED
    BY <1>0, <2>1, HasDoneTypes, DecidedTypes
<1>12. ASSUME NEW s \in Scanners, NEW t \in Tasks, AgeRead(s, t) PROVE ImagesOK'
  <2> DEFINE im == [image[s][t] EXCEPT !.aged = TRUE]
  <2>1. image[s][t] \in Image
    BY <1>0, <1>12 DEF AgeRead, ImagesOK
  <2>2. im \in Image
    BY <2>1 DEF Image
  <2>3. image' = [image EXCEPT ![s] = [image[s] EXCEPT ![t] = im]]
    BY <1>12 DEF AgeRead
  <2> HIDE DEF im
  <2>4. QED
    BY <1>0, <2>2, <2>3, EditTypes
<1>5. ASSUME NEW t \in Tasks,
             \/ StillOn(t) \/ CallRetry(t) \/ CreateDelayed(t) \/ CallGivenUp(t)
             \/ CallCompleted(t)
      PROVE  ImagesOK'
  BY <1>0, <1>5, DecidedTypes DEF StillOn, CallRetry, CreateDelayed, CallGivenUp,
                                  CallCompleted
<1>6. ASSUME NEW s \in Scanners, NEW t \in Tasks, Mark(s, t) PROVE ImagesOK'
  BY <1>0, <1>6, DecidedTypes DEF Mark
<1>7. CASE Query \/ CronTally \/ CronWriteRun \/ Count
  BY <1>0, <1>7, ImagesRest DEF Query, CronTally, CronWriteRun, Count
<1>8. ASSUME NEW t \in Tasks, LaterDue(t) \/ Age(t) PROVE ImagesOK'
  BY <1>0, <1>8, ImagesRest DEF LaterDue, Age, scanVars
<1>9. ASSUME NEW s \in Scanners,
             \/ List(s) \/ AfterCheck(s) \/ EndRun(s) \/ StartCheck(s)
             \/ StartRun(s) \/ \E t \in Tasks : TriggerTask(s, t)
      PROVE  ImagesOK'
  BY <1>0, <1>9, ImagesRest DEF List, AfterCheck, EndRun, StartCheck, StartRun, TriggerTask
<1>10. QED
  BY <1>1, <1>2, <1>3, <1>4, <1>5, <1>6, <1>7, <1>8, <1>9, <1>11, <1>12, RunNextCases

(* Where the scanners are, and the verdict the cron is about to write.     *)
LEMMA ScannersTypes ==
  ASSUME RunTypeOK, RunNext, ~ActivityStep
  PROVE  ScannersOK' /\ RulingOK'
<1> USE RunAssumption DEF ScanPoints
<1>0. ScannersOK /\ RulingOK
  BY DEF RunTypeOK
<1>1. CASE StartCron
  <2>1. asked' \in BOOLEAN
    BY <1>1 DEF StartCron
  <2>2. QED
    BY <1>0, <1>1, <2>1, MoveTypes DEF StartCron, ScannersOK
<1>2. CASE Query
  BY <1>0, <1>2, MoveTypes DEF Query, ScannersOK, RulingOK
<1>3. CASE CronTally
  <2>1. CASE Move(Cron, "list") /\ UNCHANGED ruling
    BY <1>0, <1>3, <2>1, MoveTypes DEF CronTally, ScannersOK, RulingOK
  <2>2. CASE /\ RunVerdict(status) \notin {"none", run}
             /\ ruling' = RunVerdict(status) /\ Move(Cron, "runwrite")
    <3>1. ruling' \in RunStatuses
      BY <2>2, VerdictTypes
    <3>2. QED
      BY <1>0, <1>3, <2>2, <3>1 DEF CronTally, Move, ScannersOK, RulingOK
  <2>3. QED
    BY <1>3, <2>1, <2>2 DEF CronTally
<1>4. CASE CronWriteRun
  BY <1>0, <1>4 DEF CronWriteRun, Move, ScannersOK, RulingOK
<1>5. CASE Count
  BY <1>0, <1>5, MoveTypes DEF Count, ScannersOK
<1>6. ASSUME NEW t \in Tasks,
             \/ StillOn(t) \/ CallRetry(t) \/ CallAgainLater(t) \/ CreateDelayed(t)
             \/ CallGivenUp(t) \/ CallCompleted(t) \/ LaterDue(t) \/ Age(t)
      PROVE  ScannersOK' /\ RulingOK'
  BY <1>0, <1>6, RulingRest DEF StillOn, CallRetry, CallAgainLater, CreateDelayed,
           CallGivenUp, CallCompleted, LaterDue, Age, scanVars, ScannersOK
<1>7. ASSUME NEW s \in Scanners, List(s) \/ Scan(s) PROVE ScannersOK' /\ RulingOK'
  <2>1. at' \in [Scanners -> ScanPoints] /\ RulingOK'
    BY <1>0, <1>7, MoveTypes DEF List, Scan, cronVars, RulingOK
  <2>2. UNCHANGED kind
    BY <1>7 DEF List, Scan
  <2>3. listed' \in [Scanners -> SUBSET Tasks]
    BY <1>0, <1>7 DEF List, Scan, ScannersOK
  <2>4. QED
    BY <1>0, <2>1, <2>2, <2>3 DEF ScannersOK
<1>8. ASSUME NEW s \in Scanners, AfterCheck(s) \/ EndRun(s)
      PROVE  ScannersOK' /\ RulingOK'
  <2>1. at' \in [Scanners -> ScanPoints] /\ RulingOK'
    BY <1>0, <1>8, MoveTypes DEF AfterCheck, EndRun, Leave, cronVars, RulingOK
  <2>2. QED
    BY <1>0, <1>8, <2>1 DEF AfterCheck, EndRun, Leave, ScannersOK
<1>9. ASSUME NEW s \in Scanners, StartCheck(s) \/ StartRun(s)
      PROVE  ScannersOK' /\ RulingOK'
  <2>1. at' \in [Scanners -> ScanPoints] /\ RulingOK'
    BY <1>0, <1>9, MoveTypes, RulingRest
       DEF StartCheck, StartRun, cronVars, RulingOK, ScannersOK
  <2>2. QED
    BY <1>0, <1>9, <2>1 DEF StartCheck, StartRun, ScannersOK
<1>10. ASSUME NEW s \in Scanners, NEW t \in Tasks, TriggerTask(s, t)
       PROVE  ScannersOK' /\ RulingOK'
  <2>1. at' \in [Scanners -> ScanPoints] /\ RulingOK'
    BY <1>0, <1>10, MoveTypes, RulingRest
       DEF TriggerTask, Leave, cronVars, RulingOK, ScannersOK
  <2>2. QED
    BY <1>0, <1>10, <2>1 DEF TriggerTask, Leave, ScannersOK
<1>11. ASSUME NEW s \in Scanners, NEW t \in Tasks,
              Mark(s, t) \/ Redial(s, t) \/ CreateRedial(s, t) \/ AgeRead(s, t)
       PROVE  ScannersOK' /\ RulingOK'
  BY <1>0, <1>11, RulingRest DEF Mark, Redial, CreateRedial, AgeRead, ScannersOK
<1>12. ASSUME NEW s \in Scanners, ScanCrash(s) PROVE ScannersOK' /\ RulingOK'
  <2>1. at' = [at EXCEPT ![s] = "idle"]
    BY <1>12 DEF ScanCrash, Leave, Move
  <2>2. kind' = kind \/ kind' = [kind EXCEPT ![s] = "none"]
    BY <1>12 DEF ScanCrash, Leave
  <2>3. listed' = [listed EXCEPT ![s] = {}]
    BY <1>12 DEF ScanCrash
  <2>4. UNCHANGED <<asked, ruling>> \/ (asked' = FALSE /\ ruling' = "none")
    BY <1>12 DEF ScanCrash, cronVars
  <2>5. ScannersOK'
    BY <1>0, <2>1, <2>2, <2>3 DEF ScannersOK
  <2>6. at' \in [Scanners -> ScanPoints] /\ (at'[Cron] = "runwrite" => at[Cron] = "runwrite")
    BY <1>0, <2>1 DEF ScannersOK
  <2>7. RulingOK'
    <3>1. CASE UNCHANGED <<asked, ruling>>
      BY <1>0, <2>6, <3>1 DEF RulingOK
    <3>2. CASE asked' = FALSE /\ ruling' = "none"
      <4>1. s = Cron \/ UNCHANGED <<asked, ruling>>
        BY <1>12 DEF ScanCrash, cronVars
      <4>2. CASE s = Cron
        BY <1>0, <2>1, <3>2, <4>2 DEF RulingOK, ScannersOK
      <4>3. QED
        BY <3>1, <4>1, <4>2
    <3>3. QED
      BY <2>4, <3>1, <3>2
  <2>8. QED
    BY <2>5, <2>7
<1>13. QED
  BY <1>1, <1>2, <1>3, <1>4, <1>5, <1>6, <1>7, <1>8, <1>9, <1>10, <1>11, <1>12,
     RunNextCases

LEMMA RunTypePreserved ==
  ASSUME RunTypeOK, [RunNext]_runVars
  PROVE  RunTypeOK'
<1>1. CASE UNCHANGED runVars
  BY <1>1 DEF runVars, vars, taskVars, redis, prefect, locals, calls, flowVars, scanVars,
              cronVars, RunTypeOK, TypeOK, RecordsOK, RunFlowsOK, ScannersOK, ImagesOK,
              RulingOK
<1>2. CASE RunNext /\ ~ActivityStep
  <2>1. DocsOK' /\ run' \in RunStatuses /\ PrefectOK'
    BY <1>2, DocsTypes, RunAndPrefectTypes
  <2>2. TypeOK'
    BY <1>2, <2>1, SlotsRest, SlotTypesRest DEF RunTypeOK
  <2>3. QED
    BY <1>2, <2>1, <2>2, FlowVarsTypes, ImagesTypes, ScannersTypes DEF RunTypeOK, DocsOK
<1>3. QED
  BY <1>1, <1>2, ActivityTypes

(* Every variable of the run keeps its type.  The attempts a scanner       *)
(* writes are one more than it has read, the statuses are statuses, and    *)
(* when the cron is about to write the run it has a verdict.               *)
THEOREM RunTypeCorrect == RunSpec => []RunTypeOK
<1>1. RunInit => RunTypeOK
  <2> SUFFICES ASSUME RunInit PROVE RunTypeOK
    OBVIOUS
  <2>1. TypeOK
    BY ConstantsAssumption
       DEF RunInit, Init, TypeOK, Statuses, RunStatuses, Responses, Points, Section,
           TryBody
  <2>2. Nothing \in [Tasks -> Image \cup {NoImage}]
    BY DEF Nothing
  <2>3. QED
    BY <2>1, <2>2, RunAssumption
       DEF RunInit, RunTypeOK, RecordsOK, RunFlowsOK, ScannersOK, ScanPoints, ImagesOK,
           RulingOK
<1>2. RunTypeOK /\ [RunNext]_runVars => RunTypeOK'
  BY RunTypePreserved
<1>3. QED
  BY <1>1, <1>2, PTL DEF RunSpec
-----------------------------------------------------------------------------
(* What CallTask promises of the slots it promises in the run.             *)

LEMMA RunSteps ==
  ASSUME [RunNext]_runVars
  PROVE  [Next]_vars \/ UNCHANGED slotVars
<1>1. CASE UNCHANGED runVars
  BY <1>1 DEF runVars
<1>2. QED
  BY <1>1, SlotsRest, ActivityIsNext

(* So the lock is held and local calls are attended throughout a run.      *)
LEMMA RunSafe ==
  ASSUME "overrun" \notin Faults
  PROVE  RunSpec => [](RunTypeOK /\ Safe)
<1>1. RunInit => LockHeld /\ LocalCallAttended
  BY DEF RunInit, Init, LockHeld, LocalCallAttended, Section, TryBody
<1>2. ASSUME RunTypeOK, LockHeld, LocalCallAttended, [RunNext]_runVars
      PROVE  LockHeld' /\ LocalCallAttended'
  <2>1. TypeOK
    BY <1>2 DEF RunTypeOK
  <2>2. CASE [Next]_vars
    BY <1>2, <2>1, <2>2, LockHeldPreserved, AttendedPreserved
  <2>3. CASE UNCHANGED slotVars
    BY <1>2, <2>3 DEF LockHeld, LocalCallAttended, slotVars, redis, locals, calls
  <2>4. QED
    BY <1>2, <2>2, <2>3, RunSteps
<1>3. RunTypeOK => TypeOK
  BY DEF RunTypeOK
<1>4. QED
  BY <1>1, <1>2, <1>3, RunTypeCorrect, PTL DEF RunSpec, Safe

(* Whatever the cron and the run flows write over the documents, two flow  *)
(* runs are never inside the activity of one task, and one customer never  *)
(* has two pipecat calls of it at a time, unless an activity outlives its  *)
(* lock.                                                                   *)
THEOREM RunMutualExclusion ==
  ASSUME "overrun" \notin Faults
  PROVE  RunSpec => [](SectionExclusive /\ LocalCallExclusive)
<1>1. Safe => SectionExclusive /\ LocalCallExclusive
  BY HeldIsExclusive DEF Safe, LocalCallAttended, LocalCallExclusive
<1>2. QED
  BY <1>1, RunSafe, PTL

(* A run with its cron and run flows still implements TaskWork: they never *)
(* touch who works on a task, its local call, or that it was recorded.     *)
THEOREM RunRefinement ==
  ASSUME "overrun" \notin Faults
  PROVE  RunSpec => OneWorkerPerTask
<1>1. RunInit => Work!Init
  BY InitRefines DEF RunInit
<1>2. ASSUME Safe, Safe', [RunNext]_runVars PROVE [Work!Next]_(Work!workVars)
  <2>1. CASE [Next]_vars
    BY <1>2, <2>1, StepRefines
  <2>2. CASE UNCHANGED slotVars
    <3>1. UNCHANGED <<pc, job, current, done>>
      BY <2>2 DEF slotVars, locals, calls
    <3>2. \A t \in Tasks : Worker(t)' = Worker(t) /\ Talking(t)' = Talking(t)
      BY <1>2, <3>1, WorkerStays DEF Safe, InSection, Talking
    <3>3. QED
      BY <3>1, <3>2, Stutters
  <2>3. QED
    BY <1>2, <2>1, <2>2, RunSteps
<1>3. QED
  BY <1>1, <1>2, RunSafe, PTL DEF RunSpec, OneWorkerPerTask, Work!Spec

(* The provider counter is exact over a whole run: as long as no call      *)
(* raises, nothing a scanner does takes or leaves a unit.                  *)
THEOREM RunCounterIsExact ==
  ASSUME "raise" \notin Faults, IsFiniteSet(Flows)
  PROVE  RunSpec => []WorkersAccount
<1>1. RunInit => CountedAfterIncrement /\ WorkersAccount
  BY AccountInit DEF RunInit
<1>2. ASSUME RunTypeOK, CountedAfterIncrement, WorkersAccount, [RunNext]_runVars
      PROVE  CountedAfterIncrement' /\ WorkersAccount'
  <2>1. TypeOK
    BY <1>2 DEF RunTypeOK
  <2>2. CASE [Next]_vars
    BY <1>2, <2>1, <2>2, CountedPreserved, AccountPreserved
  <2>3. CASE UNCHANGED slotVars
    <3>1. UNCHANGED <<pc, job, counted, workers, leaked>>
      BY <2>3 DEF slotVars, redis, locals
    <3>2. \A p \in Providers : Counting(p)' = Counting(p)
      BY <3>1 DEF Counting
    <3>3. QED
      BY <1>2, <3>1, <3>2 DEF CountedAfterIncrement, WorkersAccount
  <2>4. QED
    BY <1>2, <2>2, <2>3, RunSteps
<1>3. QED
  BY <1>1, <1>2, RunTypeCorrect, PTL DEF RunSpec
-----------------------------------------------------------------------------
(* Given up for good.                                                      *)

(* The three parts of GivenUp: what the document says, and that neither a  *)
(* scanner nor an activity is about to act on anything else.               *)
DocGivenUp(t)  == status[t] = "failed" /\ error[t] = "max_retries" /\ retry[t] >= MaxRetries
ImagesAgree(t) == \A s \in Scanners : image[s][t] # NoImage =>
                    image[s][t].status = "failed" /\ image[s][t].error = "max_retries"
SlotAgrees(f)  == /\ pc[f] \in {"read", "cas", "gate", "tally", "runwrite", "release"}
                  /\ pc[f] \in {"cas", "gate"} => seen[f] >= MaxRetries

LEMMA GivenUpIs ==
  ASSUME NEW t \in Tasks
  PROVE  GivenUp(t) <=> /\ DocGivenUp(t) /\ ImagesAgree(t)
                        /\ \A f \in Flows : InSection(f, t) => SlotAgrees(f)
BY DEF GivenUp, DocGivenUp, ImagesAgree, SlotAgrees

LEMMA GivenUpIsNext ==
  ASSUME NEW t \in Tasks, DocGivenUp(t)', ImagesAgree(t)',
         \A f \in Flows : InSection(f, t)' => SlotAgrees(f)'
  PROVE  GivenUp(t)'
BY DEF GivenUp, DocGivenUp, ImagesAgree, SlotAgrees, InSection

(* The cron polls for the calls in progress and for no other task.         *)
PollsInProgress ==
  at[Cron] = "poll" =>
    \A t \in Tasks : image[Cron][t] # NoImage => image[Cron][t].status = "in_progress"

(* Whatever it decides about a task while it polls, it goes on to have read*)
(* of the others what it had.                                              *)
LEMMA EditKeepsStatus ==
  ASSUME ImagesOK, NEW z \in Scanners, NEW u \in Tasks, NEW im \in Image \cup {NoImage},
         im # NoImage => image[z][u] # NoImage /\ im.status = image[z][u].status,
         image' = [image EXCEPT ![z] = [image[z] EXCEPT ![u] = im]],
         UNCHANGED at, PollsInProgress
  PROVE  PollsInProgress'
<1> SUFFICES ASSUME at[Cron] = "poll", NEW t \in Tasks, image'[Cron][t] # NoImage
             PROVE  image'[Cron][t].status = "in_progress"
  BY DEF PollsInProgress
<1> USE RunAssumption
<1>1. CASE z = Cron /\ u = t
  <2>1. image'[Cron] = [image[Cron] EXCEPT ![t] = im]
    BY <1>1 DEF ImagesOK
  <2>2. image'[Cron][t] = im
    BY <2>1 DEF ImagesOK
  <2>3. QED
    BY <1>1, <2>2 DEF PollsInProgress
<1>2. CASE z = Cron /\ u # t
  <2>1. image'[Cron] = [image[Cron] EXCEPT ![u] = im]
    BY <1>2 DEF ImagesOK
  <2>2. image'[Cron][t] = image[Cron][t]
    BY <1>2, <2>1 DEF ImagesOK
  <2>3. QED
    BY <2>2 DEF PollsInProgress
<1>3. CASE z # Cron
  <2>1. image'[Cron] = image[Cron]
    BY <1>3 DEF ImagesOK
  <2>2. QED
    BY <2>1 DEF PollsInProgress
<1>4. QED
  BY <1>1, <1>2, <1>3

LEMMA StepKeepsStatus ==
  ASSUME ImagesOK, NEW z \in Scanners, NEW u \in Tasks, UNCHANGED at, PollsInProgress,
         \/ Decided(z, u)
         \/ /\ image[z][u] # NoImage
            /\ \E step \in {"later", "redial", "created"} : HasDone(z, u, step)
  PROVE  PollsInProgress'
<1>1. CASE Decided(z, u)
  <2>1. image' = [image EXCEPT ![z] = [image[z] EXCEPT ![u] = NoImage]]
    BY <1>1 DEF Decided
  <2>2. QED
    BY <2>1, EditKeepsStatus
<1>2. ASSUME image[z][u] # NoImage, NEW step \in {"later", "redial", "created"},
             HasDone(z, u, step)
      PROVE  PollsInProgress'
  <2> DEFINE im == [image[z][u] EXCEPT !.step = step]
  <2>1. image[z][u] \in Image
    BY <1>2 DEF ImagesOK
  <2>2. im \in Image /\ im.status = image[z][u].status
    BY <2>1 DEF Image
  <2>3. image' = [image EXCEPT ![z] = [image[z] EXCEPT ![u] = im]]
    BY <1>2 DEF HasDone
  <2> HIDE DEF im
  <2>4. QED
    BY <1>2, <2>2, <2>3, EditKeepsStatus
<1>3. QED
  BY <1>1, <1>2

LEMMA PollsPreserved ==
  ASSUME RunTypeOK, PollsInProgress, [RunNext]_runVars
  PROVE  PollsInProgress'
<1> USE RunAssumption
<1>0. ImagesOK /\ ScannersOK
  BY DEF RunTypeOK
<1>1. CASE UNCHANGED <<at, image>>
  BY <1>1 DEF PollsInProgress
<1>2. CASE ActivityStep
  <2> SUFFICES ASSUME at[Cron] = "poll", NEW t \in Tasks, image'[Cron][t] # NoImage
               PROVE  image'[Cron][t].status = "in_progress"
    BY <1>2 DEF ActivityStep, PollsInProgress
  <2>1. image'[Cron][t] = IF Polling(t, "read") /\ Redialled(t)
                          THEN [image[Cron][t] EXCEPT !.older = TRUE] ELSE image[Cron][t]
    BY <1>0, <1>2 DEF ActivityStep, ImagesOK
  <2>2. image[Cron][t] # NoImage
    BY <2>1 DEF Polling
  <2>3. image[Cron][t] \in Image /\ image[Cron][t].status = "in_progress"
    BY <1>0, <2>2 DEF ImagesOK, PollsInProgress
  <2>4. ASSUME NEW im \in Image PROVE [im EXCEPT !.older = TRUE].status = im.status
    BY DEF Image
  <2>5. QED
    BY <2>1, <2>3, <2>4
<1>3. CASE StartCron
  <2> SUFFICES ASSUME NEW t \in Tasks, image'[Cron][t] # NoImage
               PROVE  image'[Cron][t].status = "in_progress"
    BY DEF PollsInProgress
  <2> DEFINE S == {u \in Tasks : Provider[u] = "vapi" /\ status[u] = "in_progress"}
  <2>1. image'[Cron] = Snapshot(S)
    BY <1>0, <1>3 DEF StartCron, ImagesOK
  <2>2. t \in S /\ image'[Cron][t] = Read(t)
    BY <2>1 DEF Snapshot
  <2>3. QED
    BY <2>2 DEF Read
<1>4. ASSUME NEW t \in Tasks,
             \/ StillOn(t) \/ CallRetry(t) \/ CallAgainLater(t) \/ CreateDelayed(t)
             \/ CallGivenUp(t) \/ CallCompleted(t)
      PROVE  PollsInProgress'
  BY <1>0, <1>4, StepKeepsStatus
     DEF StillOn, CallRetry, CallAgainLater, CreateDelayed, CallGivenUp, CallCompleted,
         Polling
<1>5. ASSUME NEW s \in Scanners, NEW t \in Tasks,
             Mark(s, t) \/ Redial(s, t) \/ CreateRedial(s, t)
      PROVE  PollsInProgress'
  <2>1. UNCHANGED at
    BY <1>5 DEF Mark, Redial, CreateRedial
  <2>2. \/ Decided(s, t)
        \/ /\ image[s][t] # NoImage
           /\ \E step \in {"later", "redial", "created"} : HasDone(s, t, step)
    BY <1>5 DEF Mark, Redial, CreateRedial, Polling
  <2>3. QED
    BY <1>0, <2>1, <2>2, StepKeepsStatus
<1>6. ASSUME NEW s \in Scanners, NEW t \in Tasks, AgeRead(s, t) PROVE PollsInProgress'
  <2> DEFINE im == [image[s][t] EXCEPT !.aged = TRUE]
  <2>1. image[s][t] \in Image /\ image[s][t] # NoImage /\ UNCHANGED at
    BY <1>0, <1>6 DEF AgeRead, ImagesOK
  <2>2. im \in Image /\ im.status = image[s][t].status
    BY <2>1 DEF Image
  <2>3. image' = [image EXCEPT ![s] = [image[s] EXCEPT ![t] = im]]
    BY <1>6 DEF AgeRead
  <2> HIDE DEF im
  <2>4. QED
    BY <1>0, <2>1, <2>2, <2>3, EditKeepsStatus
<1>7. CASE \/ Query \/ CronTally \/ CronWriteRun \/ Count
           \/ \E t \in Tasks : LaterDue(t) \/ Age(t)
           \/ \E s \in Scanners :
                 \/ List(s) \/ Scan(s) \/ AfterCheck(s) \/ EndRun(s)
                 \/ StartCheck(s) \/ StartRun(s) \/ ScanCrash(s)
                 \/ \E t \in Tasks : TriggerTask(s, t)
  <2>1. CASE Query \/ CronTally \/ CronWriteRun \/ Count
    <3>1. at'[Cron] # "poll"
      BY <1>0, <2>1 DEF Query, CronTally, CronWriteRun, Count, Move, ScannersOK
    <3>2. QED
      BY <3>1 DEF PollsInProgress
  <2>2. CASE \E t \in Tasks : LaterDue(t) \/ Age(t)
    BY <1>1, <2>2 DEF LaterDue, Age, scanVars
  <2>3. ASSUME NEW s \in Scanners,
               \/ List(s) \/ Scan(s) \/ AfterCheck(s) \/ EndRun(s)
               \/ StartCheck(s) \/ StartRun(s) \/ ScanCrash(s)
               \/ \E t \in Tasks : TriggerTask(s, t)
        PROVE  PollsInProgress'
    <3>1. CASE s = Cron
      <4>1. at'[Cron] # "poll"
        BY <1>0, <2>3, <3>1
           DEF List, Scan, AfterCheck, EndRun, StartCheck, StartRun, ScanCrash,
               TriggerTask, Marked, Leave, Move, ScannersOK
      <4>2. QED
        BY <4>1 DEF PollsInProgress
    <3>2. CASE s # Cron
      <4>1. at'[Cron] = at[Cron]
        BY <1>0, <2>3, <3>2
           DEF List, Scan, AfterCheck, EndRun, StartCheck, StartRun, ScanCrash,
               TriggerTask, Leave, Move, ScannersOK
      <4>2. image'[Cron] = image[Cron]
        BY <1>0, <2>3, <3>2
           DEF List, Scan, AfterCheck, EndRun, StartCheck, StartRun, ScanCrash,
               TriggerTask, ImagesOK
      <4>3. QED
        BY <4>1, <4>2 DEF PollsInProgress
    <3>3. QED
      BY <3>1, <3>2
  <2>4. QED
    BY <1>7, <2>1, <2>2, <2>3
<1>8. CASE UNCHANGED runVars
  BY <1>1, <1>8 DEF runVars, scanVars
<1>9. QED
  BY <1>2, <1>3, <1>4, <1>5, <1>6, <1>7, <1>8, RunNextCases

(* An activity that works on a task given up writes that it is given up.   *)
LEMMA ActivityGivesUp ==
  ASSUME TypeOK, Next, NEW t \in Tasks, DocGivenUp(t),
         \A f \in Flows : InSection(f, t) => SlotAgrees(f)
  PROVE  DocGivenUp(t)'
<1> USE DEF DocGivenUp
<1>1. ASSUME NEW f \in Flows, CompareAndSet(f) \/ GiveUp(f) \/ Defer(f)
      PROVE  DocGivenUp(t)'
  BY <1>1, ConstantsAssumption DEF CompareAndSet, GiveUp, Defer, SetStatus, TypeOK
<1>2. ASSUME NEW f \in Flows,
             \/ RecordCompleted(f) \/ RecordInProgress(f) \/ RecordFailed(f)
             \/ Except(f)
      PROVE  DocGivenUp(t)'
  <2>1. pc[f] \in {"record", "except"}
    BY <1>2 DEF RecordCompleted, RecordInProgress, RecordFailed, Except
  <2>2. job[f] # t
    BY <2>1 DEF InSection, SlotAgrees, Section, TryBody
  <2>3. QED
    BY <1>2, <2>2 DEF RecordCompleted, RecordInProgress, RecordFailed, Except, SetStatus,
                      TypeOK
<1>3. ASSUME NEW f \in Flows,
             \/ CheckDedup(f) \/ AcquireLock(f) \/ ReadTask(f) \/ Reschedule(f)
             \/ Increment(f) \/ Dial(f) \/ DialLost(f) \/ DialFails(f)
             \/ EndLocalCall(f) \/ MarkDedup(f) \/ Tally(f) \/ WriteRun(f)
             \/ Raise(f) \/ ReleaseLock(f) \/ Decrement(f) \/ Crash(f)
             \/ \E u \in Tasks : Start(f, u)
      PROVE  DocGivenUp(t)'
  BY <1>3 DEF CheckDedup, AcquireLock, ReadTask, Reschedule, Increment, Dial, DialLost,
              DialFails, EndLocalCall, MarkDedup, Tally, WriteRun, Raise, ReleaseLock,
              Decrement, Crash, Start, taskVars
<1>4. ASSUME NEW u \in Tasks, \/ Trigger(u) \/ ComesDue(u) \/ LockExpires(u)
                              \/ DedupExpires(u) \/ HangUp(u)
      PROVE  DocGivenUp(t)'
  BY <1>4 DEF Trigger, ComesDue, LockExpires, DedupExpires, HangUp, taskVars
<1>5. QED
  BY <1>1, <1>2, <1>3, <1>4, NextCases

(* An activity that takes such a task up reads that its attempts are used  *)
(* up, and goes no further than the gate.                                  *)
LEMMA SlotKeepsAgreeing ==
  ASSUME TypeOK, Next, "raise" \notin Faults, NEW t \in Tasks, DocGivenUp(t),
         \A f \in Flows : InSection(f, t) => SlotAgrees(f),
         NEW g \in Flows, InSection(g, t)'
  PROVE  SlotAgrees(g)'
<1> USE ConstantsAssumption DEF InSection, SlotAgrees, Section, TryBody
<1>1. CASE pc'[g] = pc[g] /\ job'[g] = job[g] /\ seen'[g] = seen[g]
  BY <1>1
<1>2. CASE \/ CheckDedup(g) \/ Decrement(g) \/ Crash(g) \/ \E u \in Tasks : Start(g, u)
  BY <1>2 DEF CheckDedup, Decrement, Crash, Start, Return, Goto, TypeOK
<1>3. CASE AcquireLock(g)
  BY <1>3 DEF AcquireLock, Return, Goto, TypeOK
<1>4. CASE ReadTask(g)
  <2>1. /\ pc' = [pc EXCEPT ![g] = "cas"] /\ job' = job
        /\ seen' = [seen EXCEPT ![g] = retry[job[g]]]
    BY <1>4 DEF ReadTask, Raises, Goto
  <2>2. pc'[g] = "cas" /\ seen'[g] = retry[t]
    BY <2>1 DEF TypeOK
  <2>3. QED
    BY <2>2 DEF DocGivenUp
<1>5. CASE CompareAndSet(g)
  BY <1>5 DEF CompareAndSet, Goto, locals, TypeOK
<1>6. CASE GiveUp(g) \/ Tally(g) \/ WriteRun(g)
  BY <1>6 DEF GiveUp, Tally, WriteRun, Goto, locals, TypeOK
<1>7. CASE ReleaseLock(g)
  BY <1>7 DEF ReleaseLock, Goto, TypeOK
<1>8. CASE Defer(g) \/ Increment(g)
  <2>1. pc[g] = "gate" /\ job[g] = t /\ seen[g] < MaxRetries /\ seen[g] \in Nat
    BY <1>8 DEF Defer, Increment, locals, TypeOK
  <2>2. QED
    BY <2>1
<1>9. CASE \/ Reschedule(g) \/ Dial(g) \/ DialLost(g) \/ DialFails(g)
           \/ EndLocalCall(g) \/ RecordCompleted(g) \/ RecordInProgress(g)
           \/ RecordFailed(g) \/ MarkDedup(g) \/ Except(g)
  <2>1. pc[g] \in {"reschedule", "dial", "calling", "record", "dedup", "except"} /\ job[g] = t
    BY <1>9 DEF Reschedule, Dial, DialLost, DialFails, EndLocalCall, RecordCompleted,
           RecordInProgress, RecordFailed, MarkDedup, Except, locals
  <2>2. QED
    BY <2>1
<1>10. ~Raise(g)
  BY DEF Raise, Raises
<1>11. QED
  BY <1>1, <1>2, <1>3, <1>4, <1>5, <1>6, <1>7, <1>8, <1>9, <1>10, OneSlotMoves

(* A scanner that has read that a task was given up writes nothing; it may *)
(* write another task.                                                     *)
LEMMA OverwriteOther ==
  ASSUME TypeOK, NEW t \in Tasks, NEW u \in Tasks \ {t}, NEW st, NEW r, NEW e,
         Overwrite(u, st, r, e)
  PROVE  UNCHANGED <<status[t], retry[t], error[t]>>
BY DEF Overwrite, SetStatus, TypeOK

LEMMA ScannersKeepGivenUp ==
  ASSUME RunTypeOK, PollsInProgress, RunNext, ~ActivityStep, NEW t \in Tasks, DocGivenUp(t),
         ImagesAgree(t)
  PROVE  DocGivenUp(t)'
<1> USE DEF DocGivenUp
<1>0. TypeOK
  BY DEF RunTypeOK
<1>1. ASSUME NEW u \in Tasks,
             \/ CallRetry(u) \/ CallAgainLater(u) \/ CallGivenUp(u) \/ CallCompleted(u)
      PROVE  DocGivenUp(t)'
  <2>1. u # t
    BY <1>1, RunAssumption DEF CallRetry, CallAgainLater, CallGivenUp, CallCompleted,
           Polling, PollsInProgress, ImagesAgree
  <2>2. \E st, r, e : Overwrite(u, st, r, e)
    BY <1>1 DEF CallRetry, CallAgainLater, CallGivenUp, CallCompleted
  <2>3. UNCHANGED <<status[t], retry[t], error[t]>>
    BY <1>0, <2>1, <2>2, OverwriteOther
  <2>4. QED
    BY <2>3
<1>2. ASSUME NEW s \in Scanners, NEW u \in Tasks, Mark(s, u) PROVE DocGivenUp(t)'
  <2>1. CASE UNCHANGED docs
    BY <2>1 DEF docs, taskVars
  <2>2. ASSUME NEW st \in Marks(image[s][u]), NEW r, NEW e, Overwrite(u, st, r, e)
        PROVE  DocGivenUp(t)'
    <3>1. u # t
      <4>1. image[s][t] # NoImage => Marks(image[s][t]) = {}
        BY DEF ImagesAgree, Marks, RetryableErrors, ApiErrors, Unanswered, Refused
      <4>2. image[s][u] # NoImage
        BY <1>2 DEF Mark
      <4>3. QED
        BY <2>2, <4>1, <4>2
    <3>2. UNCHANGED <<status[t], retry[t], error[t]>>
      BY <1>0, <2>2, <3>1, OverwriteOther
    <3>3. QED
      BY <3>2
  <2>3. UNCHANGED docs \/ \E st \in Marks(image[s][u]) : \E r, e : Overwrite(u, st, r, e)
    BY <1>2 DEF Mark
  <2>4. QED
    BY <2>1, <2>2, <2>3
<1>3. CASE StartCron \/ Query \/ CronTally \/ CronWriteRun \/ Count
  BY <1>3 DEF StartCron, Query, CronTally, CronWriteRun, Count, docs, taskVars
<1>4. ASSUME NEW u \in Tasks, StillOn(u) \/ CreateDelayed(u) \/ LaterDue(u) \/ Age(u)
      PROVE  DocGivenUp(t)'
  BY <1>4 DEF StillOn, CreateDelayed, LaterDue, Age, docs, vars, taskVars
<1>5. ASSUME NEW s \in Scanners,
             \/ List(s) \/ Scan(s) \/ AfterCheck(s) \/ EndRun(s) \/ StartCheck(s)
             \/ StartRun(s) \/ ScanCrash(s)
             \/ \E u \in Tasks : TriggerTask(s, u) \/ CreateRedial(s, u) \/ AgeRead(s, u)
      PROVE  DocGivenUp(t)'
  BY <1>5 DEF List, Scan, AfterCheck, EndRun, StartCheck, StartRun, ScanCrash,
              TriggerTask, CreateRedial, AgeRead, docs, vars, taskVars
<1>7. ASSUME NEW s \in Scanners, NEW u \in Tasks, Redial(s, u) PROVE DocGivenUp(t)'
  <2>1. u # t
    BY <1>7 DEF Redial, Polling, PollsInProgress, ByWorkflow, ApiErrors,
           ImagesAgree
  <2>2. QED
    BY <1>0, <1>7, <2>1 DEF Redial, SetStatus, TypeOK
<1>6. QED
  BY <1>1, <1>2, <1>3, <1>4, <1>5, <1>7, RunNextCases

(* What a scanner reads of a task given up is that it is given up.         *)
LEMMA SnapshotAgrees ==
  ASSUME ImagesOK, NEW t \in Tasks, DocGivenUp(t), ImagesAgree(t),
         NEW z \in Scanners, NEW S \in SUBSET Tasks,
         image' = [image EXCEPT ![z] = Snapshot(S)]
  PROVE  ImagesAgree(t)'
<1> SUFFICES ASSUME NEW s \in Scanners, image'[s][t] # NoImage
             PROVE  image'[s][t].status = "failed" /\ image'[s][t].error = "max_retries"
  BY DEF ImagesAgree
<1>1. CASE s = z
  <2>1. image'[s] = Snapshot(S)
    BY <1>1 DEF ImagesOK
  <2>2. image'[s][t] = Read(t)
    BY <2>1 DEF Snapshot
  <2>3. QED
    BY <2>2 DEF Read, DocGivenUp
<1>2. CASE s # z
  BY <1>2 DEF ImagesAgree, ImagesOK
<1>3. QED
  BY <1>1, <1>2

LEMMA DecidedAgrees ==
  ASSUME ImagesOK, NEW t \in Tasks, ImagesAgree(t), NEW z \in Scanners, NEW u \in Tasks,
         Decided(z, u)
  PROVE  ImagesAgree(t)'
<1> SUFFICES ASSUME NEW s \in Scanners, image'[s][t] # NoImage
             PROVE  image'[s][t] = image[s][t]
  BY DEF ImagesAgree
<1>1. image' = [image EXCEPT ![z] = [image[z] EXCEPT ![u] = NoImage]]
  BY DEF Decided
<1>2. CASE s = z
  <2>1. image'[s] = [image[s] EXCEPT ![u] = NoImage]
    BY <1>1, <1>2 DEF ImagesOK
  <2>2. QED
    BY <2>1 DEF ImagesOK
<1>3. CASE s # z
  BY <1>1, <1>3 DEF ImagesOK
<1>4. QED
  BY <1>2, <1>3

(* Nor does what is done about a task change what was read of any.         *)
LEMMA EditAgrees ==
  ASSUME ImagesOK, NEW t \in Tasks, ImagesAgree(t), NEW z \in Scanners, NEW u \in Tasks,
         image[z][u] # NoImage, NEW im \in Image,
         im.status = image[z][u].status, im.error = image[z][u].error,
         image' = [image EXCEPT ![z] = [image[z] EXCEPT ![u] = im]]
  PROVE  ImagesAgree(t)'
<1> SUFFICES ASSUME NEW s \in Scanners, image'[s][t] # NoImage
             PROVE  image'[s][t].status = "failed" /\ image'[s][t].error = "max_retries"
  BY DEF ImagesAgree
<1>1. CASE s = z /\ u = t
  <2>1. image'[s] = [image[s] EXCEPT ![t] = im]
    BY <1>1 DEF ImagesOK
  <2>2. image'[s][t] = im
    BY <2>1 DEF ImagesOK
  <2>3. QED
    BY <1>1, <2>2 DEF ImagesAgree
<1>2. CASE ~(s = z /\ u = t)
  <2>1. image'[s][t] = image[s][t]
    <3>1. CASE s # z
      BY <3>1 DEF ImagesOK
    <3>2. CASE s = z /\ u # t
      <4>1. image'[s] = [image[s] EXCEPT ![u] = im]
        BY <3>2 DEF ImagesOK
      <4>2. QED
        BY <3>2, <4>1 DEF ImagesOK
    <3>3. QED
      BY <1>2, <3>1, <3>2
  <2>2. QED
    BY <2>1 DEF ImagesAgree
<1>3. QED
  BY <1>1, <1>2

LEMMA HasDoneAgrees ==
  ASSUME ImagesOK, NEW t \in Tasks, ImagesAgree(t), NEW z \in Scanners, NEW u \in Tasks,
         image[z][u] # NoImage, NEW step \in {"later", "redial", "created"},
         HasDone(z, u, step)
  PROVE  ImagesAgree(t)'
<1> DEFINE im == [image[z][u] EXCEPT !.step = step]
<1>1. image[z][u] \in Image
  BY DEF ImagesOK
<1>2. im \in Image /\ im.status = image[z][u].status /\ im.error = image[z][u].error
  BY <1>1 DEF Image
<1>3. image' = [image EXCEPT ![z] = [image[z] EXCEPT ![u] = im]]
  BY DEF HasDone
<1> HIDE DEF im
<1>4. QED
  BY <1>2, <1>3, EditAgrees

LEMMA ImagesKeepAgreeing ==
  ASSUME RunTypeOK, RunNext, NEW t \in Tasks, DocGivenUp(t), ImagesAgree(t)
  PROVE  ImagesAgree(t)'
<1> USE RunAssumption
<1>0. ImagesOK
  BY DEF RunTypeOK
<1>1. CASE ActivityStep
  <2> SUFFICES ASSUME NEW s \in Scanners, image'[s][t] # NoImage
               PROVE  image'[s][t].status = "failed" /\ image'[s][t].error = "max_retries"
    BY DEF ImagesAgree
  <2>1. CASE s # Cron
    BY <1>0, <1>1, <2>1 DEF ActivityStep, ImagesAgree, ImagesOK
  <2>2. CASE s = Cron
    <3>1. image'[s][t] = IF Polling(t, "read") /\ Redialled(t)
                         THEN [image[s][t] EXCEPT !.older = TRUE] ELSE image[s][t]
      BY <1>0, <1>1, <2>2 DEF ActivityStep, ImagesOK
    <3>2. image[s][t] # NoImage
      BY <2>2, <3>1 DEF Polling
    <3>3. image[s][t] \in Image /\ image[s][t].status = "failed"
          /\ image[s][t].error = "max_retries"
      BY <1>0, <3>2 DEF ImagesAgree, ImagesOK
    <3>4. ASSUME NEW im \in Image
          PROVE  LET new == [im EXCEPT !.older = TRUE]
                 IN new.status = im.status /\ new.error = im.error
      BY DEF Image
    <3>5. QED
      BY <3>1, <3>3, <3>4
  <2>3. QED
    BY <2>1, <2>2
<1>2. CASE StartCron
  BY <1>0, <1>2, SnapshotAgrees DEF StartCron
<1>3. ASSUME NEW s \in Scanners, Scan(s) PROVE ImagesAgree(t)'
  <2>1. CASE UNCHANGED image
    BY <2>1 DEF ImagesAgree
  <2>2. CASE ~UNCHANGED image
    BY <1>0, <1>3, <2>2, SnapshotAgrees DEF Scan
  <2>3. QED
    BY <2>1, <2>2
<1>4. ASSUME NEW s \in Scanners, ScanCrash(s) PROVE ImagesAgree(t)'
  BY <1>0, <1>4 DEF ScanCrash, ImagesAgree, ImagesOK, Nothing
<1>5. ASSUME NEW u \in Tasks, CallAgainLater(u) PROVE ImagesAgree(t)'
  BY <1>0, <1>5, HasDoneAgrees DEF CallAgainLater, Polling
<1>12. ASSUME NEW s \in Scanners, NEW u \in Tasks, Redial(s, u) \/ CreateRedial(s, u)
       PROVE  ImagesAgree(t)'
  <2>1. \/ image[s][u] # NoImage /\ HasDone(s, u, "redial")
        \/ image[s][u] # NoImage /\ HasDone(s, u, "created")
        \/ Decided(s, u)
    BY <1>12 DEF Redial, CreateRedial, Polling
  <2>2. QED
    BY <1>0, <2>1, HasDoneAgrees, DecidedAgrees
<1>13. ASSUME NEW s \in Scanners, NEW u \in Tasks, AgeRead(s, u) PROVE ImagesAgree(t)'
  <2> DEFINE im == [image[s][u] EXCEPT !.aged = TRUE]
  <2>1. image[s][u] \in Image /\ image[s][u] # NoImage
    BY <1>0, <1>13 DEF AgeRead, ImagesOK
  <2>2. im \in Image /\ im.status = image[s][u].status /\ im.error = image[s][u].error
    BY <2>1 DEF Image
  <2>3. image' = [image EXCEPT ![s] = [image[s] EXCEPT ![u] = im]]
    BY <1>13 DEF AgeRead
  <2> HIDE DEF im
  <2>4. QED
    BY <1>0, <2>1, <2>2, <2>3, EditAgrees
<1>6. ASSUME NEW u \in Tasks,
             \/ StillOn(u) \/ CallRetry(u) \/ CreateDelayed(u) \/ CallGivenUp(u)
             \/ CallCompleted(u)
      PROVE  ImagesAgree(t)'
  BY <1>0, <1>6, DecidedAgrees DEF StillOn, CallRetry, CreateDelayed, CallGivenUp,
                                   CallCompleted
<1>7. ASSUME NEW s \in Scanners, NEW u \in Tasks, Mark(s, u) PROVE ImagesAgree(t)'
  BY <1>0, <1>7, DecidedAgrees DEF Mark
<1>8. CASE Query \/ CronTally \/ CronWriteRun \/ Count
  BY <1>8 DEF Query, CronTally, CronWriteRun, Count, ImagesAgree
<1>9. ASSUME NEW u \in Tasks, LaterDue(u) \/ Age(u) PROVE ImagesAgree(t)'
  BY <1>9 DEF LaterDue, Age, scanVars, ImagesAgree
<1>10. ASSUME NEW s \in Scanners,
              \/ List(s) \/ AfterCheck(s) \/ EndRun(s) \/ StartCheck(s)
              \/ StartRun(s) \/ \E u \in Tasks : TriggerTask(s, u)
       PROVE  ImagesAgree(t)'
  BY <1>10 DEF List, AfterCheck, EndRun, StartCheck, StartRun, TriggerTask, ImagesAgree
<1>11. QED
  BY <1>1, <1>2, <1>3, <1>4, <1>5, <1>6, <1>7, <1>8, <1>9, <1>10, <1>12, <1>13,
     RunNextCases

(* As long as no call of the activity raises, a task given up stays given  *)
(* up: a flow run finds its attempts used up and writes the same again,    *)
(* the cron does not poll it, and the scans have no rule for its error.    *)
(* Workers and scanners may die, and an activity may outlive its lock.     *)
THEOREM GivenUpStays ==
  ASSUME "raise" \notin Faults
  PROVE  RunSpec => GivenUpForGood
<1>1. ASSUME RunTypeOK, PollsInProgress, RunNext, NEW t \in Tasks, GivenUp(t)
      PROVE  GivenUp(t)'
  <2>1. /\ TypeOK /\ DocGivenUp(t) /\ ImagesAgree(t)
        /\ \A f \in Flows : InSection(f, t) => SlotAgrees(f)
    BY <1>1, GivenUpIs DEF RunTypeOK
  <2>2. DocGivenUp(t)'
    BY <1>1, <2>1, ActivityIsNext, ActivityGivesUp, ScannersKeepGivenUp
  <2>3. ImagesAgree(t)'
    BY <1>1, <2>1, ImagesKeepAgreeing
  <2>4. ASSUME NEW f \in Flows, InSection(f, t)' PROVE SlotAgrees(f)'
    <3>1. CASE ActivityStep
      BY <1>1, <2>1, <2>4, <3>1, ActivityIsNext, SlotKeepsAgreeing
    <3>2. CASE ~ActivityStep
      BY <1>1, <2>1, <2>4, <3>2, SlotsRest DEF slotVars, locals, InSection, SlotAgrees
    <3>3. QED
      BY <3>1, <3>2
  <2>5. QED
    BY <2>2, <2>3, <2>4, GivenUpIsNext
<1>2. RunTypeOK /\ PollsInProgress /\ [RunNext]_runVars =>
        [\A t \in Tasks : GivenUp(t) => GivenUp(t)']_runVars
  BY <1>1
<1>3. RunInit => PollsInProgress
  BY RunAssumption DEF RunInit, PollsInProgress
<1>4. RunTypeOK /\ PollsInProgress /\ [RunNext]_runVars => PollsInProgress'
  BY PollsPreserved
<1>5. QED
  BY <1>2, <1>3, <1>4, RunTypeCorrect, PTL DEF RunSpec, GivenUpForGood
-----------------------------------------------------------------------------
(* Scheduled tasks.                                                        *)

(* Only a call that ran in a worker is seen to complete, so only tasks of  *)
(* such calls get into the deduplication cache.                            *)
LEMMA LocalsPreserved ==
  ASSUME TypeOK, OnlyLocalsComplete, [Next]_vars
  PROVE  OnlyLocalsComplete'
<1> DEFINE Mine(f) == pc[f] \in {"calling", "dedup"} \/ response[f] = "completed" =>
                        pc[f] # "idle" /\ Local(f)
<1>1. ASSUME NEW g \in Flows PROVE Mine(g)'
  <2>0. Mine(g) /\ pc[g] \in Points /\ job[g] \in Tasks \cup {NoTask}
    BY DEF OnlyLocalsComplete, TypeOK
  <2>1. CASE pc'[g] = pc[g] /\ job'[g] = job[g] /\ response'[g] = response[g]
    BY <2>0, <2>1 DEF Local
  <2>2. CASE CheckDedup(g) \/ AcquireLock(g) \/ ReadTask(g)
    BY <2>0, <2>2 DEF CheckDedup, AcquireLock, ReadTask, Return, Goto, Local, locals, TypeOK
  <2>3. CASE \/ CompareAndSet(g) \/ GiveUp(g) \/ Defer(g) \/ Reschedule(g) \/ Increment(g)
    BY <2>0, <2>3 DEF CompareAndSet, GiveUp, Defer, Reschedule, Increment, Respond, Goto,
                      Local, locals, TypeOK
  <2>4. CASE Dial(g) \/ DialFails(g) \/ EndLocalCall(g)
    BY <2>0, <2>4 DEF Dial, DialFails, EndLocalCall, Respond, Goto, Local, TypeOK
  <2>10. CASE DialLost(g)
    <3>1. pc'[g] \in {"record", "except"} /\ job' = job /\ Mine(g)
      BY <2>0, <2>10 DEF DialLost, Goto, TypeOK
    <3>2. \/ response'[g] = response[g]
          \/ response'[g] \in {"in_progress", "failed"}
      BY <2>10 DEF DialLost, Respond, TypeOK
    <3>3. pc[g] = "dial"
      BY <2>10 DEF DialLost
    <3>4. QED
      BY <3>1, <3>2, <3>3 DEF Local
  <2>5. CASE \/ RecordCompleted(g) \/ RecordInProgress(g) \/ RecordFailed(g)
             \/ MarkDedup(g) \/ Tally(g) \/ WriteRun(g)
    BY <2>0, <2>5 DEF RecordCompleted, RecordInProgress, RecordFailed, MarkDedup, Tally,
                      WriteRun, Goto, Local, locals, TypeOK
  <2>6. CASE Raise(g) \/ Except(g) \/ ReleaseLock(g)
    BY <2>0, <2>6 DEF Raise, Except, ReleaseLock, Goto, Local, locals, TypeOK
  <2>7. CASE Decrement(g) \/ Crash(g)
    BY <2>7 DEF Decrement, Crash, Return, Goto, TypeOK
  <2>8. CASE \E t \in Tasks : Start(g, t)
    BY <2>0, <2>8 DEF Start, Goto, TypeOK
  <2>9. QED
    BY <2>1, <2>2, <2>3, <2>4, <2>5, <2>6, <2>7, <2>8, <2>10, OneSlotMoves
<1>2. ASSUME NEW t \in Tasks, dedup'[t] PROVE Provider[t] = "pipecat"
  <2>1. CASE dedup[t]
    BY <2>1 DEF OnlyLocalsComplete
  <2>2. ASSUME ~dedup[t], NEW f \in Flows, MarkDedup(f) PROVE Provider[t] = "pipecat"
    BY <1>2, <2>2 DEF MarkDedup, OnlyLocalsComplete, Local, TypeOK
  <2>3. CASE ~dedup[t] /\ UNCHANGED vars
    BY <1>2, <2>3 DEF vars, redis
  <2>4. CASE ~dedup[t] /\ Next /\ \A f \in Flows : ~MarkDedup(f)
    BY <1>2, <2>4, NextCases
       DEF CheckDedup, AcquireLock, ReadTask, CompareAndSet, GiveUp, Defer, Reschedule,
           Increment, Dial, DialLost, DialFails, EndLocalCall, RecordCompleted,
           RecordInProgress, RecordFailed, Tally, WriteRun, Raise, Except, ReleaseLock,
           Decrement, Crash, Start, Trigger, ComesDue, LockExpires, DedupExpires, HangUp,
           redis, TypeOK
  <2>5. QED
    BY <2>1, <2>2, <2>3, <2>4
<1>3. QED
  BY <1>1, <1>2 DEF OnlyLocalsComplete

(* A scheduled task is seen coming.                                        *)
SeenComing(t) ==
  /\ InSight(t)
  /\ \A f \in Flows : InSection(f, t) /\ pc[f] \notin Deciding => Outlasts(t, f)

(* What the cron has in mind and in Prefect outlasts an activity's step.   *)
LEMMA ActingStays ==
  ASSUME RunTypeOK, ActivityStep, NEW t \in Tasks, Acting(t)
  PROVE  Acting(t)'
<1>1. image'[Cron][t] = image[Cron][t]
  BY RunAssumption DEF Acting, Polling, ActivityStep, RunTypeOK, ImagesOK
<1>2. at' = at
  BY DEF ActivityStep
<1>3. QED
  BY <1>1, <1>2 DEF Acting

LEMMA LaterStays ==
  ASSUME ActivityStep, NEW t \in Tasks
  PROVE  /\ later[t] # {} => later'[t] # {}
         /\ \A f \in Flows : InSection(f, t)' /\ (\E ahead \in later[t] : f \in ahead) =>
              \E ahead \in later'[t] : f \in ahead
<1> DEFINE Still(ahead) == {f \in ahead : InSection(f, t)'}
<1>1. later'[t] = {Still(ahead) : ahead \in later[t]}
  BY DEF ActivityStep
<1>2. \A ahead \in later[t] : Still(ahead) \in later'[t]
  <2> HIDE DEF Still
  <2>1. QED
    BY <1>1
<1>3. ASSUME NEW f \in Flows, InSection(f, t)', NEW ahead \in later[t], f \in ahead
      PROVE  \E rest \in later'[t] : f \in rest
  <2>1. f \in Still(ahead)
    BY <1>3
  <2> HIDE DEF Still
  <2>2. QED
    BY <1>2, <2>1
<1> HIDE DEF Still
<1>4. QED
  BY <1>2, <1>3

(* An activity makes a task scheduled in one place, under the lock.        *)
LEMMA ScheduledByDefer ==
  ASSUME TypeOK, [Next]_vars, NEW t \in Tasks, status[t] # "scheduled",
         status'[t] = "scheduled"
  PROVE  \E f \in Flows : Defer(f) /\ job[f] = t
<1>1. CASE UNCHANGED vars
  BY <1>1 DEF vars, taskVars
<1>2. ASSUME NEW f \in Flows, Defer(f) PROVE job[f] = t
  BY <1>2 DEF Defer, TypeOK
<1>3. ASSUME NEW f \in Flows,
             \/ CompareAndSet(f) \/ GiveUp(f) \/ RecordCompleted(f) \/ RecordInProgress(f)
             \/ RecordFailed(f) \/ Except(f)
      PROVE  FALSE
  BY <1>3 DEF CompareAndSet, GiveUp, RecordCompleted, RecordInProgress, RecordFailed,
              Except, SetStatus, TypeOK
<1>4. ASSUME NEW f \in Flows,
             \/ CheckDedup(f) \/ AcquireLock(f) \/ ReadTask(f) \/ Reschedule(f)
             \/ Increment(f) \/ Dial(f) \/ DialLost(f) \/ DialFails(f)
             \/ EndLocalCall(f) \/ MarkDedup(f) \/ Tally(f) \/ WriteRun(f)
             \/ Raise(f) \/ ReleaseLock(f) \/ Decrement(f) \/ Crash(f)
             \/ \E u \in Tasks : Start(f, u)
      PROVE  FALSE
  BY <1>4 DEF CheckDedup, AcquireLock, ReadTask, Reschedule, Increment, Dial, DialLost,
              DialFails, EndLocalCall, MarkDedup, Tally, WriteRun, Raise, ReleaseLock,
              Decrement, Crash, Start, taskVars
<1>5. ASSUME NEW u \in Tasks, \/ Trigger(u) \/ ComesDue(u) \/ LockExpires(u)
                              \/ DedupExpires(u) \/ HangUp(u)
      PROVE  FALSE
  BY <1>5 DEF Trigger, ComesDue, LockExpires, DedupExpires, HangUp, taskVars
<1>6. QED
  BY <1>1, <1>2, <1>3, <1>4, <1>5, NextCases

LEMMA DeferredIsSeenComing ==
  ASSUME TypeOK, LockHeld', [Next]_vars, "raise" \notin Faults, NEW t \in Tasks,
         status[t] # "scheduled", status'[t] = "scheduled"
  PROVE  SeenComing(t)'
<1>1. PICK f \in Flows : Defer(f) /\ job[f] = t
  BY ScheduledByDefer
<1>2. pc'[f] = "reschedule" /\ job'[f] = t
  BY <1>1 DEF Defer, Raises, Goto, locals, TypeOK
<1>3. ASSUME NEW g \in Flows, InSection(g, t)' PROVE g = f
  BY <1>2, <1>3 DEF LockHeld, InSection, Section, TryBody
<1>4. QED
  BY <1>2, <1>3 DEF SeenComing, InSight, Deciding

(* The slot that has a scheduled task in hand goes on with it, writes it   *)
(* another status, delays a flow run, or leaves it to the slot that holds  *)
(* the lock.                                                               *)
LEMMA InSightStays ==
  ASSUME RunTypeOK, LockNamesHolder, OnlyLocalsComplete, ActivityStep,
         "crash" \notin Faults, "raise" \notin Faults, MaxQueued > 0,
         NEW t \in Tasks, Provider[t] # "pipecat", SeenComing(t),
         status[t] = "scheduled", status'[t] = "scheduled"
  PROVE  InSight(t)'
<1> USE DEF InSight
<1>0. TypeOK /\ [Next]_vars
  BY ActivityIsNext DEF RunTypeOK
<1>1. CASE queued[t] > 0
  <2>1. ASSUME NEW f \in Flows, Start(f, t) PROVE InSight(t)'
    <3>1. job'[f] = t /\ pc'[f] = "check"
      BY <1>0, <2>1 DEF Start, Goto, TypeOK
    <3>2. QED
      BY <3>1 DEF Deciding
  <2>2. QED
    BY <1>0, <1>1, <2>1, QueuedStays
<1>2. CASE delayed[t] > 0
  <2>1. CASE ComesDue(t)
    <3>1. queued'[t] > 0
      BY <1>0, <2>1, ConstantsAssumption DEF ComesDue, Add, TypeOK
    <3>2. QED
      BY <3>1
  <2>2. QED
    BY <1>0, <1>2, <2>1, DelayedStays
<1>3. CASE later[t] # {}
  BY <1>3, LaterStays
<1>4. CASE Acting(t)
  BY <1>4, ActingStays
<1>5. ASSUME NEW g \in Flows, job[g] = t, pc[g] \in Deciding PROVE InSight(t)'
  <2> DEFINE GoesOn == job'[g] = t /\ pc'[g] \in Deciding
  <2>0. GoesOn => InSight(t)'
    OBVIOUS
  <2> USE <1>0, <1>5
  <2>1. CASE pc'[g] = pc[g] /\ job'[g] = job[g]
    BY <2>0, <2>1
  <2>2. CASE CheckDedup(g)
    <3>1. ~AlreadyProcessed(t)
      BY DEF AlreadyProcessed, OnlyLocalsComplete
    <3>2. GoesOn
      BY <2>2, <3>1 DEF CheckDedup, Raises, Goto, locals, Deciding, TypeOK
    <3>3. QED
      BY <2>0, <3>2
  <2>3. CASE AcquireLock(g)
    <3>1. CASE lock[t] = NoFlow
      <4>1. GoesOn
        BY <2>3, <3>1 DEF AcquireLock, Raises, Goto, locals, Deciding, TypeOK
      <4>2. QED
        BY <2>0, <4>1
    <3>2. CASE lock[t] # NoFlow
      <4> DEFINE h == lock[t]
      <4>1. h \in Flows /\ InSection(h, t)
        BY <3>2 DEF LockNamesHolder, TypeOK
      <4>2. CASE pc[h] \in Deciding
        <5>1. h # g
          BY <2>3, <4>1 DEF AcquireLock, InSection, Section, TryBody
        <5>2. pc'[h] = pc[h] /\ job'[h] = job[h]
          BY <2>3, <4>1, <5>1 DEF AcquireLock, Return, Goto, locals, TypeOK
        <5>3. pc'[h] \in Deciding /\ job'[h] = t
          BY <4>1, <4>2, <5>2 DEF InSection
        <5>4. QED
          BY <4>1, <5>3
      <4>3. CASE pc[h] \notin Deciding
        <5>1. Outlasts(t, h)
          BY <4>1, <4>3 DEF SeenComing
        <5>2. CASE delayed[t] > 0
          BY <1>2, <5>2
        <5>3. QED
          BY <1>2, <1>3, <1>4, <5>1 DEF Outlasts
      <4>4. QED
        BY <4>2, <4>3
    <3>3. QED
      BY <3>1, <3>2
  <2>4. CASE ReadTask(g) \/ CompareAndSet(g) \/ Defer(g) \/ Increment(g)
    <3>1. GoesOn
      BY <2>4 DEF ReadTask, CompareAndSet, Defer, Increment, Raises, Goto, locals, Deciding,
                  TypeOK
    <3>2. QED
      BY <2>0, <3>1
  <2>5. CASE Dial(g) \/ DialFails(g) \/ EndLocalCall(g)
    <3>1. GoesOn
      BY <2>5 DEF Dial, DialFails, EndLocalCall, Goto, Deciding, TypeOK
    <3>2. QED
      BY <2>0, <3>1
  <2>6. CASE Reschedule(g)
    <3>1. delayed'[t] > 0
      BY <2>6, ConstantsAssumption DEF Reschedule, Add, TypeOK
    <3>2. QED
      BY <3>1
  <2>7. ~(GiveUp(g) \/ RecordCompleted(g) \/ RecordInProgress(g) \/ RecordFailed(g))
    BY DEF GiveUp, RecordCompleted, RecordInProgress, RecordFailed, SetStatus, TypeOK
  <2>8. ~(DialLost(g) \/ Raise(g) \/ Crash(g))
    BY DEF DialLost, Raise, Raises, Crash
  <2>9. ~(\/ MarkDedup(g) \/ Tally(g) \/ WriteRun(g) \/ Except(g) \/ ReleaseLock(g)
          \/ Decrement(g) \/ \E u \in Tasks : Start(g, u))
    BY DEF MarkDedup, Tally, WriteRun, Except, ReleaseLock, Decrement, Start, Deciding
  <2>10. QED
    BY <2>1, <2>2, <2>3, <2>4, <2>5, <2>6, <2>7, <2>8, <2>9, OneSlotMoves
<1>6. QED
  BY <1>1, <1>2, <1>3, <1>4, <1>5 DEF SeenComing

(* A slot that is past its write is outlasted until it has deleted the     *)
(* lock; whoever comes to be past it has delayed a flow run.               *)
LEMMA OutlastedStays ==
  ASSUME RunTypeOK, OnlyLocalsComplete, ActivityStep,
         "crash" \notin Faults, "raise" \notin Faults, MaxQueued > 0,
         NEW t \in Tasks, Provider[t] # "pipecat", SeenComing(t),
         status'[t] = "scheduled",
         NEW g \in Flows, InSection(g, t)', pc'[g] \notin Deciding
  PROVE  Outlasts(t, g)'
<1> USE DEF Outlasts
<1>0. TypeOK /\ [Next]_vars /\ job'[g] = t
  BY ActivityIsNext DEF RunTypeOK, InSection
<1>1. ASSUME InSection(g, t), pc[g] \notin Deciding, pc[g] = "release" => pc'[g] = "release"
      PROVE  Outlasts(t, g)'
  <2>1. CASE pc[g] = "release" /\ delayed[t] > 0
    <3>1. ~ComesDue(t)
      BY <1>1, <2>1 DEF ComesDue
    <3>2. delayed'[t] > 0
      BY <1>0, <2>1, <3>1, DelayedStays
    <3>3. QED
      BY <1>1, <2>1, <3>2
  <2>2. CASE Acting(t)
    BY <2>2, ActingStays
  <2>3. CASE \E ahead \in later[t] : g \in ahead
    BY <2>3, LaterStays
  <2>4. QED
    BY <1>1, <2>1, <2>2, <2>3 DEF SeenComing
<1>2. CASE pc'[g] = pc[g] /\ job'[g] = job[g]
  BY <1>0, <1>1, <1>2 DEF InSection
<1>3. CASE Tally(g) \/ WriteRun(g) \/ Except(g)
  <2>1. job[g] = t /\ pc[g] \in {"tally", "runwrite", "except"}
    BY <1>0, <1>3 DEF Tally, WriteRun, Except, locals
  <2>2. QED
    BY <1>1, <2>1 DEF InSection, Section, TryBody, Deciding
<1>4. ~MarkDedup(g)
  <2>1. ASSUME MarkDedup(g) PROVE FALSE
    <3>1. pc[g] = "dedup" /\ job[g] = t
      BY <1>0, <2>1 DEF MarkDedup, locals
    <3>2. QED
      BY <3>1 DEF OnlyLocalsComplete, Local
  <2>2. QED
    BY <2>1
<1>5. CASE Reschedule(g)
  <2>1. job[g] = t /\ pc'[g] = "release"
    BY <1>0, <1>5 DEF Reschedule, Raises, Goto, TypeOK
  <2>3. delayed'[t] > 0
    BY <1>0, <1>5, <2>1, ConstantsAssumption DEF Reschedule, Add, TypeOK
  <2>2. QED
    BY <2>1, <2>3
<1>6. ~(GiveUp(g) \/ RecordCompleted(g) \/ RecordInProgress(g) \/ RecordFailed(g))
  <2>1. ~(GiveUp(g) \/ RecordCompleted(g) \/ RecordFailed(g))
    BY <1>0 DEF GiveUp, RecordCompleted, RecordFailed, SetStatus, locals, TypeOK
  <2>2. ~RecordInProgress(g)
    BY <1>0 DEF RecordInProgress, SetStatus, locals, TypeOK
  <2>3. QED
    BY <2>1, <2>2
<1>7. ~(\/ CheckDedup(g) \/ AcquireLock(g) \/ ReadTask(g) \/ CompareAndSet(g)
        \/ Defer(g) \/ Increment(g))
  BY <1>0 DEF CheckDedup, AcquireLock, ReadTask, CompareAndSet, Defer, Increment, Raises,
              Return, Goto, InSection, Section, TryBody, Deciding, TypeOK
<1>8. ~(Dial(g) \/ DialFails(g) \/ EndLocalCall(g) \/ DialLost(g) \/ Raise(g))
  BY <1>0 DEF Dial, DialFails, EndLocalCall, DialLost, Raise, Raises, Goto, Deciding, TypeOK
<1>9. ~(\/ ReleaseLock(g) \/ Decrement(g) \/ Crash(g) \/ \E u \in Tasks : Start(g, u))
  BY <1>0 DEF ReleaseLock, Decrement, Crash, Start, Return, Goto, InSection, Section,
              TryBody, TypeOK
<1>10. QED
  BY <1>0, <1>2, <1>3, <1>4, <1>5, <1>6, <1>7, <1>8, <1>9, OneSlotMoves

(* A scanner's step that takes nothing from a scheduled task.              *)
TakesNothing(t) ==
  /\ status[t] = "scheduled"
  /\ queued[t] > 0 => queued'[t] > 0
  /\ delayed[t] > 0 => delayed'[t] > 0
  /\ later[t] \subseteq later'[t]
  /\ Acting(t) => Acting(t)'

LEMMA UntouchedSeenComing ==
  ASSUME NEW t \in Tasks, SeenComing(t), TakesNothing(t), UNCHANGED slotVars
  PROVE  SeenComing(t)'
<1>1. pc' = pc /\ job' = job
  BY DEF slotVars, locals
<1>2. InSight(t)'
  BY <1>1 DEF SeenComing, InSight, TakesNothing
<1>3. ASSUME NEW f \in Flows, InSection(f, t)', pc'[f] \notin Deciding
      PROVE  Outlasts(t, f)'
  <2>1. Outlasts(t, f)
    BY <1>1, <1>3 DEF SeenComing, InSection
  <2>2. QED
    BY <1>1, <2>1 DEF Outlasts, TakesNothing
<1>4. QED
  BY <1>2, <1>3 DEF SeenComing

(* The cron decides about one task at a time.                              *)
LEMMA DecidedStays ==
  ASSUME ImagesOK, NEW t \in Tasks, NEW u \in Tasks \ {t}, NEW new,
         image' = [image EXCEPT ![Cron][u] = new], UNCHANGED at
  PROVE  Acting(t) => Acting(t)'
<1>1. image' = [image EXCEPT ![Cron] = [image[Cron] EXCEPT ![u] = new]]
  OBVIOUS
<1>2. image'[Cron][t] = image[Cron][t]
  BY <1>1, RunAssumption DEF ImagesOK
<1>3. QED
  BY <1>2 DEF Acting

(* What it has done about a task it goes on with.                          *)
LEMMA HasDoneActs ==
  ASSUME ImagesOK, NEW t \in Tasks, image[Cron][t] # NoImage,
         NEW step \in {"later", "redial", "created"}, HasDone(Cron, t, step),
         at'[Cron] = "poll"
  PROVE  Acting(t)'
<1> DEFINE im == [image[Cron][t] EXCEPT !.step = step]
<1>1. image[Cron][t] \in Image
  BY RunAssumption DEF ImagesOK
<1>2. im \in Image /\ im.step # "read"
  BY <1>1 DEF Image
<1>3. image' = [image EXCEPT ![Cron] = [image[Cron] EXCEPT ![t] = im]]
  BY DEF HasDone
<1> HIDE DEF im
<1>4. image'[Cron][t] = im
  BY <1>3, RunAssumption DEF ImagesOK
<1>5. QED
  BY <1>2, <1>4, ImageAssumption DEF Acting

LEMMA ScannersKeepInSight ==
  ASSUME RunTypeOK, RunNext, ~ActivityStep, "raise" \notin Faults,
         "overrun" \notin Faults, Cron \notin Mortal, MaxQueued > 0,
         Errors \cap ApiErrors = {},
         NEW t \in Tasks, status[t] = "scheduled" => SeenComing(t),
         status'[t] = "scheduled"
  PROVE  SeenComing(t)'
<1> USE RunAssumption, ConstantsAssumption
<1>0. TypeOK /\ ImagesOK /\ RunFlowsOK /\ ScannersOK
  BY DEF RunTypeOK
<1>a. pc' = pc /\ job' = job
  BY SlotsRest DEF slotVars, locals
<1>b. TakesNothing(t) => SeenComing(t)'
  BY SlotsRest, UntouchedSeenComing DEF TakesNothing
<1> DEFINE Rests == status'[t] = status[t] /\ UNCHANGED <<prefect, later>>
           Poll == Acting(t) => Acting(t)'
<1>c. Rests /\ Poll => SeenComing(t)'
  BY <1>b DEF TakesNothing, prefect
<1>1. ASSUME NEW u \in Tasks, CallAgainLater(u) PROVE SeenComing(t)'
  <2>1. CASE u = t
    <3>1. Acting(t)'
      BY <1>0, <1>1, <2>1, HasDoneActs DEF CallAgainLater, Polling
    <3>2. QED
      BY <3>1 DEF SeenComing, InSight, Outlasts
  <2>2. CASE u # t
    <3>1. Rests
      BY <1>0, <1>1, <2>2 DEF CallAgainLater, Overwrite, SetStatus, flowVars, TypeOK
    <3>2. PICK new : image' = [image EXCEPT ![Cron][u] = new]
      BY <1>1 DEF CallAgainLater, HasDone
    <3>3. Poll
      BY <1>0, <1>1, <2>2, <3>2, DecidedStays DEF CallAgainLater
    <3>4. QED
      BY <1>c, <3>1, <3>3
  <2>3. QED
    BY <2>1, <2>2
<1>2. ASSUME NEW u \in Tasks,
             StillOn(u) \/ CallRetry(u) \/ CallGivenUp(u) \/ CallCompleted(u)
      PROVE  SeenComing(t)'
  <2>1. CASE u = t
    <3>1. StillOn(t)
      BY <1>0, <1>2, <2>1 DEF CallRetry, CallGivenUp, CallCompleted, Overwrite,
             SetStatus, TypeOK
    <3>2. Rests
      BY <3>1 DEF StillOn, docs, taskVars, flowVars
    <3>3. ~Acting(t)
      BY <3>1 DEF StillOn, Raises, Polling, Acting
    <3>4. QED
      BY <1>c, <3>2, <3>3
  <2>2. CASE u # t
    <3>1. Rests
      BY <1>0, <1>2, <2>2 DEF StillOn, CallRetry, CallGivenUp, CallCompleted, Overwrite,
             SetStatus, docs, taskVars, flowVars, TypeOK
    <3>2. Decided(Cron, u) /\ UNCHANGED at
      BY <1>2 DEF StillOn, CallRetry, CallGivenUp, CallCompleted
    <3>3. Poll
      BY <1>0, <2>2, <3>2, DecidedStays DEF Decided
    <3>4. QED
      BY <1>c, <3>1, <3>3
  <2>3. QED
    BY <2>1, <2>2
<1>3. ASSUME NEW u \in Tasks, CreateDelayed(u) PROVE SeenComing(t)'
  <2> DEFINE now == {f \in Flows : InSection(f, u)}
  <2>1. later' = [later EXCEPT ![u] = @ \cup {now}]
    BY <1>3 DEF CreateDelayed, Raises
  <2>2. CASE u = t
    <3>1. now \in later'[t]
      BY <1>0, <2>1, <2>2 DEF RunFlowsOK
    <3>2. \A f \in Flows : InSection(f, t)' => f \in now
      BY <1>a, <2>2 DEF InSection
    <3> HIDE DEF now
    <3>3. QED
      BY <3>1, <3>2 DEF SeenComing, InSight, Outlasts
  <2>3. CASE u # t
    <3>1. later'[t] = later[t] /\ status' = status /\ UNCHANGED prefect
      BY <1>0, <1>3, <2>1, <2>3 DEF CreateDelayed, docs, taskVars, RunFlowsOK
    <3>2. Decided(Cron, u) /\ UNCHANGED at
      BY <1>3 DEF CreateDelayed
    <3>3. Poll
      BY <1>0, <2>3, <3>2, DecidedStays DEF Decided
    <3>4. QED
      BY <1>b, <3>1, <3>3 DEF TakesNothing, prefect
  <2>4. QED
    BY <2>2, <2>3
<1>4. ASSUME NEW u \in Tasks, LaterDue(u) PROVE SeenComing(t)'
  <2>1. /\ later' = [later EXCEPT ![u] = @ \ {{}}]
        /\ queued' = Add(queued, u) /\ UNCHANGED <<delayed, status, at, image>>
    BY <1>4 DEF LaterDue, docs, taskVars, scanVars
  <2>2. Poll
    BY <2>1 DEF Acting
  <2>3. CASE u = t
    <3>1. queued'[t] > 0
      BY <1>0, <2>1, <2>3 DEF Add, TypeOK
    <3>2. later'[t] = later[t] \ {{}}
      BY <1>0, <2>1, <2>3 DEF RunFlowsOK
    <3>3. ASSUME NEW f \in Flows, InSection(f, t)', pc'[f] \notin Deciding
          PROVE  Outlasts(t, f)'
      <4>1. Outlasts(t, f)
        BY <1>a, <2>1, <3>3 DEF SeenComing, InSection
      <4>2. CASE \E ahead \in later[t] : f \in ahead
        BY <3>2, <4>2 DEF Outlasts
      <4>3. QED
        BY <1>a, <2>1, <2>2, <4>1, <4>2 DEF Outlasts
    <3>4. QED
      BY <3>1, <3>3 DEF SeenComing, InSight
  <2>4. CASE u # t
    <3>1. later'[t] = later[t] /\ queued'[t] = queued[t]
      BY <1>0, <2>1, <2>4 DEF RunFlowsOK, Add, TypeOK
    <3>2. QED
      BY <1>b, <2>1, <2>2, <3>1 DEF TakesNothing
  <2>5. QED
    BY <2>3, <2>4
<1>5. ASSUME NEW s \in Scanners, NEW u \in Tasks, Mark(s, u) PROVE SeenComing(t)'
  <2>1. Rests
    <3>1. UNCHANGED prefect /\ UNCHANGED later
      BY <1>5 DEF Mark, flowVars
    <3>2. CASE UNCHANGED docs
      BY <3>1, <3>2 DEF docs, taskVars
    <3>3. ASSUME NEW st \in Marks(image[s][u]), NEW r, NEW e, Overwrite(u, st, r, e)
          PROVE  status'[t] = status[t]
      <4>1. image[s][u] \in Image
        BY <1>0, <1>5 DEF Mark, ImagesOK
      <4>2. st # "scheduled"
        BY <3>3, <4>1, MarksTypes
      <4>3. QED
        BY <1>0, <3>3, <4>2 DEF Overwrite, SetStatus, TypeOK
    <3>4. UNCHANGED docs \/ \E st \in Marks(image[s][u]) : \E r, e : Overwrite(u, st, r, e)
      BY <1>5 DEF Mark
    <3>5. QED
      BY <3>1, <3>2, <3>3, <3>4
  <2>2. Poll
    <3>1. CASE s = Cron
      BY <1>5, <3>1 DEF Mark, Acting
    <3>2. CASE s # Cron
      BY <1>0, <1>5, <3>2 DEF Mark, Decided, Acting, ImagesOK
    <3>3. QED
      BY <3>1, <3>2
  <2>3. QED
    BY <1>c, <2>1, <2>2
<1>6. CASE StartCron \/ Query \/ CronTally \/ CronWriteRun \/ Count
  <2>1. Rests
    BY <1>6 DEF StartCron, Query, CronTally, CronWriteRun, Count, docs, taskVars, flowVars
  <2>2. ~Acting(t)
    BY <1>6 DEF StartCron, Query, CronTally, CronWriteRun, Count, Marked, Nothing, Acting
  <2>3. QED
    BY <1>c, <2>1, <2>2
<1>7. ASSUME NEW s \in Scanners,
             \/ List(s) \/ Scan(s) \/ AfterCheck(s) \/ EndRun(s) \/ StartCheck(s)
             \/ StartRun(s) \/ ScanCrash(s)
      PROVE  SeenComing(t)'
  <2>1. Rests
    BY <1>7 DEF List, Scan, AfterCheck, EndRun, StartCheck, StartRun, ScanCrash, docs,
                taskVars, flowVars
  <2>2. Poll
    <3>1. CASE s = Cron
      BY <1>7, <3>1 DEF List, Scan, AfterCheck, EndRun, StartCheck, StartRun, ScanCrash,
             Marked, Acting
    <3>2. CASE s # Cron
      BY <1>0, <1>7, <3>2 DEF List, Scan, AfterCheck, EndRun, StartCheck, StartRun,
             ScanCrash, Leave, Move, Acting, ImagesOK, ScannersOK
    <3>3. QED
      BY <3>1, <3>2
  <2>3. QED
    BY <1>c, <2>1, <2>2
<1>8. ASSUME NEW s \in Scanners, NEW u \in Tasks, TriggerTask(s, u) PROVE SeenComing(t)'
  <2>1. /\ queued' = Add(queued, u) /\ UNCHANGED <<delayed, status, later, image>>
        /\ at' = at \/ at' = [at EXCEPT ![s] = "idle"]
    BY <1>8 DEF TriggerTask, Raises, docs, taskVars, flowVars, Leave, Move
  <2>2. queued[t] > 0 => queued'[t] > 0
    BY <1>0, <2>1 DEF Add, TypeOK
  <2>3. Poll
    BY <1>0, <1>8, <2>1 DEF TriggerTask, Marked, Acting, ScannersOK
  <2>4. QED
    BY <1>b, <2>1, <2>2, <2>3 DEF TakesNothing
<1>9. CASE \E u \in Tasks : Age(u)
  <2>1. Rests /\ Poll
    BY <1>9 DEF Age, vars, taskVars, flowVars, scanVars, Acting
  <2>2. QED
    BY <1>c, <2>1
<1>11. ASSUME NEW s \in Scanners, NEW u \in Tasks, Redial(s, u) PROVE SeenComing(t)'
  <2>1. s = Cron /\ Polling(u, "read")
    <3>1. image[s][u] # NoImage => image[s][u].error \in Errors
      BY <1>0 DEF ImagesOK, Image
    <3>2. QED
      BY <1>11, <3>1 DEF Redial, ByWorkflow
  <2>2. image[Cron][u] # NoImage /\ at'[Cron] = "poll" /\ HasDone(Cron, u, "redial")
    BY <1>11, <2>1 DEF Redial, Polling
  <2>3. CASE u = t
    <3>1. Acting(t)'
      BY <1>0, <2>2, <2>3, HasDoneActs
    <3>2. QED
      BY <3>1 DEF SeenComing, InSight, Outlasts
  <2>4. CASE u # t
    <3>1. Rests /\ UNCHANGED at
      BY <1>0, <1>11, <2>4 DEF Redial, SetStatus, flowVars, TypeOK
    <3>2. PICK new : image' = [image EXCEPT ![Cron][u] = new]
      BY <2>2 DEF HasDone
    <3>3. Poll
      BY <1>0, <2>4, <3>1, <3>2, DecidedStays
    <3>4. QED
      BY <1>c, <3>1, <3>3
  <2>5. QED
    BY <2>3, <2>4
<1>12. ASSUME NEW s \in Scanners, NEW u \in Tasks, CreateRedial(s, u) PROVE SeenComing(t)'
  <2>1. /\ later' = [later EXCEPT ![u] = @ \cup {{}}] /\ HasDone(s, u, "created")
        /\ image[s][u] # NoImage /\ UNCHANGED <<docs, prefect, at>>
    BY <1>12 DEF CreateRedial, Raises
  <2>2. later[t] \subseteq later'[t]
    BY <1>0, <2>1 DEF RunFlowsOK
  <2>3. Poll
    <3>1. CASE s = Cron /\ u = t
      BY <1>0, <2>1, <3>1, HasDoneActs DEF Acting
    <3>2. CASE s = Cron /\ u # t
      <4>1. PICK new : image' = [image EXCEPT ![Cron][u] = new]
        BY <2>1, <3>2 DEF HasDone
      <4>2. QED
        BY <1>0, <2>1, <3>2, <4>1, DecidedStays
    <3>3. CASE s # Cron
      BY <1>0, <2>1, <3>3 DEF HasDone, Acting, ImagesOK
    <3>4. QED
      BY <3>1, <3>2, <3>3
  <2>4. QED
    BY <1>b, <2>1, <2>2, <2>3 DEF TakesNothing, docs, taskVars, prefect
<1>13. ASSUME NEW s \in Scanners, NEW u \in Tasks, AgeRead(s, u) PROVE SeenComing(t)'
  <2>1. Rests /\ UNCHANGED at
    BY <1>13 DEF AgeRead, vars, taskVars, flowVars
  <2>2. Poll
    <3>1. CASE s = Cron /\ u = t
      <4> DEFINE im == [image[Cron][t] EXCEPT !.aged = TRUE]
      <4>1. image[Cron][t] \in Image
        BY <1>0, <1>13, <3>1 DEF AgeRead, ImagesOK
      <4>2. im \in Image /\ im.step = image[Cron][t].step
        BY <4>1 DEF Image
      <4>3. image' = [image EXCEPT ![Cron] = [image[Cron] EXCEPT ![t] = im]]
        BY <1>13, <3>1 DEF AgeRead
      <4> HIDE DEF im
      <4>4. image'[Cron][t] = im
        BY <1>0, <4>3 DEF ImagesOK
      <4>5. QED
        BY <2>1, <4>2, <4>4, ImageAssumption DEF Acting
    <3>2. CASE s = Cron /\ u # t
      <4>1. PICK new : image' = [image EXCEPT ![Cron][u] = new]
        BY <1>13, <3>2 DEF AgeRead
      <4>2. QED
        BY <1>0, <2>1, <3>2, <4>1, DecidedStays
    <3>3. CASE s # Cron
      BY <1>0, <1>13, <3>3 DEF AgeRead, Acting, ImagesOK
    <3>4. QED
      BY <3>1, <3>2, <3>3
  <2>3. QED
    BY <1>c, <2>1, <2>2
<1>10. QED
  BY <1>1, <1>2, <1>3, <1>4, <1>5, <1>6, <1>7, <1>8, <1>9, <1>11, <1>12, <1>13,
     RunNextCases

LEMMA RunHolders ==
  ASSUME "crash" \notin Faults, "raise" \notin Faults
  PROVE  RunSpec => [](LockNamesHolder /\ OnlyLocalsComplete)
<1>1. RunInit => LockNamesHolder /\ OnlyLocalsComplete
  BY DEF RunInit, Init, LockNamesHolder, OnlyLocalsComplete
<1>2. ASSUME RunTypeOK, LockNamesHolder, OnlyLocalsComplete, [RunNext]_runVars
      PROVE  LockNamesHolder' /\ OnlyLocalsComplete'
  <2>1. TypeOK
    BY <1>2 DEF RunTypeOK
  <2>2. CASE [Next]_vars
    BY <1>2, <2>1, <2>2, HolderPreserved, LocalsPreserved
  <2>3. CASE UNCHANGED slotVars
    <3>1. UNCHANGED <<pc, job, response, lock, dedup>>
      BY <2>3 DEF slotVars, redis, locals
    <3>2. QED
      BY <1>2, <3>1 DEF LockNamesHolder, InSection, OnlyLocalsComplete, Local
  <2>4. QED
    BY <1>2, <2>2, <2>3, RunSteps
<1>3. QED
  BY <1>1, <1>2, RunTypeCorrect, PTL DEF RunSpec

LEMMA InSightPreserved ==
  ASSUME RunTypeOK, LockHeld', LockNamesHolder, OnlyLocalsComplete, ScheduledInSight,
         [RunNext]_runVars, "crash" \notin Faults, "raise" \notin Faults,
         "overrun" \notin Faults, Cron \notin Mortal, MaxQueued > 0,
         Errors \cap ApiErrors = {}
  PROVE  ScheduledInSight'
<1>1. CASE UNCHANGED runVars
  <2>1. UNCHANGED <<status, queued, delayed, later, at, image, pc, job>>
    BY <1>1 DEF runVars, vars, taskVars, prefect, locals, flowVars, scanVars
  <2>2. QED
    BY <2>1 DEF ScheduledInSight, InSight, Outlasts, Acting, InSection
<1>2. CASE RunNext
  <2>1. ASSUME NEW t \in Tasks, Provider[t] # "pipecat", status'[t] = "scheduled"
        PROVE  SeenComing(t)'
    <3>1. status[t] = "scheduled" => SeenComing(t)
      BY <2>1 DEF ScheduledInSight, SeenComing
    <3>2. CASE ~ActivityStep
      BY <1>2, <2>1, <3>1, <3>2, ScannersKeepInSight
    <3>3. CASE ActivityStep /\ status[t] # "scheduled"
      BY <2>1, <3>3, ActivityIsNext, DeferredIsSeenComing DEF RunTypeOK
    <3>4. CASE ActivityStep /\ status[t] = "scheduled"
      <4>1. InSight(t)'
        BY <2>1, <3>1, <3>4, InSightStays
      <4>2. ASSUME NEW f \in Flows, InSection(f, t)', pc'[f] \notin Deciding
            PROVE  Outlasts(t, f)'
        BY <2>1, <3>1, <3>4, <4>2, OutlastedStays
      <4>3. QED
        BY <4>1, <4>2 DEF SeenComing
    <3>5. QED
      BY <3>2, <3>3, <3>4
  <2>2. QED
    BY <2>1 DEF ScheduledInSight, SeenComing
<1>3. QED
  BY <1>1, <1>2

(* As long as neither a worker nor the cron dies, no call raises and no    *)
(* activity outlives its lock, every scheduled task of vapi or livekit     *)
(* comes back, whichever activities, polls and scans overwrite it and      *)
(* however many run-flow slots die.  (One waiting flow run must be         *)
(* countable.)                                                             *)
THEOREM ScheduledReturns ==
  ASSUME "crash" \notin Faults, "raise" \notin Faults, "overrun" \notin Faults,
         Cron \notin Mortal, MaxQueued > 0, "scheduled" \notin Created,
         Errors \cap ApiErrors = {}
  PROVE  RunSpec => []ScheduledComesBack
<1>1. RunInit => ScheduledInSight
  <2>1. RunInit => \A t \in Tasks : status[t] = "pending"
    BY ConstantsAssumption DEF RunInit, Init
  <2>2. QED
    BY <2>1 DEF ScheduledInSight
<1>2. RunTypeOK /\ LockHeld' /\ LockNamesHolder /\ OnlyLocalsComplete
        /\ ScheduledInSight /\ [RunNext]_runVars => ScheduledInSight'
  BY InSightPreserved
<1>3. ScheduledInSight => ScheduledComesBack
  BY DEF ScheduledInSight, InSight, ScheduledComesBack
<1>4. RunSpec => [](RunTypeOK /\ Safe)
  BY RunSafe
<1>5. RunSpec => [](LockNamesHolder /\ OnlyLocalsComplete)
  BY RunHolders
<1>6. Safe => LockHeld
  BY DEF Safe
<1>7. QED
  BY <1>1, <1>2, <1>3, <1>4, <1>5, <1>6, PTL DEF RunSpec
=============================================================================
