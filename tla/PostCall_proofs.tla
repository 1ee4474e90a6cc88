--------------------------- MODULE PostCall_proofs ---------------------------
(***************************************************************************)
(* Proofs about PostCall, for every set of tasks, of handlers and of        *)
(* post-call flows, every limit of redials and follow-ups, and any number   *)
(* of faults.                                                               *)
(***************************************************************************)
EXTENDS PostCall, TLAPS

LEMMA NextCases ==
  ASSUME Next
  PROVE  \/ \E k \in Tasks :
              \/ Begin(k) \/ Dial(k) \/ RecordInProgress(k) \/ DialFails(k)
              \/ HangUp(k) \/ CleanUp(k) \/ KeyExpires(k)
         \/ \E k \in Tasks, e \in Ends :
              ToolEnds(k, e) \/ EnsureEnds(k, e) \/ Trigger(k, e)
         \/ \E f \in Flows :
              \/ Provisional(f) \/ Analyse(f) \/ FollowUp(f) \/ HandOver(f)
              \/ Redial(f) \/ Again(f) \/ WriteTask(f) \/ WriteRun(f)
              \/ FlowDies(f)
BY DEF Next, Activity, EndStep, FlowStep

(* A handler claims the key, or finds that another one has: nothing but the *)
(* session and the key changes.                                             *)
LEMMA ClaimTypes ==
  ASSUME SessionsOK, NEW k \in Tasks, NEW e \in Ends,
         \/ Claim(k, e)
         \/ Through(k, e) /\ UNCHANGED key
  PROVE  SessionsOK'
<1>1. CASE Through(k, e) /\ UNCHANGED key
  BY <1>1 DEF Through, SessionsOK
<1>2. CASE Claim(k, e) /\ ~key[k]
  <2>1. (flag[k] \/ e \notin Tools) \in BOOLEAN
    OBVIOUS
  <2>2. flag' \in [Tasks -> BOOLEAN]
    BY <1>2, <2>1 DEF Claim, SessionsOK
  <2>3. /\ key' = [key EXCEPT ![k] = TRUE] /\ call' = call
        /\ end' = [end EXCEPT ![k][e] = "triggering"]
    BY <1>2 DEF Claim
  <2>4. QED
    BY <2>2, <2>3 DEF SessionsOK
<1>3. QED
  BY <1>1, <1>2 DEF Claim

(* What an action leaves alone keeps its type.                              *)
LEMMA Untouched ==
  /\ DocumentsOK /\ UNCHANGED docs => DocumentsOK'
  /\ ActivitiesOK /\ UNCHANGED <<queue, act>> => ActivitiesOK'
  /\ SessionsOK /\ UNCHANGED <<session, key>> => SessionsOK'
  /\ FlowsOK /\ UNCHANGED flows => FlowsOK'
  /\ HistoryOK /\ UNCHANGED <<history, spoiled, faults>> => HistoryOK'
BY DEF DocumentsOK, ActivitiesOK, SessionsOK, FlowsOK, HistoryOK, docs, output,
       session, flows, history

(* A fault that hits a task is counted.                                     *)
LEMMA FaultTypes ==
  ASSUME HistoryOK, Fault, NEW k \in Tasks, UNCHANGED history,
         spoiled' = [spoiled EXCEPT ![k] = TRUE]
  PROVE  HistoryOK'
<1>1. faults' \in 0 .. MaxFaults
  BY PostCallAssumption DEF HistoryOK, Fault
<1>2. QED
  BY <1>1 DEF HistoryOK, history

(* Every variable keeps its type; the number of redials of a task stays     *)
(* within MaxRedials and the count of follow-ups below MaxCalls, the counts *)
(* that a follow-up inherits included.                                      *)
THEOREM TypeCorrect == Spec => []PostCallTypeOK
<1> USE PostCallAssumption
<1>1. ASSUME Init PROVE PostCallTypeOK
  <2>1. PICK given \in {FALSE, Document} : ref = [k \in Tasks |-> k = First /\ given]
    BY <1>1 DEF Init
  <2>2. \A k \in Tasks : (k = First /\ given) \in BOOLEAN
    OBVIOUS
  <2>3. ref \in [Tasks -> BOOLEAN]
    BY <2>1, <2>2
  <2>4. QED
    BY <1>1, <2>3 DEF Init, PostCallTypeOK, DocumentsOK, ActivitiesOK, SessionsOK,
       FlowsOK, HistoryOK
<1>2. PostCallTypeOK /\ [Next]_vars => PostCallTypeOK'
  <2> SUFFICES ASSUME DocumentsOK, ActivitiesOK, SessionsOK, FlowsOK, HistoryOK,
                      [Next]_vars
               PROVE  PostCallTypeOK'
    BY DEF PostCallTypeOK
  <2> USE DEF PostCallTypeOK
  <2>0. CASE UNCHANGED vars
    BY <2>0, Untouched DEF vars
  <2>1. ASSUME NEW k \in Tasks, Begin(k) PROVE PostCallTypeOK'
    <3>1. DocumentsOK'
      BY <2>1 DEF Begin, output, DocumentsOK
    <3>2. ActivitiesOK'
      BY <2>1 DEF Begin, ActivitiesOK
    <3>3. QED
      BY <2>1, <3>1, <3>2, Untouched DEF Begin
  <2>2. ASSUME NEW k \in Tasks, Dial(k) PROVE PostCallTypeOK'
    <3>1. ActivitiesOK' /\ SessionsOK'
      BY <2>2 DEF Dial, ActivitiesOK, SessionsOK
    <3>2. HistoryOK'
      BY <2>2 DEF Dial, HistoryOK
    <3>3. QED
      BY <2>2, <3>1, <3>2, Untouched DEF Dial
  <2>3. ASSUME NEW k \in Tasks, RecordInProgress(k) PROVE PostCallTypeOK'
    <3>1. PICK over \in BOOLEAN : spoiled' = [spoiled EXCEPT ![k] = @ \/ over]
      BY <2>3 DEF RecordInProgress
    <3>2. HistoryOK'
      BY <2>3, <3>1 DEF RecordInProgress, HistoryOK, history
    <3>3. DocumentsOK' /\ ActivitiesOK'
      BY <2>3 DEF RecordInProgress, SetStatus, output, DocumentsOK, ActivitiesOK
    <3>4. QED
      BY <2>3, <3>2, <3>3, Untouched DEF RecordInProgress
  <2>4. ASSUME NEW k \in Tasks, DialFails(k) PROVE PostCallTypeOK'
    <3>1. DocumentsOK' /\ ActivitiesOK'
      BY <2>4 DEF DialFails, SetStatus, output, DocumentsOK, ActivitiesOK
    <3>2. QED
      BY <2>4, <3>1, FaultTypes, Untouched DEF DialFails
  <2>5. ASSUME NEW k \in Tasks, HangUp(k) PROVE PostCallTypeOK'
    <3>1. SessionsOK'
      BY <2>5 DEF HangUp, SessionsOK
    <3>2. QED
      BY <2>5, <3>1, Untouched DEF HangUp
  <2>6. ASSUME NEW k \in Tasks, CleanUp(k) PROVE PostCallTypeOK'
    <3>1. PICK cancelled \in {Ends, Idlers} :
            /\ end' = [end EXCEPT ![k] = [e \in Ends |->
                 IF end[k][e] = "triggering" /\ e \notin cancelled
                 THEN "triggering" ELSE "done"]]
            /\ spoiled' = [spoiled EXCEPT ![k] =
                 @ \/ \E e \in cancelled : end[k][e] = "triggering"]
      BY <2>6 DEF CleanUp
    <3>2. SessionsOK'
      BY <2>6, <3>1 DEF CleanUp, SessionsOK
    <3>3. HistoryOK'
      <4>1. (spoiled[k] \/ \E e \in cancelled : end[k][e] = "triggering") \in BOOLEAN
        OBVIOUS
      <4>2. QED
        BY <2>6, <3>1, <4>1 DEF CleanUp, HistoryOK, history
    <3>4. QED
      BY <2>6, <3>2, <3>3, Untouched DEF CleanUp
  <2>7. ASSUME NEW k \in Tasks, KeyExpires(k) PROVE PostCallTypeOK'
    <3>1. SessionsOK'
      BY <2>7 DEF KeyExpires, SessionsOK, session
    <3>2. QED
      BY <2>7, <3>1, Untouched DEF KeyExpires
  <2>8. ASSUME NEW k \in Tasks, NEW e \in Ends, ToolEnds(k, e) PROVE PostCallTypeOK'
    BY <2>8, ClaimTypes, Untouched DEF ToolEnds
  <2>9. ASSUME NEW k \in Tasks, NEW e \in Ends, EnsureEnds(k, e) PROVE PostCallTypeOK'
    BY <2>9, ClaimTypes, Untouched DEF EnsureEnds
  <2>10. ASSUME NEW k \in Tasks, NEW e \in Ends, Trigger(k, e) PROVE PostCallTypeOK'
    <3>1. SessionsOK'
      BY <2>10, ClaimTypes DEF Trigger
    <3>2. FlowsOK'
      BY <2>10 DEF Trigger, FlowsOK
    <3>3. CASE triggered' = [triggered EXCEPT ![k] = @ + 1] /\ UNCHANGED <<spoiled, faults>>
      BY <2>10, <3>1, <3>2, <3>3, Untouched DEF Trigger, HistoryOK
    <3>4. CASE /\ Fault /\ spoiled' = [spoiled EXCEPT ![k] = TRUE]
               /\ UNCHANGED triggered
      BY <2>10, <3>1, <3>2, <3>4, FaultTypes, Untouched DEF Trigger, history
    <3>5. QED
      BY <2>10, <3>3, <3>4 DEF Trigger
  <2>11. ASSUME NEW f \in Flows, Provisional(f) PROVE PostCallTypeOK'
    <3>1. DocumentsOK' /\ FlowsOK'
      BY <2>11 DEF Provisional, SetStatus, ReplaceOutput, GoTo, DocumentsOK, FlowsOK
    <3>2. QED
      BY <2>11, <3>1, Untouched DEF Provisional
  <2>12. ASSUME NEW f \in Flows, Analyse(f) PROVE PostCallTypeOK'
    <3>1. FlowsOK'
      BY <2>12 DEF Analyse, GoTo, FlowsOK
    <3>2. QED
      BY <2>12, <3>1, Untouched DEF Analyse
  <2>13. ASSUME NEW f \in Flows, FollowUp(f) PROVE PostCallTypeOK'
    <3>1. CASE GoTo(f, "write") /\ UNCHANGED <<status, redials, output, fresh>>
      <4>1. DocumentsOK' /\ FlowsOK'
        BY <2>13, <3>1 DEF FollowUp, GoTo, output, DocumentsOK, FlowsOK
      <4>2. QED
        BY <2>13, <4>1, Untouched DEF FollowUp
    <3>2. ASSUME NEW k \in Tasks,
                 followups[of[f]] + 1 < MaxCalls,
                 SetStatus(k, "scheduled"), GoTo(f, "hand"),
                 followups' = [followups EXCEPT ![k] = followups[of[f]] + 1],
                 parent' = [parent EXCEPT ![k] = of[f]],
                 redials' = [redials EXCEPT ![k] = redials[of[f]]],
                 fresh' = [fresh EXCEPT ![f] = k]
          PROVE  PostCallTypeOK'
      <4>1. /\ followups[of[f]] + 1 \in 0 .. MaxCalls - 1
            /\ redials[of[f]] \in 0 .. MaxRedials /\ of[f] \in Tasks
        BY <3>2 DEF FlowsOK, DocumentsOK
      <4>2. DocumentsOK' /\ FlowsOK'
        BY <2>13, <3>2, <4>1 DEF FollowUp, GoTo, SetStatus, DocumentsOK, FlowsOK
      <4>3. QED
        BY <2>13, <4>2, Untouched DEF FollowUp
    <3>3. QED
      BY <2>13, <3>1, <3>2 DEF FollowUp, Existing
  <2>14. ASSUME NEW f \in Flows, HandOver(f) PROVE PostCallTypeOK'
    <3>1. FlowsOK' /\ fresh[f] \in Tasks
      BY <2>14 DEF HandOver, GoTo, FlowsOK
    <3>2. ActivitiesOK'
      BY <2>14, <3>1 DEF HandOver, ActivitiesOK
    <3>3. HistoryOK'
      BY <2>14, <3>1, FaultTypes, Untouched DEF HandOver
    <3>4. QED
      BY <2>14, <3>1, <3>2, <3>3, Untouched DEF HandOver
  <2>15. ASSUME NEW f \in Flows, Redial(f) PROVE PostCallTypeOK'
    <3>1. FlowsOK' /\ of[f] \in Tasks
      BY <2>15 DEF Redial, GoTo, FlowsOK
    <3>2. DocumentsOK'
      BY <2>15, <3>1 DEF Redial, SetStatus, output, DocumentsOK
    <3>3. HistoryOK'
      BY <2>15, <3>1 DEF Redial, HistoryOK
    <3>4. QED
      BY <2>15, <3>1, <3>2, <3>3, Untouched DEF Redial
  <2>16. ASSUME NEW f \in Flows, Again(f) PROVE PostCallTypeOK'
    <3>1. FlowsOK' /\ of[f] \in Tasks
      BY <2>16 DEF Again, GoTo, FlowsOK
    <3>2. ActivitiesOK'
      BY <2>16, <3>1 DEF Again, ActivitiesOK
    <3>3. HistoryOK'
      BY <2>16, <3>1, FaultTypes, Untouched DEF Again
    <3>4. QED
      BY <2>16, <3>1, <3>2, <3>3, Untouched DEF Again
  <2>17. ASSUME NEW f \in Flows, WriteTask(f) PROVE PostCallTypeOK'
    <3>1. (ref[of[f]] \/ Document) \in BOOLEAN /\ of[f] \in Tasks
      BY DEF FlowsOK
    <3>2. ref' \in [Tasks -> BOOLEAN]
      BY <2>17, <3>1 DEF WriteTask, DocumentsOK
    <3>3. DocumentsOK' /\ FlowsOK'
      BY <2>17, <3>2 DEF WriteTask, SetStatus, ReplaceOutput, GoTo, DocumentsOK, FlowsOK
    <3>4. QED
      BY <2>17, <3>3, Untouched DEF WriteTask
  <2>18. ASSUME NEW f \in Flows, WriteRun(f) PROVE PostCallTypeOK'
    <3>1. DocumentsOK' /\ FlowsOK'
      BY <2>18 DEF WriteRun, GoTo, output, DocumentsOK, FlowsOK
    <3>2. QED
      BY <2>18, <3>1, Untouched DEF WriteRun
  <2>19. ASSUME NEW f \in Flows, FlowDies(f) PROVE PostCallTypeOK'
    <3>1. FlowsOK'
      BY <2>19 DEF FlowDies, GoTo, FlowsOK
    <3>2. \A k \in Tasks :
            (spoiled[k] \/ k = of[f] \/ (step[f] = "hand" /\ k = fresh[f])) \in BOOLEAN
      OBVIOUS
    <3>3. spoiled' \in [Tasks -> BOOLEAN] /\ faults' \in 0 .. MaxFaults
      BY <2>19, <3>2 DEF FlowDies, Fault, HistoryOK
    <3>4. QED
      BY <2>19, <3>1, <3>3, Untouched DEF FlowDies, HistoryOK, history
  <2>20. QED
    BY <2>0, <2>1, <2>2, <2>3, <2>4, <2>5, <2>6, <2>7, <2>8, <2>9, <2>10, <2>11,
       <2>12, <2>13, <2>14, <2>15, <2>16, <2>17, <2>18, <2>19, NextCases
<1>3. QED
  BY <1>1, <1>2, PTL DEF Spec
-----------------------------------------------------------------------------
(* The post-call flow is created at most once per call. *)

(* Documents, and the flows that are under way, do not touch the sessions.  *)
LEMMA FlowsLeaveSessions ==
  ASSUME NEW f \in Flows, FlowStep(f) \/ FlowDies(f)
  PROVE  UNCHANGED <<act, session, key, placed, triggered>>
BY DEF FlowStep, FlowDies, Provisional, Analyse, FollowUp, HandOver, Redial, Again,
       WriteTask, WriteRun, session, history

(* A handler that goes on to create the flow run found the key free, so it  *)
(* is the only one, and the session is still to be looked into.             *)
LEMMA ClaimKeepsOne ==
  ASSUME PostCallTypeOK, OneHandlerTriggers, NEW k \in Tasks, NEW e \in Ends,
         call[k] \in {"on", "closing"},
         \/ Claim(k, e) /\ (call[k] = "on" \/ ~flag[k])
         \/ Through(k, e) /\ UNCHANGED key,
         UNCHANGED <<act, triggered>>
  PROVE  OneHandlerTriggers'
<1>1. CASE Through(k, e) /\ UNCHANGED key
  BY <1>1 DEF Through, OneHandlerTriggers, Live, PostCallTypeOK, ActivitiesOK, SessionsOK,
       HistoryOK
<1>2. CASE Claim(k, e) /\ ~key[k] /\ (call[k] = "on" \/ ~flag[k])
  <2>1. triggered[k] # 1 /\ triggered[k] <= 1
    BY <1>2 DEF OneHandlerTriggers
  <2>2. triggered[k] = 0
    BY <2>1 DEF PostCallTypeOK, HistoryOK
  <2>3. \A d \in Ends : end[k][d] # "triggering"
    BY <1>2 DEF OneHandlerTriggers
  <2>4. QED
    BY <1>2, <2>2, <2>3 DEF Claim, OneHandlerTriggers, Live, PostCallTypeOK, ActivitiesOK, SessionsOK,
       HistoryOK
<1>3. QED
  BY <1>1, <1>2 DEF Claim

LEMMA OneHandlerTriggersPreserved ==
  ASSUME PostCallTypeOK, OneHandlerTriggers, [Next]_vars
  PROVE  OneHandlerTriggers'
<1> USE DEF vars, docs, output, session, flows, history
<1>0. CASE UNCHANGED <<act, call, flag, end, key, triggered>>
  BY <1>0 DEF OneHandlerTriggers, Live
<1>1. ASSUME NEW k \in Tasks, Begin(k) PROVE OneHandlerTriggers'
  BY <1>1 DEF Begin, OneHandlerTriggers, Live, PostCallTypeOK, ActivitiesOK, SessionsOK,
       HistoryOK
<1>2. ASSUME NEW k \in Tasks, Dial(k) PROVE OneHandlerTriggers'
  BY <1>2 DEF Dial, OneHandlerTriggers, Live, PostCallTypeOK, ActivitiesOK, SessionsOK,
       HistoryOK
<1>3. ASSUME NEW k \in Tasks, RecordInProgress(k) \/ DialFails(k)
      PROVE  OneHandlerTriggers'
  BY <1>3 DEF RecordInProgress, DialFails, OneHandlerTriggers, Live, PostCallTypeOK, ActivitiesOK, SessionsOK,
       HistoryOK
<1>4. ASSUME NEW k \in Tasks, HangUp(k) PROVE OneHandlerTriggers'
  BY <1>4 DEF HangUp, OneHandlerTriggers, Live, PostCallTypeOK, ActivitiesOK, SessionsOK,
       HistoryOK
<1>5. ASSUME NEW k \in Tasks, CleanUp(k) PROVE OneHandlerTriggers'
  BY <1>5 DEF CleanUp, OneHandlerTriggers, Live, PostCallTypeOK, ActivitiesOK, SessionsOK,
       HistoryOK
<1>6. ASSUME NEW k \in Tasks, KeyExpires(k) PROVE OneHandlerTriggers'
  BY <1>6 DEF KeyExpires, OneHandlerTriggers, Live, PostCallTypeOK, ActivitiesOK, SessionsOK,
       HistoryOK
<1>7. ASSUME NEW k \in Tasks, NEW e \in Ends, ToolEnds(k, e)
      PROVE  OneHandlerTriggers'
  BY <1>7, ClaimKeepsOne DEF ToolEnds
<1>8. ASSUME NEW k \in Tasks, NEW e \in Ends, EnsureEnds(k, e)
      PROVE  OneHandlerTriggers'
  BY <1>8, ClaimKeepsOne DEF EnsureEnds
<1>9. ASSUME NEW k \in Tasks, NEW e \in Ends, Trigger(k, e)
      PROVE  OneHandlerTriggers'
  <2>1. /\ end[k][e] = "triggering" /\ triggered[k] = 0
        /\ call[k] \in {"on", "closing", "over"}
        /\ \A d \in Ends : end[k][d] = "triggering" => d = e
    BY <1>9 DEF Trigger, OneHandlerTriggers, Live, PostCallTypeOK, SessionsOK
  <2>2. /\ Through(k, e) /\ UNCHANGED <<act, key>>
        /\ \/ triggered' = [triggered EXCEPT ![k] = @ + 1]
           \/ UNCHANGED triggered
    BY <1>9 DEF Trigger
  <2>3. QED
    BY <2>1, <2>2 DEF Through, OneHandlerTriggers, Live, PostCallTypeOK, ActivitiesOK, SessionsOK,
       HistoryOK
<1>10. ASSUME NEW f \in Flows, FlowStep(f) \/ FlowDies(f)
       PROVE  OneHandlerTriggers'
  BY <1>0, <1>10, FlowsLeaveSessions
<1>11. QED
  BY <1>0, <1>1, <1>2, <1>3, <1>4, <1>5, <1>6, <1>7, <1>8, <1>9, <1>10, NextCases
     DEF FlowStep

LEMMA OneHandlerTriggersAlways == Spec => []OneHandlerTriggers
<1>1. Init => OneHandlerTriggers
  BY DEF Init, OneHandlerTriggers
<1>2. QED
  BY <1>1, OneHandlerTriggersPreserved, TypeCorrect, PTL DEF Spec

(* However the handlers of a call's end overlap, and whichever of them is   *)
(* lost, trigger_post_call creates at most one flow run per call: the key   *)
(* stops the handlers that overlap, the flag those that come after the key  *)
(* has expired, and a tool, which does not look at the flag, runs only      *)
(* while the call is on.                                                    *)
THEOREM FlowCreatedOnce == Spec => []OneFlowPerCall
<1>1. OneHandlerTriggers => OneFlowPerCall
  BY DEF OneHandlerTriggers, OneFlowPerCall
<1>2. QED
  BY <1>1, OneHandlerTriggersAlways, PTL
-----------------------------------------------------------------------------
(* A task is redialled at most MaxRedials times. *)

(* The end of a call changes the session alone, and never revives one.      *)
LEMMA SessionSteps ==
  ASSUME PostCallTypeOK, NEW k \in Tasks,
         \/ HangUp(k) \/ CleanUp(k) \/ KeyExpires(k)
         \/ \E e \in Ends : ToolEnds(k, e) \/ EnsureEnds(k, e)
  PROVE  /\ UNCHANGED <<docs, queue, act, flows, history>>
         /\ \A j \in Tasks : Live(j)' => Live(j)
         /\ \A j \in Tasks : call[j] = "none" => call'[j] = "none"
<1>1. UNCHANGED <<docs, queue, act, flows, history>>
  BY DEF HangUp, CleanUp, KeyExpires, ToolEnds, EnsureEnds
<1>2. /\ call[k] \in {"on", "closing"} \/ UNCHANGED call
      /\ \/ UNCHANGED call
         \/ call' = [call EXCEPT ![k] = "closing"]
         \/ call' = [call EXCEPT ![k] = "over"]
  BY DEF HangUp, CleanUp, KeyExpires, ToolEnds, EnsureEnds, Claim, Through, session
<1>3. \A j \in Tasks :
        /\ call'[j] \in {"on", "closing"} => call[j] \in {"on", "closing"}
        /\ call[j] = "none" => call'[j] = "none"
  BY <1>2 DEF PostCallTypeOK, SessionsOK
<1>4. \A j \in Tasks, d \in Ends : end'[j][d] = "triggering" =>
        end[j][d] = "triggering" \/ call[j] \in {"on", "closing"}
  <2>1. CASE HangUp(k) \/ KeyExpires(k)
    BY <2>1 DEF HangUp, KeyExpires, session
  <2>2. CASE CleanUp(k)
    BY <2>2 DEF CleanUp, PostCallTypeOK, SessionsOK
  <2>3. ASSUME NEW e \in Ends, ToolEnds(k, e) \/ EnsureEnds(k, e)
        PROVE  \A j \in Tasks, d \in Ends : end'[j][d] = "triggering" =>
                 end[j][d] = "triggering" \/ call[j] \in {"on", "closing"}
    <3>1. call[k] \in {"on", "closing"}
      BY <2>3 DEF ToolEnds, EnsureEnds
    <3>2. \A j \in Tasks : j # k => end'[j] = end[j]
      BY <2>3 DEF ToolEnds, EnsureEnds, Claim, Through, PostCallTypeOK, SessionsOK
    <3>3. QED
      BY <3>1, <3>2
  <2>4. QED
    BY <2>1, <2>2, <2>3
<1>5. UNCHANGED triggered
  BY <1>1 DEF history
<1>6. QED
  BY <1>1, <1>3, <1>4, <1>5 DEF Live

LEMMA NothingBeforeCreationPreserved ==
  ASSUME PostCallTypeOK, OneHandlerTriggers, NothingBeforeCreation, [Next]_vars
  PROVE  NothingBeforeCreation'
<1> USE DEF PostCallTypeOK, DocumentsOK, ActivitiesOK, SessionsOK, FlowsOK, HistoryOK,
        docs, output, session, flows, history
<1>0. CASE UNCHANGED vars
  BY <1>0 DEF vars, NothingBeforeCreation
<1>1. ASSUME NEW k \in Tasks, Begin(k) PROVE NothingBeforeCreation'
  BY <1>1 DEF Begin, SetStatus, NothingBeforeCreation
<1>2. ASSUME NEW k \in Tasks, Dial(k) PROVE NothingBeforeCreation'
  BY <1>2 DEF Dial, NothingBeforeCreation
<1>3. ASSUME NEW k \in Tasks, RecordInProgress(k) \/ DialFails(k)
      PROVE  NothingBeforeCreation'
  BY <1>3 DEF RecordInProgress, DialFails, SetStatus, NothingBeforeCreation
<1>4. ASSUME NEW k \in Tasks,
             \/ HangUp(k) \/ CleanUp(k) \/ KeyExpires(k)
             \/ \E e \in Ends : ToolEnds(k, e) \/ EnsureEnds(k, e)
      PROVE  NothingBeforeCreation'
  BY <1>4, SessionSteps DEF NothingBeforeCreation
<1>5. ASSUME NEW k \in Tasks, NEW e \in Ends, Trigger(k, e)
      PROVE  NothingBeforeCreation'
  <2>1. call[k] # "none"
    BY <1>5 DEF Trigger, OneHandlerTriggers, Live
  <2>2. status[k] # "none"
    BY <2>1 DEF NothingBeforeCreation
  <2>3. QED
    BY <1>5, <2>1, <2>2 DEF Trigger, Through, NothingBeforeCreation
<1>6. ASSUME NEW f \in Flows,
             Provisional(f) \/ Analyse(f) \/ WriteTask(f) \/ WriteRun(f) \/ FlowDies(f)
      PROVE  NothingBeforeCreation'
  <2>1. CASE Provisional(f) \/ WriteTask(f)
    <3>1. /\ SetStatus(of[f], "completed")
          /\ UNCHANGED <<queue, act, call, of, fresh, placed, asked>>
      BY <2>1 DEF Provisional, WriteTask
    <3>2. of[f] \in Tasks /\ DOMAIN status = Tasks
      OBVIOUS
    <3>3. \A g \in Flows :
            /\ step'[g] # "free" => step[g] # "free"
            /\ step'[g] = "hand" => step[g] = "hand"
      BY <2>1 DEF Provisional, WriteTask, GoTo
    <3>4. \A g \in Flows : of[g] \in Tasks /\ fresh[g] \in Tasks
      OBVIOUS
    <3> HIDE DEF PostCallTypeOK
    <3>5. \A k \in Tasks : status'[k] = IF k = of[f] THEN "completed" ELSE status[k]
      BY <3>1, <3>2 DEF SetStatus
    <3>6. \A k \in Tasks : (status'[k] = "none") => (status[k] = "none")
      BY <3>5
    <3>7. \A k \in Tasks : (status[k] # "none") => (status'[k] # "none")
      BY <3>5
    <3>8. QED
      BY <3>1, <3>3, <3>4, <3>6, <3>7 DEF NothingBeforeCreation
  <2>2. CASE Analyse(f) \/ WriteRun(f) \/ FlowDies(f)
    BY <2>2 DEF Analyse, WriteRun, FlowDies, GoTo, NothingBeforeCreation
  <2>3. QED
    BY <1>6, <2>1, <2>2
<1>7. ASSUME NEW f \in Flows, FollowUp(f) PROVE NothingBeforeCreation'
  <2>1. CASE GoTo(f, "write") /\ UNCHANGED <<status, redials, output, fresh>>
    BY <1>7, <2>1 DEF FollowUp, GoTo, NothingBeforeCreation
  <2>2. ASSUME NEW k \in Tasks, SetStatus(k, "scheduled"), GoTo(f, "hand"),
               fresh' = [fresh EXCEPT ![f] = k]
        PROVE  NothingBeforeCreation'
    BY <1>7, <2>2 DEF FollowUp, GoTo, SetStatus, NothingBeforeCreation
  <2>3. QED
    BY <1>7, <2>1, <2>2 DEF FollowUp, Existing
<1>8. ASSUME NEW f \in Flows, HandOver(f) PROVE NothingBeforeCreation'
  BY <1>8 DEF HandOver, GoTo, NothingBeforeCreation
<1>9. ASSUME NEW f \in Flows, Redial(f) PROVE NothingBeforeCreation'
  <2>1. CASE GoTo(f, "write") /\ UNCHANGED <<status, asked>>
    BY <1>9, <2>1 DEF Redial, GoTo, NothingBeforeCreation
  <2>2. CASE /\ GoTo(f, "again") /\ SetStatus(of[f], "scheduled")
             /\ asked' = [asked EXCEPT ![of[f]] = @ + 1]
    BY <1>9, <2>2 DEF Redial, GoTo, SetStatus, NothingBeforeCreation
  <2>3. QED
    BY <1>9, <2>1, <2>2 DEF Redial
<1>10. ASSUME NEW f \in Flows, Again(f) PROVE NothingBeforeCreation'
  BY <1>10 DEF Again, GoTo, NothingBeforeCreation
<1>11. QED
  BY <1>0, <1>1, <1>2, <1>3, <1>4, <1>5, <1>6, <1>7, <1>8, <1>9, <1>10, NextCases

LEMMA OneNextCallPreserved ==
  ASSUME PostCallTypeOK, OneHandlerTriggers, NothingBeforeCreation, OneNextCall,
         [Next]_vars
  PROVE  OneNextCall'
<1> USE DEF PostCallTypeOK, DocumentsOK, ActivitiesOK, SessionsOK, FlowsOK, HistoryOK,
        docs, output, session, flows, history
<1>0. CASE UNCHANGED vars
  BY <1>0 DEF vars, OneNextCall, MayRecall, Live
<1>1. ASSUME NEW k \in Tasks, Begin(k) PROVE OneNextCall'
  BY <1>1 DEF Begin, OneNextCall, MayRecall, Live
<1>2. ASSUME NEW k \in Tasks, Dial(k) PROVE OneNextCall'
  BY <1>2 DEF Dial, OneNextCall, MayRecall, Live
<1>3. ASSUME NEW k \in Tasks, RecordInProgress(k) \/ DialFails(k) PROVE OneNextCall'
  BY <1>3 DEF RecordInProgress, DialFails, OneNextCall, MayRecall, Live
<1>4. ASSUME NEW k \in Tasks,
             \/ HangUp(k) \/ CleanUp(k) \/ KeyExpires(k)
             \/ \E e \in Ends : ToolEnds(k, e) \/ EnsureEnds(k, e)
      PROVE  OneNextCall'
  <2>1. \A j \in Tasks : Live(j)' => Live(j)
    BY <1>4, SessionSteps
  <2>2. UNCHANGED <<queue, act, step, of, fresh>>
    BY <1>4, SessionSteps
  <2>3. QED
    BY <2>1, <2>2 DEF OneNextCall, MayRecall
<1>5. ASSUME NEW k \in Tasks, NEW e \in Ends, Trigger(k, e) PROVE OneNextCall'
  <2>1. Live(k) /\ UNCHANGED <<queue, act, fresh>>
    BY <1>5 DEF Trigger, OneHandlerTriggers
  <2>2. /\ \A j \in Tasks \ {k} : call'[j] = call[j] /\ end'[j] = end[j]
        /\ \A d \in Ends : end'[k][d] # "triggering"
        /\ call'[k] = IF call[k] = "on" THEN "closing" ELSE call[k]
    BY <1>5 DEF Trigger, Through, OneHandlerTriggers
  <2>3. CASE UNCHANGED <<step, of, triggered>>
    BY <2>1, <2>2, <2>3 DEF OneNextCall, MayRecall, Live
  <2>4. ASSUME NEW f \in Flows, step[f] = "free",
               step' = [step EXCEPT ![f] = "queued"],
               of' = [of EXCEPT ![f] = k],
               triggered' = [triggered EXCEPT ![k] = @ + 1]
        PROVE  OneNextCall'
    <3>1. /\ \A j \in Tasks : Live(j)' => Live(j)
          /\ ~Live(k)'
      BY <2>2, <2>4 DEF Live
    <3>2. \A g \in Flows, j \in Tasks :
            MayRecall(g, j)' => MayRecall(g, j) \/ (g = f /\ j = k)
      <4>1. UNCHANGED fresh /\ of'[f] = k /\ step'[f] = "queued"
        BY <2>1, <2>4
      <4>2. \A g \in Flows : g # f => step'[g] = step[g] /\ of'[g] = of[g]
        BY <2>4
      <4>3. QED
        BY <4>1, <4>2 DEF MayRecall
    <3>3. queue[k] = 0 /\ act[k] # "dial" /\ \A g \in Flows : ~MayRecall(g, k)
      <4>1. act[k] # "dial"
        BY <2>1 DEF OneHandlerTriggers, Live
      <4>2. queue[k] \in Nat /\ queue[k] <= 1 /\ queue[k] # 1
        BY <2>1 DEF OneNextCall
      <4>3. \A g \in Flows : MayRecall(g, k) => ~Live(k)
        BY DEF OneNextCall
      <4> HIDE DEF PostCallTypeOK
      <4>4. QED
        BY <2>1, <4>1, <4>2, <4>3
    <3>4. /\ UNCHANGED <<queue, act>>
          /\ \A g \in Flows : MayRecall(g, k)' => g = f
          /\ \A j \in Tasks \ {k}, g \in Flows : MayRecall(g, j)' => MayRecall(g, j)
      BY <2>1, <3>2, <3>3
    <3> HIDE DEF PostCallTypeOK
    <3>5. QED
      BY <3>1, <3>3, <3>4 DEF OneNextCall
  <2>5. QED
    BY <1>5, <2>3, <2>4 DEF Trigger
<1>6. ASSUME NEW f \in Flows,
             \/ Provisional(f) \/ Analyse(f) \/ WriteTask(f) \/ WriteRun(f)
             \/ Redial(f) \/ FlowDies(f)
      PROVE  OneNextCall'
  BY <1>6, SMTT(20)
     DEF Provisional, Analyse, WriteTask, WriteRun, Redial, FlowDies, GoTo, OneNextCall,
         MayRecall, Live
<1>7. ASSUME NEW f \in Flows, FollowUp(f) PROVE OneNextCall'
  <2>1. CASE GoTo(f, "write") /\ UNCHANGED <<status, redials, output, fresh>>
    BY <1>7, <2>1 DEF FollowUp, GoTo, OneNextCall, MayRecall, Live
  <2>2. ASSUME NEW k \in Tasks, status[k] = "none", GoTo(f, "hand"),
               fresh' = [fresh EXCEPT ![f] = k]
        PROVE  OneNextCall'
    <3>1. /\ queue[k] = 0 /\ act[k] # "dial" /\ ~Live(k)
          /\ \A g \in Flows : ~MayRecall(g, k)
      BY <2>2 DEF NothingBeforeCreation, OneHandlerTriggers, Live, MayRecall
    <3>2. /\ UNCHANGED <<queue, act, call, end, triggered, of>>
          /\ \A g \in Flows : g # f => step'[g] = step[g] /\ fresh'[g] = fresh[g]
          /\ step'[f] = "hand" /\ fresh'[f] = k
      BY <1>7, <2>2 DEF FollowUp, GoTo
    <3>3. /\ \A j \in Tasks : Live(j)' <=> Live(j)
          /\ \A g \in Flows, j \in Tasks :
               MayRecall(g, j)' => MayRecall(g, j) \/ (g = f /\ j = k)
      BY <3>2 DEF Live, MayRecall
    <3> HIDE DEF PostCallTypeOK
    <3>4. QED
      BY <3>1, <3>2, <3>3 DEF OneNextCall
  <2>3. QED
    BY <1>7, <2>1, <2>2 DEF FollowUp, Existing
<1>8. ASSUME NEW f \in Flows, HandOver(f) PROVE OneNextCall'
  BY <1>8 DEF HandOver, GoTo, OneNextCall, MayRecall, Live
<1>9. ASSUME NEW f \in Flows, Again(f) PROVE OneNextCall'
  BY <1>9 DEF Again, GoTo, OneNextCall, MayRecall, Live
<1>10. QED
  BY <1>0, <1>1, <1>2, <1>3, <1>4, <1>5, <1>6, <1>7, <1>8, <1>9, NextCases

LEMMA CallsCountedPreserved ==
  ASSUME PostCallTypeOK, OneHandlerTriggers, NothingBeforeCreation, OneNextCall,
         CallsCounted, [Next]_vars
  PROVE  CallsCounted'
<1> USE DEF PostCallTypeOK, DocumentsOK, ActivitiesOK, SessionsOK, FlowsOK, HistoryOK,
        docs, output, session, flows, history
<1>0. CASE UNCHANGED vars
  BY <1>0 DEF vars, CallsCounted, MayRecall
<1>1. ASSUME NEW k \in Tasks, Begin(k) PROVE CallsCounted'
  BY <1>1 DEF Begin, OneNextCall, CallsCounted, MayRecall
<1>2. ASSUME NEW k \in Tasks, Dial(k) PROVE CallsCounted'
  BY <1>2 DEF Dial, OneNextCall, CallsCounted, MayRecall
<1>3. ASSUME NEW k \in Tasks, RecordInProgress(k) \/ DialFails(k) PROVE CallsCounted'
  BY <1>3 DEF RecordInProgress, DialFails, CallsCounted, MayRecall
<1>4. ASSUME NEW k \in Tasks,
             \/ HangUp(k) \/ CleanUp(k) \/ KeyExpires(k)
             \/ \E e \in Ends : ToolEnds(k, e) \/ EnsureEnds(k, e)
      PROVE  CallsCounted'
  BY <1>4, SessionSteps DEF CallsCounted, MayRecall
<1>5. ASSUME NEW k \in Tasks, NEW e \in Ends, Trigger(k, e) PROVE CallsCounted'
  BY <1>5 DEF Trigger, CallsCounted, MayRecall
<1>6. ASSUME NEW f \in Flows,
             Provisional(f) \/ Analyse(f) \/ WriteTask(f) \/ WriteRun(f) \/ FlowDies(f)
      PROVE  CallsCounted'
  <2>1. /\ UNCHANGED <<redials, queue, act, of, fresh, placed, asked>>
        /\ \A g \in Flows : step'[g] \in {"again", "hand"} => step'[g] = step[g]
    BY <1>6 DEF Provisional, Analyse, WriteTask, WriteRun, FlowDies, GoTo
  <2>2. QED
    BY <2>1 DEF CallsCounted, MayRecall
<1>7. ASSUME NEW f \in Flows, FollowUp(f) PROVE CallsCounted'
  <2>1. CASE GoTo(f, "write") /\ UNCHANGED <<status, redials, output, fresh>>
    BY <1>7, <2>1 DEF FollowUp, GoTo, CallsCounted, MayRecall
  <2>2. ASSUME NEW k \in Tasks, status[k] = "none", GoTo(f, "hand"),
               fresh' = [fresh EXCEPT ![f] = k],
               redials' = [redials EXCEPT ![k] = redials[of[f]]]
        PROVE  CallsCounted'
    BY <1>7, <2>2 DEF FollowUp, GoTo, NothingBeforeCreation, CallsCounted, MayRecall
  <2>3. QED
    BY <1>7, <2>1, <2>2 DEF FollowUp, Existing
<1>8. ASSUME NEW f \in Flows, HandOver(f) PROVE CallsCounted'
  BY <1>8 DEF HandOver, GoTo, OneNextCall, CallsCounted, MayRecall
<1>9. ASSUME NEW f \in Flows, Redial(f) PROVE CallsCounted'
  <2> DEFINE k == of[f]
  <2>1. /\ UNCHANGED <<queue, act, of, fresh, placed>>
        /\ k \in Tasks /\ MayRecall(f, k)
    BY <1>9 DEF Redial, MayRecall
  <2>2. CASE GoTo(f, "write") /\ UNCHANGED <<redials, asked>>
    BY <2>1, <2>2 DEF GoTo, CallsCounted, MayRecall
  <2>3. CASE /\ GoTo(f, "again")
             /\ redials' = [redials EXCEPT ![k] = @ + 1]
             /\ asked' = [asked EXCEPT ![k] = @ + 1]
    <3>1. \A g \in Flows, j \in Tasks :
            MayRecall(g, j)' /\ step'[g] \in {"again", "hand"} =>
              \/ MayRecall(g, j) /\ step[g] \in {"again", "hand"}
              \/ j = k
      BY <2>1, <2>3 DEF GoTo, MayRecall
    <3>2. \A j \in Tasks : j # k => redials'[j] = redials[j] /\ asked'[j] = asked[j]
      BY <2>3
    <3>3. redials'[k] = redials[k] + 1 /\ asked'[k] = asked[k] + 1
      BY <2>1, <2>3
    <3>4. /\ asked'[k] <= redials'[k] /\ placed'[k] <= asked'[k]
          /\ placed'[k] <= 1 + asked'[k]
      BY <2>1, <3>3 DEF CallsCounted
    <3>5. QED
      BY <2>1, <3>1, <3>2, <3>4 DEF CallsCounted
  <2>4. QED
    BY <1>9, <2>2, <2>3 DEF Redial
<1>10. ASSUME NEW f \in Flows, Again(f) PROVE CallsCounted'
  <2>1. CASE GoTo(f, "write") /\ UNCHANGED queue
    BY <1>10, <2>1 DEF Again, GoTo, CallsCounted, MayRecall
  <2>2. CASE GoTo(f, "free") /\ queue' = [queue EXCEPT ![of[f]] = @ + 1]
    <3>1. /\ UNCHANGED <<redials, act, of, fresh, placed, asked>>
          /\ step[f] = "again" /\ of[f] \in Tasks
          /\ \A j \in Tasks : j # of[f] => queue'[j] = queue[j]
          /\ \A g \in Flows : step'[g] # "free" => step'[g] = step[g]
      BY <1>10, <2>2 DEF Again, GoTo
    <3>2. placed[of[f]] <= asked[of[f]]
      BY <3>1 DEF CallsCounted, MayRecall
    <3>3. \A g \in Flows, j \in Tasks :
            MayRecall(g, j)' /\ step'[g] \in {"again", "hand"} =>
              MayRecall(g, j) /\ step[g] \in {"again", "hand"}
      BY <3>1 DEF MayRecall
    <3>4. QED
      BY <3>1, <3>2, <3>3 DEF CallsCounted
  <2>3. QED
    BY <1>10, <2>1, <2>2 DEF Again
<1>11. QED
  BY <1>0, <1>1, <1>2, <1>3, <1>4, <1>5, <1>6, <1>7, <1>8, <1>9, <1>10, NextCases

(* Whatever the flows of a task's calls, its follow-ups and the activity do *)
(* to each other, schedule_redial_task has the customer of a task called    *)
(* again at most MaxRedials times: the next call of a task is in one place, *)
(* and moves on only with its redial counted.                               *)
THEOREM RedialsAreBounded == Spec => []RedialsBounded
<1> DEFINE Inv == /\ PostCallTypeOK /\ OneHandlerTriggers
                  /\ NothingBeforeCreation /\ OneNextCall /\ CallsCounted
<1>1. Init => NothingBeforeCreation /\ OneNextCall /\ CallsCounted
  BY PostCallAssumption
     DEF Init, NothingBeforeCreation, OneNextCall, CallsCounted, MayRecall, Live
<1>2. ASSUME Inv, [Next]_vars
      PROVE  NothingBeforeCreation' /\ OneNextCall' /\ CallsCounted'
  BY <1>2, NothingBeforeCreationPreserved, OneNextCallPreserved, CallsCountedPreserved
<1>3. Inv => RedialsBounded
  <2> SUFFICES ASSUME Inv, NEW k \in Tasks PROVE placed[k] <= 1 + MaxRedials
    BY DEF RedialsBounded
  <2>1. /\ placed[k] <= 1 + asked[k] /\ asked[k] <= redials[k]
        /\ redials[k] \in 0 .. MaxRedials /\ placed[k] \in Nat /\ asked[k] \in Nat
    BY DEF CallsCounted, PostCallTypeOK, DocumentsOK, HistoryOK
  <2>2. QED
    BY <2>1, PostCallAssumption
<1>4. QED
  BY <1>1, <1>2, <1>3, TypeCorrect, OneHandlerTriggersAlways, PTL DEF Spec
=============================================================================
