--------------------------- MODULE CallTask_proofs ---------------------------
(***************************************************************************)
(* Proofs about CallTask, for every set of tasks and worker slots, every   *)
(* assignment of providers and every set of faults, except where a theorem *)
(* assumes that no activity outlives the lock of its task.                 *)
(***************************************************************************)
EXTENDS CallTask, FiniteSetTheorems, TLAPS

(* The steps of a slot that only execute the activity, one name each, so   *)
(* that a proof by cases can cite them.                                    *)
LEMMA NextCases ==
  ASSUME Next
  PROVE  \/ \E f \in Flows :
              \/ CheckDedup(f) \/ AcquireLock(f) \/ ReadTask(f) \/ CompareAndSet(f)
              \/ GiveUp(f) \/ Defer(f) \/ Reschedule(f) \/ Increment(f)
              \/ Dial(f) \/ DialLost(f) \/ DialFails(f) \/ EndLocalCall(f)
              \/ RecordCompleted(f) \/ RecordInProgress(f) \/ RecordFailed(f)
              \/ MarkDedup(f) \/ Tally(f) \/ WriteRun(f)
              \/ Raise(f) \/ Except(f) \/ ReleaseLock(f) \/ Decrement(f)
              \/ Crash(f)
         \/ \E f \in Flows, t \in Tasks : Start(f, t)
         \/ \E t \in Tasks : \/ Trigger(t) \/ ComesDue(t) \/ LockExpires(t)
                             \/ DedupExpires(t) \/ HangUp(t)
BY DEF Next, FlowStep, TimerStep, Activity

(* A slot whose flow run is over is idle and keeps nothing of the task.    *)
LEMMA ReturnTypes ==
  ASSUME TypeOK, NEW f \in Flows, Return(f)
  PROVE  /\ pc' \in [Flows -> Points]
         /\ job' \in [Flows -> Tasks \cup {NoTask}]
         /\ \A g \in Flows : pc'[g] # "idle" => job'[g] \in Tasks
         /\ seen' \in [Flows -> Nat]
         /\ counted' \in [Flows -> BOOLEAN]
         /\ response' \in [Flows -> Responses]
         /\ verdict' \in [Flows -> RunStatuses \cup {"none"}]
         /\ \A g \in Flows : pc'[g] = "runwrite" => verdict'[g] \in RunStatuses
         /\ late' \in [Flows -> BOOLEAN]
<1>1. /\ pc' = [pc EXCEPT ![f] = "idle"] /\ job' = [job EXCEPT ![f] = NoTask]
      /\ seen' = [seen EXCEPT ![f] = 0] /\ verdict' = [verdict EXCEPT ![f] = "none"]
      /\ counted' = [counted EXCEPT ![f] = FALSE]
      /\ response' = [response EXCEPT ![f] = "none"]
      /\ late' = [late EXCEPT ![f] = FALSE]
  BY DEF Return, Goto
<1>2. "idle" \in Points /\ "none" \in Responses
  BY DEF Points, Responses
<1>3. QED
  BY <1>1, <1>2 DEF TypeOK

(* One of the calls of a task in progress ends.                            *)
LEMMA CallOverTypes ==
  ASSUME TypeOK, NEW t \in Tasks, CallOver(t)
  PROVE  current' \in [Tasks -> BOOLEAN] /\ orphans' \in [Tasks -> Nat]
<1>1. CASE orphans[t] > 0
  <2>1. orphans' = [orphans EXCEPT ![t] = @ - 1] /\ current' = current
    BY <1>1 DEF CallOver
  <2>2. orphans[t] - 1 \in Nat
    BY <1>1 DEF TypeOK
  <2>3. QED
    BY <2>1, <2>2 DEF TypeOK
<1>2. CASE ~(orphans[t] > 0)
  BY <1>2 DEF CallOver, TypeOK
<1>3. QED
  BY <1>1, <1>2

(* One or two calls of a task start.                                       *)
LEMMA PlaceCallsTypes ==
  ASSUME TypeOK, NEW t \in Tasks, NEW n \in 1 .. 2, PlaceCalls(t, n)
  PROVE  current' \in [Tasks -> BOOLEAN] /\ orphans' \in [Tasks -> Nat]
<1>1. orphans[t] + n \in Nat /\ orphans[t] + n - 1 \in Nat
  BY DEF TypeOK
<1>2. QED
  BY <1>1 DEF PlaceCalls, TypeOK

(* No step takes a variable out of its type.                               *)
LEMMA TypePreserved ==
  ASSUME TypeOK, [Next]_vars
  PROVE  TypeOK'
<1> USE ConstantsAssumption
<1> USE DEF Points, Section, TryBody
<1>0. CASE UNCHANGED vars
  BY <1>0 DEF TypeOK, vars, taskVars, redis, prefect, locals, calls
<1>1. ASSUME NEW f \in Flows, CheckDedup(f) PROVE TypeOK'
  <2>1. CASE Return(f)
    BY <1>1, <2>1, ReturnTypes
       DEF CheckDedup, TypeOK, taskVars, redis, prefect, calls
  <2>2. CASE Goto(f, "lock") /\ UNCHANGED locals
    BY <1>1, <2>2
       DEF CheckDedup, Goto, TypeOK, taskVars, redis, prefect, locals, calls
  <2>3. QED
    BY <1>1, <2>1, <2>2 DEF CheckDedup
<1>2. ASSUME NEW f \in Flows, AcquireLock(f) PROVE TypeOK'
  <2>1. CASE Return(f) /\ UNCHANGED lock
    BY <1>2, <2>1, ReturnTypes DEF AcquireLock, TypeOK, taskVars, prefect, calls
  <2>2. CASE /\ lock' = [lock EXCEPT ![job[f]] = f]
             /\ Goto(f, "read") /\ UNCHANGED locals
    BY <1>2, <2>2
       DEF AcquireLock, Goto, TypeOK, taskVars, prefect, locals, calls
  <2>3. QED
    BY <1>2, <2>1, <2>2 DEF AcquireLock
<1>3. ASSUME NEW f \in Flows, ReadTask(f) PROVE TypeOK'
  <2>1. CASE Return(f)
    BY <1>3, <2>1, ReturnTypes
       DEF ReadTask, TypeOK, taskVars, redis, prefect, calls
  <2>2. CASE /\ seen' = [seen EXCEPT ![f] = retry[job[f]]] /\ Goto(f, "cas")
             /\ UNCHANGED <<job, counted, response, verdict, late>>
    BY <1>3, <2>2 DEF ReadTask, Goto, TypeOK, taskVars, redis, prefect, calls
  <2>3. QED
    BY <1>3, <2>1, <2>2 DEF ReadTask
<1>4. ASSUME NEW f \in Flows, CompareAndSet(f) PROVE TypeOK'
  BY <1>4
     DEF CompareAndSet, Goto, Statuses, TypeOK, taskVars, redis, prefect,
         locals, calls
<1>5. ASSUME NEW f \in Flows, GiveUp(f) PROVE TypeOK'
  BY <1>5
     DEF GiveUp, SetStatus, Goto, Statuses, TypeOK, taskVars, redis, prefect,
         locals, calls
<1>6. ASSUME NEW f \in Flows, Defer(f) PROVE TypeOK'
  BY <1>6
     DEF Defer, Goto, Statuses, TypeOK, taskVars, redis, prefect, locals, calls
<1>7. ASSUME NEW f \in Flows, Reschedule(f) PROVE TypeOK'
  BY <1>7
     DEF Reschedule, Add, Respond, Goto, Responses, TypeOK, taskVars, redis,
         prefect, locals, calls
<1>8. ASSUME NEW f \in Flows, Increment(f) PROVE TypeOK'
  BY <1>8 DEF Increment, Goto, TypeOK, taskVars, redis, prefect, locals, calls
<1>9. ASSUME NEW f \in Flows, Dial(f) PROVE TypeOK'
  BY <1>9
     DEF Dial, PlaceCall, PlaceCalls, Goto, Respond, Responses, TypeOK, taskVars, redis,
         prefect, locals, calls
<1>10. ASSUME NEW f \in Flows, DialLost(f) PROVE TypeOK'
  <2>1. job[f] \in Tasks /\ \E posts \in 1 .. 2 : PlaceCalls(job[f], posts)
    BY <1>10 DEF DialLost, PlaceCall, TypeOK
  <2>2. current' \in [Tasks -> BOOLEAN] /\ orphans' \in [Tasks -> Nat]
    BY <2>1, PlaceCallsTypes
  <2>3. pc' \in [Flows -> Points] /\ response' \in [Flows -> Responses]
        /\ \A g \in Flows : pc'[g] \in {"except", "record"} \/ pc'[g] = pc[g]
    BY <1>10, SMTT(20) DEF DialLost, Goto, Respond, Responses, TypeOK
  <2>4. pc'[f] # "idle" /\ \A g \in Flows \ {f} : pc'[g] = pc[g]
    BY <1>10 DEF DialLost, Goto, TypeOK
  <2>5. QED
    BY <1>10, <2>1, <2>2, <2>3, <2>4 DEF DialLost, TypeOK, taskVars, redis, prefect
<1>11. ASSUME NEW f \in Flows, DialFails(f) PROVE TypeOK'
  BY <1>11
     DEF DialFails, Goto, Respond, Responses, TypeOK, taskVars, redis,
         prefect, locals, calls
<1>12. ASSUME NEW f \in Flows, EndLocalCall(f) PROVE TypeOK'
  <2>1. job[f] \in Tasks
    BY <1>12 DEF EndLocalCall, TypeOK
  <2>2. CallOver(job[f])
    BY <1>12 DEF EndLocalCall
  <2>3. current' \in [Tasks -> BOOLEAN] /\ orphans' \in [Tasks -> Nat]
    BY <2>1, <2>2, CallOverTypes
  <2>4. QED
    BY <1>12, <2>3 DEF EndLocalCall, Goto, Respond, Responses, TypeOK, taskVars,
                       redis, prefect
<1>13. ASSUME NEW f \in Flows, RecordCompleted(f) PROVE TypeOK'
  BY <1>13
     DEF RecordCompleted, SetStatus, Goto, Statuses, TypeOK, taskVars, redis,
         prefect, locals, calls
<1>14. ASSUME NEW f \in Flows, RecordInProgress(f) PROVE TypeOK'
  <2>1. status' \in [Tasks -> Statuses]
    BY <1>14 DEF RecordInProgress, SetStatus, Statuses, TypeOK
  <2>2. PICK p \in {"release", "except"} : pc' = [pc EXCEPT ![f] = p]
    BY <1>14 DEF RecordInProgress, Goto
  <2>3. pc[f] # "idle"
    BY <1>14 DEF RecordInProgress
  <2>4. /\ retry' = retry /\ error' = error
        /\ UNCHANGED <<run, redis, prefect, locals, calls, done, leaked>>
    BY <1>14 DEF RecordInProgress
  <2>5. QED
    BY <2>1, <2>2, <2>3, <2>4 DEF TypeOK, redis, prefect, locals, calls
<1>15. ASSUME NEW f \in Flows, RecordFailed(f) PROVE TypeOK'
  <2>1. status' \in [Tasks -> Statuses] /\ error' \in [Tasks -> Errors]
    BY <1>15 DEF RecordFailed, SetStatus, Statuses, TypeOK
  <2>2. pc' = [pc EXCEPT ![f] = "tally"] /\ pc[f] # "idle"
    BY <1>15 DEF RecordFailed, Goto
  <2>3. retry' = retry /\ UNCHANGED <<run, redis, prefect, locals, calls, done, leaked>>
    BY <1>15 DEF RecordFailed
  <2>4. QED
    BY <2>1, <2>2, <2>3 DEF TypeOK, redis, prefect, locals, calls
<1>16. ASSUME NEW f \in Flows, MarkDedup(f) PROVE TypeOK'
  BY <1>16 DEF MarkDedup, Goto, TypeOK, taskVars, redis, prefect, locals, calls
<1>17. ASSUME NEW f \in Flows, Tally(f) PROVE TypeOK'
  BY <1>17
     DEF Tally, RunVerdict, Goto, RunStatuses, TypeOK, taskVars, redis,
         prefect, locals, calls
<1>18. ASSUME NEW f \in Flows, WriteRun(f) PROVE TypeOK'
  BY <1>18 DEF WriteRun, Goto, TypeOK, taskVars, redis, prefect, locals, calls
<1>19. ASSUME NEW f \in Flows, Raise(f) PROVE TypeOK'
  <2>1. job[f] \in Tasks
    BY <1>19 DEF Raise, TypeOK
  <2>2. current' \in [Tasks -> BOOLEAN] /\ orphans' \in [Tasks -> Nat]
    <3>1. CASE CallOver(job[f])
      BY <2>1, <3>1, CallOverTypes
    <3>2. CASE UNCHANGED calls
      BY <3>2 DEF calls, TypeOK
    <3>3. QED
      BY <1>19, <3>1, <3>2 DEF Raise
  <2>3. QED
    BY <1>19, <2>2 DEF Raise, Goto, TypeOK, taskVars, redis, prefect, locals
<1>20. ASSUME NEW f \in Flows, Except(f) PROVE TypeOK'
  <2>1. status' \in [Tasks -> Statuses] /\ error' \in [Tasks -> Errors]
    BY <1>20 DEF Except, SetStatus, Statuses, TypeOK
  <2>2. pc' = [pc EXCEPT ![f] = "release"] /\ pc[f] # "idle"
    BY <1>20 DEF Except, Goto
  <2>3. retry' = retry /\ UNCHANGED <<run, redis, prefect, locals, calls, done, leaked>>
    BY <1>20 DEF Except
  <2>4. QED
    BY <2>1, <2>2, <2>3 DEF TypeOK, redis, prefect, locals, calls
<1>21. ASSUME NEW f \in Flows, ReleaseLock(f) PROVE TypeOK'
  BY <1>21
     DEF ReleaseLock, Goto, TypeOK, taskVars, redis, prefect, locals, calls
<1>22. ASSUME NEW f \in Flows, Decrement(f) PROVE TypeOK'
  <2> DEFINE p == Provider[job[f]]
  <2>1. p \in Providers /\ Return(f)
    BY <1>22 DEF Decrement, TypeOK
  <2>2. workers' \in [Providers -> Nat] /\ leaked' \in [Providers -> Nat]
    <3>1. CASE counted[f] /\ workers[p] > 0
      <4>1. workers[p] - 1 \in Nat
        BY <2>1, <3>1 DEF TypeOK
      <4>2. QED
        BY <1>22, <2>1, <3>1, <4>1 DEF Decrement, TypeOK
    <3>2. CASE ~(counted[f] /\ workers[p] > 0)
      BY <1>22, <2>1, <3>2 DEF Decrement, TypeOK
    <3>3. QED
      BY <3>1, <3>2
  <2>3. QED
    BY <1>22, <2>1, <2>2, ReturnTypes
       DEF Decrement, TypeOK, taskVars, prefect, calls
<1>23. ASSUME NEW f \in Flows, Crash(f) PROVE TypeOK'
  <2>1. job[f] \in Tasks /\ Return(f)
    BY <1>23 DEF Crash, TypeOK
  <2>2. leaked' \in [Providers -> Nat]
    BY <1>23, <2>1 DEF Crash, TypeOK
  <2>3. current' \in [Tasks -> BOOLEAN] /\ orphans' \in [Tasks -> Nat]
    <3>1. CASE CallOver(job[f])
      BY <2>1, <3>1, CallOverTypes
    <3>2. CASE UNCHANGED calls
      BY <3>2 DEF calls, TypeOK
    <3>3. QED
      BY <1>23, <3>1, <3>2 DEF Crash
  <2>4. QED
    BY <1>23, <2>1, <2>2, <2>3, ReturnTypes
       DEF Crash, TypeOK, taskVars, redis, prefect
<1>24. ASSUME NEW f \in Flows, NEW t \in Tasks, Start(f, t) PROVE TypeOK'
  BY <1>24 DEF Start, Goto, TypeOK, taskVars, redis, calls
<1>25. ASSUME NEW t \in Tasks, Trigger(t) PROVE TypeOK'
  BY <1>25 DEF Trigger, Add, TypeOK, taskVars, redis, prefect, locals, calls
<1>26. ASSUME NEW t \in Tasks, ComesDue(t) PROVE TypeOK'
  BY <1>26 DEF ComesDue, Add, TypeOK, taskVars, redis, prefect, locals, calls
<1>27. ASSUME NEW t \in Tasks, LockExpires(t) PROVE TypeOK'
  BY <1>27 DEF LockExpires, TypeOK, taskVars, redis, prefect, locals, calls
<1>28. ASSUME NEW t \in Tasks, DedupExpires(t) PROVE TypeOK'
  BY <1>28 DEF DedupExpires, TypeOK, taskVars, redis, prefect, locals, calls
<1>29. ASSUME NEW t \in Tasks, HangUp(t) PROVE TypeOK'
  <2>1. CASE orphans[t] > 0 /\ orphans' = [orphans EXCEPT ![t] = @ - 1]
    <3>1. orphans[t] - 1 \in Nat
      BY <2>1 DEF TypeOK
    <3>2. current' \in [Tasks -> BOOLEAN] /\ orphans' \in [Tasks -> Nat]
      BY <1>29, <2>1, <3>1 DEF HangUp, TypeOK
    <3>3. QED
      BY <1>29, <3>2 DEF HangUp, TypeOK, taskVars, redis, prefect, locals
  <2>2. CASE current' = [current EXCEPT ![t] = FALSE] /\ UNCHANGED orphans
    BY <1>29, <2>2 DEF HangUp, TypeOK, taskVars, redis, prefect, locals
  <2>3. QED
    BY <1>29, <2>1, <2>2 DEF HangUp
<1>30. QED
  BY <1>0, <1>1, <1>2, <1>3, <1>4, <1>5, <1>6, <1>7, <1>8, <1>9, <1>10, <1>11, <1>12, <1>13, <1>14, <1>15, <1>16, <1>17, <1>18, <1>19, <1>20, <1>21, <1>22, <1>23, <1>24, <1>25, <1>26, <1>27, <1>28, <1>29,
     NextCases

(* Every variable keeps its type: a slot at work has a task, a slot about  *)
(* to write the run has a verdict, and the worker counter, which is        *)
(* decremented behind a clamp, never goes below zero.                      *)
THEOREM TypeCorrect == Spec => []TypeOK
<1>1. Init => TypeOK
  BY ConstantsAssumption
     DEF Init, TypeOK, Statuses, RunStatuses, Responses, Points, Section, TryBody
<1>2. TypeOK /\ [Next]_vars => TypeOK'
  BY TypePreserved
<1>3. QED
  BY <1>1, <1>2, PTL DEF Spec
-----------------------------------------------------------------------------
(* What a step does to the positions of the slots and to the locks, which  *)
(* is all that mutual exclusion depends on.                                *)
Moves(f, p) == pc' = [pc EXCEPT ![f] = p]

Inside(f)  == /\ pc[f] \in Section /\ \E p \in Section : Moves(f, p)
              /\ UNCHANGED <<job, lock>>
Enters(f)  == /\ pc[f] = "lock" /\ Moves(f, "read") /\ UNCHANGED job
              /\ lock[job[f]] = NoFlow /\ lock' = [lock EXCEPT ![job[f]] = f]
Exits(f)   == /\ pc[f] = "release" /\ Moves(f, "decr") /\ UNCHANGED job
              /\ lock' = lock \/ lock' = [lock EXCEPT ![job[f]] = NoFlow]
Outside(f) == /\ \E p \in Points \ Section : Moves(f, p)
              /\ \E t \in Tasks \cup {NoTask} : job' = [job EXCEPT ![f] = t]
              /\ UNCHANGED lock
Expires(t) == /\ lock[t] # NoFlow /\ ~InSection(lock[t], t)
              /\ lock' = [lock EXCEPT ![t] = NoFlow]
              /\ UNCHANGED <<pc, job>>

(* The actions between taking and deleting the lock.                       *)
LEMMA InsideSteps ==
  ASSUME NEW f \in Flows,
         \/ (ReadTask(f) /\ ~Return(f)) \/ CompareAndSet(f) \/ GiveUp(f) \/ Defer(f)
         \/ Reschedule(f) \/ Increment(f) \/ Dial(f) \/ DialLost(f) \/ DialFails(f)
         \/ EndLocalCall(f) \/ RecordCompleted(f) \/ RecordInProgress(f)
         \/ RecordFailed(f) \/ MarkDedup(f) \/ Tally(f) \/ WriteRun(f)
         \/ Raise(f) \/ Except(f)
  PROVE  Inside(f)
<1> USE DEF Section, TryBody, Goto, Moves
<1>1. pc[f] \in Section /\ \E p \in Section : Moves(f, p)
  BY DEF ReadTask, CompareAndSet, GiveUp, Defer, Reschedule, Increment, Dial,
         DialLost, DialFails, EndLocalCall, RecordCompleted, RecordInProgress,
         RecordFailed, MarkDedup, Tally, WriteRun, Raise, Except
<1>2. UNCHANGED <<job, lock>>
  BY DEF ReadTask, CompareAndSet, GiveUp, Defer, Reschedule, Increment, Dial,
         DialLost, DialFails, EndLocalCall, RecordCompleted, RecordInProgress,
         RecordFailed, MarkDedup, Tally, WriteRun, Raise, Except, redis, locals
<1>3. QED
  BY <1>1, <1>2 DEF Inside

(* The actions of a slot that is not, or no longer, between the two.       *)
LEMMA OutsideSteps ==
  ASSUME TypeOK, NEW f \in Flows,
         \/ CheckDedup(f) \/ (ReadTask(f) /\ Return(f))
         \/ Decrement(f) \/ Crash(f) \/ \E t \in Tasks : Start(f, t)
  PROVE  Outside(f)
<1> USE DEF Section, TryBody, Goto, Moves
<1>1. ASSUME Return(f), UNCHANGED lock PROVE Outside(f)
  BY <1>1 DEF Return, Outside, Points
<1>2. CASE CheckDedup(f)
  <2>1. CASE Return(f)
    BY <1>1, <1>2, <2>1 DEF CheckDedup, redis
  <2>2. CASE Goto(f, "lock") /\ UNCHANGED locals
    <3>1. job' = [job EXCEPT ![f] = job[f]] /\ job[f] \in Tasks \cup {NoTask}
      BY <2>2 DEF locals, TypeOK
    <3>2. QED
      BY <1>2, <2>2, <3>1 DEF CheckDedup, Outside, Points, redis
  <2>3. QED
    BY <1>2, <2>1, <2>2 DEF CheckDedup
<1>3. CASE (ReadTask(f) /\ Return(f)) \/ Decrement(f) \/ Crash(f)
  BY <1>1, <1>3 DEF ReadTask, Decrement, Crash, redis
<1>4. ASSUME NEW t \in Tasks, Start(f, t) PROVE Outside(f)
  BY <1>4 DEF Start, Outside, Points, redis
<1>5. QED
  BY <1>2, <1>3, <1>4

LEMMA AcquireSteps ==
  ASSUME NEW f \in Flows, AcquireLock(f)
  PROVE  Enters(f) \/ Outside(f)
<1>1. CASE Return(f) /\ UNCHANGED lock
  BY <1>1 DEF Return, Outside, Points, Section, TryBody, Goto, Moves
<1>2. CASE ~(Return(f) /\ UNCHANGED lock)
  BY <1>2 DEF AcquireLock, Enters, Goto, Moves, locals
<1>3. QED
  BY <1>1, <1>2

LEMMA ExitSteps == ASSUME NEW f \in Flows, ReleaseLock(f) PROVE Exits(f)
BY DEF ReleaseLock, Exits, Goto, Moves, locals

(* The timers and Prefect leave the slots alone.                           *)
LEMMA TimerSteps ==
  ASSUME "overrun" \notin Faults, NEW t \in Tasks,
         Trigger(t) \/ ComesDue(t) \/ LockExpires(t) \/ DedupExpires(t) \/ HangUp(t)
  PROVE  Expires(t) \/ UNCHANGED <<pc, job, lock>>
BY DEF Trigger, ComesDue, LockExpires, DedupExpires, HangUp, Expires, redis, locals

(* Every step is of one of these kinds.                                    *)
LEMMA StepKinds ==
  ASSUME TypeOK, [Next]_vars, "overrun" \notin Faults
  PROVE  \/ \E f \in Flows : Inside(f) \/ Enters(f) \/ Exits(f) \/ Outside(f)
         \/ \E t \in Tasks : Expires(t)
         \/ UNCHANGED <<pc, job, lock>>
<1>1. CASE UNCHANGED vars
  BY <1>1 DEF vars, locals, redis
<1>2. CASE Next
  <2>1. ASSUME NEW f \in Flows,
               \/ ReadTask(f) \/ CompareAndSet(f) \/ GiveUp(f) \/ Defer(f)
               \/ Reschedule(f) \/ Increment(f) \/ Dial(f) \/ DialLost(f)
               \/ DialFails(f) \/ EndLocalCall(f) \/ RecordCompleted(f)
               \/ RecordInProgress(f) \/ RecordFailed(f) \/ MarkDedup(f)
               \/ Tally(f) \/ WriteRun(f) \/ Raise(f) \/ Except(f)
        PROVE  Inside(f) \/ Outside(f)
    BY <2>1, InsideSteps, OutsideSteps
  <2>2. ASSUME NEW f \in Flows,
               CheckDedup(f) \/ AcquireLock(f) \/ Decrement(f) \/ Crash(f)
        PROVE  Enters(f) \/ Outside(f)
    BY <2>2, OutsideSteps, AcquireSteps
  <2>3. ASSUME NEW f \in Flows, ReleaseLock(f) PROVE Exits(f)
    BY <2>3, ExitSteps
  <2>4. ASSUME NEW t \in Tasks, \/ Trigger(t) \/ ComesDue(t) \/ LockExpires(t)
                                \/ DedupExpires(t) \/ HangUp(t)
        PROVE  Expires(t) \/ UNCHANGED <<pc, job, lock>>
    BY <2>4, TimerSteps
  <2>5. ASSUME NEW f \in Flows, NEW t \in Tasks, Start(f, t) PROVE Outside(f)
    BY <2>5, OutsideSteps
  <2>6. QED
    BY <1>2, <2>1, <2>2, <2>3, <2>4, <2>5, NextCases
<1>3. QED
  BY <1>1, <1>2

(* The lock's key names the slot inside the section.  The release does not *)
(* look whose key it deletes, and need not: without an overrun it is its   *)
(* own.                                                                    *)
LEMMA LockHeldPreserved ==
  ASSUME TypeOK, LockHeld, [Next]_vars, "overrun" \notin Faults
  PROVE  LockHeld'
<1> USE ConstantsAssumption DEF LockHeld
<1> SUFFICES ASSUME NEW g \in Flows, pc'[g] \in Section
             PROVE  lock'[job'[g]] = g
  OBVIOUS
<1>0. g # NoFlow /\ (pc[g] \in Section => job[g] \in Tasks /\ lock[job[g]] = g)
  BY DEF TypeOK, Section, TryBody
<1>1. CASE UNCHANGED <<pc, job, lock>>
  BY <1>1
<1>2. ASSUME NEW f \in Flows, Inside(f) PROVE lock'[job'[g]] = g
  BY <1>0, <1>2 DEF Inside, Moves, TypeOK
<1>3. ASSUME NEW f \in Flows, Enters(f) PROVE lock'[job'[g]] = g
  <2>1. job[f] \in Tasks
    BY <1>3 DEF Enters, TypeOK
  <2>2. QED
    BY <1>0, <1>3, <2>1 DEF Enters, Moves, TypeOK
<1>4. ASSUME NEW f \in Flows, Exits(f) PROVE lock'[job'[g]] = g
  <2>1. f # g /\ pc[g] \in Section /\ job[f] \in Tasks
    BY <1>4 DEF Exits, Moves, TypeOK, Section, TryBody
  <2>2. job[f] # job[g]
    BY <1>0, <1>4, <2>1 DEF Exits, Section
  <2>3. QED
    BY <1>0, <1>4, <2>1, <2>2 DEF Exits, TypeOK
<1>5. ASSUME NEW f \in Flows, Outside(f) PROVE lock'[job'[g]] = g
  BY <1>0, <1>5 DEF Outside, Moves, TypeOK
<1>6. ASSUME NEW t \in Tasks, Expires(t) PROVE lock'[job'[g]] = g
  BY <1>0, <1>6 DEF Expires, InSection, TypeOK
<1>7. QED
  BY <1>1, <1>2, <1>3, <1>4, <1>5, <1>6, StepKinds

LEMMA LockHeldAlways ==
  ASSUME "overrun" \notin Faults
  PROVE  Spec => [](TypeOK /\ LockHeld)
<1>1. Init => LockHeld
  BY DEF Init, LockHeld, Section, TryBody
<1>2. TypeOK /\ LockHeld /\ [Next]_vars => LockHeld'
  BY LockHeldPreserved
<1>3. QED
  BY <1>1, <1>2, TypeCorrect, PTL DEF Spec

LEMMA HeldIsExclusive == LockHeld => SectionExclusive
BY DEF LockHeld, SectionExclusive, InSection

(* As long as no activity outlives the lock's 900 s, two flow runs are     *)
(* never inside the activity of one task, whatever crashes, raises or      *)
(* expires.                                                                *)
THEOREM MutualExclusion ==
  ASSUME "overrun" \notin Faults
  PROVE  Spec => []SectionExclusive
<1>1. Spec => [](TypeOK /\ LockHeld)
  BY LockHeldAlways
<1>2. QED
  BY <1>1, HeldIsExclusive, PTL
-----------------------------------------------------------------------------
(* Local calls.                                                            *)

(* A slot whose local call is over, for whatever reason.                   *)
CallEnds(f) ==
  /\ pc[f] = "calling" /\ CallOver(job[f])
  /\ \E p \in Points \ {"calling"} : Moves(f, p)
  /\ \A g \in Flows \ {f} : job'[g] = job[g]

(* A step that neither starts nor ends a local call.                       *)
Quiet == /\ UNCHANGED calls
         /\ \A g \in Flows : pc[g] = "calling" => pc'[g] = "calling" /\ job'[g] = job[g]

LEMMA QuietSteps ==
  ASSUME TypeOK, NEW f \in Flows,
         \/ CheckDedup(f) \/ AcquireLock(f) \/ ReadTask(f) \/ CompareAndSet(f)
         \/ GiveUp(f) \/ Defer(f) \/ Reschedule(f) \/ Increment(f) \/ DialFails(f)
         \/ RecordCompleted(f) \/ RecordInProgress(f) \/ RecordFailed(f)
         \/ MarkDedup(f) \/ Tally(f) \/ WriteRun(f)
         \/ (Raise(f) /\ pc[f] # "calling") \/ Except(f) \/ ReleaseLock(f)
         \/ Decrement(f) \/ (Crash(f) /\ pc[f] # "calling")
         \/ \E t \in Tasks : Start(f, t)
  PROVE  Quiet
<1>1. UNCHANGED calls /\ pc[f] # "calling"
  BY DEF CheckDedup, AcquireLock, ReadTask, CompareAndSet, GiveUp, Defer, Reschedule,
         Increment, DialFails, RecordCompleted, RecordInProgress, RecordFailed,
         MarkDedup, Tally, WriteRun, Raise, Except, ReleaseLock, Decrement, Crash, Start
<1>2. \A g \in Flows \ {f} : pc'[g] = pc[g] /\ job'[g] = job[g]
  BY DEF CheckDedup, AcquireLock, ReadTask, CompareAndSet, GiveUp, Defer, Reschedule,
         Increment, DialFails, RecordCompleted, RecordInProgress, RecordFailed,
         MarkDedup, Tally, WriteRun, Raise, Except, ReleaseLock, Decrement, Crash,
         Start, Goto, Return, locals, TypeOK
<1>3. QED
  BY <1>1, <1>2 DEF Quiet

LEMMA CallEndSteps ==
  ASSUME TypeOK, NEW f \in Flows,
         EndLocalCall(f) \/ ((Raise(f) \/ Crash(f)) /\ pc[f] = "calling")
  PROVE  CallEnds(f)
BY DEF EndLocalCall, Raise, Crash, Return, CallEnds, Goto, Moves, Points, Section,
       TryBody, locals, TypeOK

LEMMA QuietTimers ==
  ASSUME NEW t \in Tasks,
         Trigger(t) \/ ComesDue(t) \/ LockExpires(t) \/ DedupExpires(t)
  PROVE  Quiet
BY DEF Trigger, ComesDue, LockExpires, DedupExpires, Quiet, locals

(* With the lock held, a slot that dials finds no call of its task.        *)
LEMMA NobodyTalks ==
  ASSUME TypeOK, LockHeld, LocalCallAttended,
         NEW f \in Flows, pc[f] \in Section \ {"calling"}, Provider[job[f]] = "pipecat"
  PROVE  ~current[job[f]] /\ orphans[job[f]] = 0
<1>1. job[f] \in Tasks /\ lock[job[f]] = f
  BY DEF TypeOK, LockHeld, Section, TryBody
<1>2. ASSUME current[job[f]] PROVE FALSE
  <2>1. PICK g \in Flows : pc[g] = "calling" /\ job[g] = job[f]
    BY <1>1, <1>2 DEF LocalCallAttended
  <2>2. lock[job[f]] = g
    BY <2>1 DEF LockHeld, Section, TryBody
  <2>3. QED
    BY <1>1, <2>1, <2>2
<1>3. QED
  BY <1>1, <1>2 DEF LocalCallAttended

LEMMA AttendedPreserved ==
  ASSUME TypeOK, LockHeld, LocalCallAttended, [Next]_vars
  PROVE  LocalCallAttended'
<1> SUFFICES ASSUME NEW t \in Tasks, Provider[t] = "pipecat"
             PROVE  /\ orphans'[t] = 0
                    /\ current'[t] => \E f \in Flows : pc'[f] = "calling" /\ job'[f] = t
  BY DEF LocalCallAttended
<1> DEFINE Goal == /\ orphans'[t] = 0
                   /\ current'[t] => \E f \in Flows : pc'[f] = "calling" /\ job'[f] = t
<1>0. /\ orphans[t] = 0
      /\ current[t] => \E f \in Flows : pc[f] = "calling" /\ job[f] = t
  BY DEF LocalCallAttended
<1>1. CASE Quiet
  BY <1>0, <1>1 DEF Quiet, calls
<1>2. CASE UNCHANGED vars
  BY <1>0, <1>2 DEF vars, locals, calls
<1>3. ASSUME NEW f \in Flows, Dial(f) PROVE Goal
  <2>1. job[f] \in Tasks /\ pc[f] = "dial" /\ UNCHANGED job
    BY <1>3 DEF Dial, TypeOK
  <2>2. CASE job[f] = t
    <3>1. ~current[t] /\ orphans[t] = 0
      BY <2>1, <2>2, NobodyTalks DEF Section, TryBody
    <3>2. orphans'[t] = 0 /\ pc'[f] = "calling" /\ job'[f] = t
      BY <1>3, <2>1, <2>2, <3>1 DEF Dial, PlaceCall, PlaceCalls, Local, Goto, TypeOK
    <3>3. QED
      BY <3>2
  <2>3. CASE job[f] # t
    BY <1>0, <1>3, <2>1, <2>3 DEF Dial, PlaceCall, PlaceCalls, Goto, TypeOK
  <2>4. QED
    BY <2>2, <2>3
<1>4. ASSUME NEW f \in Flows, DialLost(f) PROVE Goal
  <2>1. job[f] \in Tasks /\ job[f] # t /\ pc[f] = "dial" /\ UNCHANGED job
    BY <1>4 DEF DialLost, Local, TypeOK, locals
  <2>2. QED
    BY <1>0, <1>4, <2>1 DEF DialLost, PlaceCall, PlaceCalls, Goto, TypeOK
<1>5. ASSUME NEW f \in Flows, CallEnds(f) PROVE Goal
  <2>1. job[f] \in Tasks
    BY <1>5 DEF CallEnds, TypeOK
  <2>2. CASE job[f] = t
    BY <1>0, <1>5, <2>1, <2>2 DEF CallEnds, CallOver, TypeOK
  <2>3. CASE job[f] # t
    <3>1. current'[t] = current[t] /\ orphans'[t] = orphans[t]
      BY <1>5, <2>1, <2>3 DEF CallEnds, CallOver, TypeOK
    <3>2. \A g \in Flows : pc[g] = "calling" /\ job[g] = t
                             => pc'[g] = "calling" /\ job'[g] = t
      BY <1>5, <2>3 DEF CallEnds, Moves, TypeOK
    <3>3. QED
      BY <1>0, <3>1, <3>2
  <2>4. QED
    BY <2>2, <2>3
<1>6. ASSUME NEW u \in Tasks, HangUp(u) PROVE Goal
  <2>1. t # u /\ current'[t] = current[t] /\ orphans'[t] = orphans[t]
    BY <1>6 DEF HangUp, TypeOK
  <2>2. UNCHANGED <<pc, job>>
    BY <1>6 DEF HangUp, locals
  <2>3. QED
    BY <1>0, <2>1, <2>2
<1>7. CASE Next
  <2>1. ASSUME NEW f \in Flows, Raise(f) \/ Crash(f) PROVE Quiet \/ CallEnds(f)
    BY <2>1, QuietSteps, CallEndSteps
  <2>2. QED
    BY <1>1, <1>3, <1>4, <1>5, <1>6, <1>7, <2>1, NextCases, QuietSteps, QuietTimers,
       CallEndSteps
<1>8. QED
  BY <1>2, <1>7

(* While no activity outlives the lock, one customer never has two pipecat *)
(* calls of the same task at a time.                                       *)
THEOREM OneLocalCall ==
  ASSUME "overrun" \notin Faults
  PROVE  Spec => []LocalCallExclusive
<1>1. Init => LocalCallAttended
  BY DEF Init, LocalCallAttended
<1>2. TypeOK /\ LockHeld /\ LocalCallAttended /\ [Next]_vars => LocalCallAttended'
  BY AttendedPreserved
<1>3. LocalCallAttended => LocalCallExclusive
  BY DEF LocalCallAttended, LocalCallExclusive
<1>4. QED
  BY <1>1, <1>2, <1>3, LockHeldAlways, PTL DEF Spec
-----------------------------------------------------------------------------
(* CallTask implements TaskWork.                                           *)

Safe == TypeOK /\ LockHeld /\ LocalCallAttended

Talking(t) == Provider[t] = "pipecat" /\ current[t]

(* With the lock held, the worker of a task is whoever is inside.          *)
LEMMA WorkerIs ==
  ASSUME LockHeld, NEW t \in Tasks
  PROVE  /\ \A f \in Flows : InSection(f, t) => Worker(t) = f
         /\ (\A f \in Flows : ~InSection(f, t)) => Worker(t) = NoFlow
<1>1. ASSUME NEW f \in Flows, InSection(f, t) PROVE Worker(t) = f
  <2>1. Worker(t) \in Flows /\ InSection(Worker(t), t)
    BY <1>1 DEF Worker
  <2>2. QED
    BY <1>1, <2>1 DEF LockHeld, InSection
<1>2. QED
  BY <1>1 DEF Worker

LEMMA WorkerIsNext ==
  ASSUME LockHeld', NEW t \in Tasks
  PROVE  /\ \A f \in Flows : InSection(f, t)' => Worker(t)' = f
         /\ (\A f \in Flows : ~InSection(f, t)') => Worker(t)' = NoFlow
<1>1. ASSUME NEW f \in Flows, InSection(f, t)' PROVE Worker(t)' = f
  <2>1. Worker(t)' \in Flows /\ pc'[Worker(t)'] \in Section /\ job'[Worker(t)'] = t
    BY <1>1 DEF Worker, InSection
  <2>2. QED
    BY <1>1, <2>1 DEF LockHeld, InSection
<1>2. QED
  BY <1>1 DEF Worker

(* How the worker of each task changes, for each kind of step.             *)
LEMMA WorkerStays ==
  ASSUME LockHeld, LockHeld', NEW t \in Tasks,
         \A f \in Flows : InSection(f, t)' <=> InSection(f, t)
  PROVE  Worker(t)' = Worker(t)
<1>1. CASE \E f \in Flows : InSection(f, t)
  BY <1>1, WorkerIs, WorkerIsNext
<1>2. CASE \A f \in Flows : ~InSection(f, t)
  BY <1>2, WorkerIs, WorkerIsNext
<1>3. QED
  BY <1>1, <1>2

LEMMA WorkerInside ==
  ASSUME TypeOK, LockHeld, LockHeld',
         \/ \E f \in Flows : Inside(f) \/ (Outside(f) /\ pc[f] \notin Section)
         \/ \E t \in Tasks : Expires(t)
         \/ UNCHANGED <<pc, job>>
  PROVE  \A t \in Tasks : Worker(t)' = Worker(t)
<1> SUFFICES ASSUME NEW t \in Tasks, NEW g \in Flows
             PROVE  InSection(g, t)' <=> InSection(g, t)
  BY WorkerStays
<1>1. ASSUME NEW f \in Flows, Inside(f) PROVE InSection(g, t)' <=> InSection(g, t)
  BY <1>1 DEF Inside, Moves, InSection, TypeOK
<1>2. ASSUME NEW f \in Flows, Outside(f), pc[f] \notin Section
      PROVE  InSection(g, t)' <=> InSection(g, t)
  BY <1>2 DEF Outside, Moves, InSection, TypeOK
<1>3. CASE UNCHANGED <<pc, job>>
  BY <1>3 DEF InSection
<1>4. QED
  BY <1>1, <1>2, <1>3 DEF Expires

LEMMA WorkerEnters ==
  ASSUME TypeOK, LockHeld, LockHeld', NEW f \in Flows, Enters(f)
  PROVE  /\ Worker(job[f]) = NoFlow /\ Worker(job[f])' = f
         /\ \A t \in Tasks \ {job[f]} : Worker(t)' = Worker(t)
<1>1. job[f] \in Tasks
  BY DEF Enters, TypeOK
<1>2. \A g \in Flows : ~InSection(g, job[f])
  BY <1>1, ConstantsAssumption DEF Enters, LockHeld, InSection
<1>3. InSection(f, job[f])'
  BY DEF Enters, Moves, InSection, TypeOK, Section
<1>4. ASSUME NEW t \in Tasks \ {job[f]}, NEW g \in Flows
      PROVE  InSection(g, t)' <=> InSection(g, t)
  BY <1>4 DEF Enters, Moves, InSection, TypeOK
<1>5. Worker(job[f])' = f
  <2>1. job'[f] = job[f]
    BY DEF Enters
  <2>2. QED
    BY <1>1, <1>3, <2>1, WorkerIsNext DEF InSection
<1>6. QED
  BY <1>1, <1>2, <1>4, <1>5, WorkerIs, WorkerStays

LEMMA WorkerLeaves ==
  ASSUME TypeOK, LockHeld, LockHeld', NEW f \in Flows, pc[f] \in Section,
         Exits(f) \/ Outside(f)
  PROVE  /\ Worker(job[f]) = f
         /\ \A t \in Tasks : Worker(t)' = IF t = job[f] THEN NoFlow ELSE Worker(t)
<1>1. job[f] \in Tasks /\ InSection(f, job[f])
  BY DEF TypeOK, InSection, Section, TryBody
<1>2. pc'[f] \notin Section /\ \A g \in Flows \ {f} : pc'[g] = pc[g] /\ job'[g] = job[g]
  BY DEF Exits, Outside, Moves, TypeOK, Section, TryBody
<1>3. \A g \in Flows : ~(pc'[g] \in Section /\ job'[g] = job[f])
  <2> SUFFICES ASSUME NEW g \in Flows, pc'[g] \in Section, job'[g] = job[f]
               PROVE  FALSE
    OBVIOUS
  <2>1. g # f /\ pc[g] \in Section /\ job[g] = job[f]
    BY <1>2
  <2>2. QED
    BY <1>1, <2>1 DEF LockHeld, InSection
<1>4. ASSUME NEW t \in Tasks, t # job[f], NEW g \in Flows
      PROVE  InSection(g, t)' <=> InSection(g, t)
  BY <1>1, <1>2, <1>4 DEF InSection
<1>5. \A t \in Tasks : Worker(t)' = IF t = job[f] THEN NoFlow ELSE Worker(t)
  <2> SUFFICES ASSUME NEW t \in Tasks
               PROVE  Worker(t)' = IF t = job[f] THEN NoFlow ELSE Worker(t)
    OBVIOUS
  <2>1. CASE t = job[f]
    <3>1. \A g \in Flows : ~InSection(g, t)'
      BY <1>3, <2>1 DEF InSection
    <3>2. QED
      BY <2>1, <3>1, WorkerIsNext
  <2>2. CASE t # job[f]
    BY <1>4, <2>2, WorkerStays
  <2>3. QED
    BY <2>1, <2>2
<1>6. QED
  BY <1>1, <1>5, WorkerIs

(* What the calls of a task look like to TaskWork after each step.         *)
LEMMA TalkStays ==
  ASSUME UNCHANGED calls
  PROVE  \A t \in Tasks : Talking(t)' = Talking(t)
BY DEF Talking, calls

LEMMA TalkEnds ==
  ASSUME TypeOK, LocalCallAttended, NEW f \in Flows, CallEnds(f)
  PROVE  \A t \in Tasks : Talking(t)' = IF t = job[f] THEN FALSE ELSE Talking(t)
<1>1. job[f] \in Tasks
  BY DEF CallEnds, TypeOK
<1>2. CASE Provider[job[f]] = "pipecat"
  <2>1. current' = [current EXCEPT ![job[f]] = FALSE]
    BY <1>1, <1>2 DEF CallEnds, CallOver, LocalCallAttended
  <2>2. QED
    BY <1>1, <2>1 DEF Talking, TypeOK
<1>3. CASE Provider[job[f]] # "pipecat"
  <2> SUFFICES ASSUME NEW t \in Tasks
               PROVE  Talking(t)' = IF t = job[f] THEN FALSE ELSE Talking(t)
    OBVIOUS
  <2>1. CASE t = job[f]
    BY <1>3, <2>1 DEF Talking
  <2>2. CASE t # job[f]
    <3>1. current'[t] = current[t]
      BY <1>1, <2>2 DEF CallEnds, CallOver, TypeOK
    <3>2. QED
      BY <2>2, <3>1 DEF Talking
  <2>3. QED
    BY <2>1, <2>2
<1>4. QED
  BY <1>2, <1>3

LEMMA TalkQuietInside ==
  ASSUME Safe, NEW f \in Flows, pc[f] \in Section \ {"calling"}
  PROVE  ~Talking(job[f])
BY NobodyTalks DEF Safe, Talking

(* A slot that leaves the section is a worker that ends its work.          *)
LEMMA LeavingEnds ==
  ASSUME Safe, Safe', NEW f \in Flows, pc[f] \in Section, Exits(f) \/ Outside(f),
         UNCHANGED done, CallEnds(f) \/ (UNCHANGED calls /\ pc[f] # "calling")
  PROVE  Work!End(job[f])
<1>1. job[f] \in Tasks /\ Worker(job[f]) # NoFlow
  BY ConstantsAssumption, WorkerLeaves DEF Safe, TypeOK, Section, TryBody
<1>2. \A t \in Tasks : Worker(t)' = IF t = job[f] THEN NoFlow ELSE Worker(t)
  BY WorkerLeaves DEF Safe
<1>3. \A t \in Tasks : Talking(t)' = IF t = job[f] THEN FALSE ELSE Talking(t)
  <2>1. CASE CallEnds(f)
    BY <2>1, TalkEnds DEF Safe
  <2>2. CASE UNCHANGED calls /\ pc[f] # "calling"
    <3>1. ~Talking(job[f]) /\ \A t \in Tasks : Talking(t)' = Talking(t)
      BY <2>2, TalkStays, TalkQuietInside
    <3>2. QED
      BY <3>1 DEF Talking
  <2>3. QED
    BY <2>1, <2>2
<1>4. QED
  BY <1>1, <1>2, <1>3 DEF Work!End, Talking

LEMMA Stutters ==
  ASSUME \A t \in Tasks : Worker(t)' = Worker(t),
         \A t \in Tasks : Talking(t)' = Talking(t),
         UNCHANGED done
  PROVE  UNCHANGED Work!workVars
BY DEF Work!workVars, Talking

LEMMA InitRefines == ASSUME Init PROVE Work!Init
<1>1. \A t \in Tasks : Worker(t) = NoFlow
  BY DEF Init, Worker, InSection, Section, TryBody
<1>2. \A t \in Tasks : Talking(t) = FALSE
  BY DEF Init, Talking
<1>3. QED
  BY <1>1, <1>2 DEF Work!Init, Init, Talking

(* Every step of the activity and of its environment is a step of TaskWork *)
(* or leaves the abstract state alone.                                     *)
LEMMA StepRefines ==
  ASSUME Safe, Safe', [Next]_vars, "overrun" \notin Faults
  PROVE  [Work!Next]_(Work!workVars)
<1> USE DEF Safe
<1>1. CASE UNCHANGED vars
  <2>1. UNCHANGED <<pc, job, current, done>>
    BY <1>1 DEF vars, locals, calls
  <2>2. \A t \in Tasks : Worker(t)' = Worker(t) /\ Talking(t)' = Talking(t)
    BY <2>1, WorkerInside DEF Talking
  <2>3. QED
    BY <2>1, <2>2, Stutters
<1>2. ASSUME NEW f \in Flows, Inside(f), UNCHANGED <<current, orphans, done>>
      PROVE  UNCHANGED Work!workVars
  BY <1>2, WorkerInside, Stutters, TalkStays DEF calls
<1>3. ASSUME NEW f \in Flows,
             \/ (ReadTask(f) /\ ~Return(f)) \/ CompareAndSet(f) \/ GiveUp(f) \/ Defer(f)
             \/ Reschedule(f) \/ Increment(f) \/ DialFails(f) \/ RecordInProgress(f)
             \/ RecordFailed(f) \/ MarkDedup(f) \/ Tally(f) \/ WriteRun(f) \/ Except(f)
      PROVE  UNCHANGED Work!workVars
  <2>1. Inside(f)
    BY <1>3, InsideSteps
  <2>2. UNCHANGED <<current, orphans, done>>
    BY <1>3 DEF ReadTask, CompareAndSet, GiveUp, Defer, Reschedule, Increment,
                DialFails, RecordInProgress, RecordFailed, MarkDedup, Tally, WriteRun,
                Except, calls
  <2>3. QED
    BY <1>2, <2>1, <2>2
<1>4. ASSUME NEW f \in Flows, RecordCompleted(f) PROVE Work!Finish(job[f])
  <2>1. Inside(f)
    BY <1>4, InsideSteps
  <2>2. \A t \in Tasks : Worker(t)' = Worker(t) /\ Talking(t)' = Talking(t)
    BY <1>4, <2>1, WorkerInside, TalkStays DEF RecordCompleted
  <2>3. job[f] \in Tasks /\ InSection(f, job[f]) /\ pc[f] = "record"
    BY <1>4 DEF RecordCompleted, InSection, TypeOK, Section, TryBody
  <2>4. ~Talking(job[f]) /\ Worker(job[f]) # NoFlow
    BY <2>3, TalkQuietInside, WorkerIs, ConstantsAssumption DEF Section, TryBody
  <2>5. done' = [done EXCEPT ![job[f]] = TRUE]
    BY <1>4 DEF RecordCompleted
  <2>6. QED
    BY <2>2, <2>3, <2>4, <2>5 DEF Work!Finish, Talking
<1>5. ASSUME NEW f \in Flows, Dial(f) \/ DialLost(f)
      PROVE  Work!Connect(job[f]) \/ UNCHANGED Work!workVars
  <2>1. Inside(f)
    BY <1>5, InsideSteps
  <2>2. \A t \in Tasks : Worker(t)' = Worker(t)
    BY <2>1, WorkerInside
  <2>3. /\ job[f] \in Tasks /\ InSection(f, job[f]) /\ pc[f] = "dial"
        /\ UNCHANGED done /\ current' = [current EXCEPT ![job[f]] = TRUE]
    BY <1>5 DEF Dial, DialLost, PlaceCall, PlaceCalls, InSection, TypeOK, Section, TryBody
  <2>4. CASE Provider[job[f]] = "pipecat"
    <3>1. ~Talking(job[f]) /\ Worker(job[f]) # NoFlow
      BY <2>3, TalkQuietInside, WorkerIs, ConstantsAssumption DEF Section, TryBody
    <3>2. \A t \in Tasks : Talking(t)' = IF t = job[f] THEN TRUE ELSE Talking(t)
      BY <2>3, <2>4 DEF Talking, TypeOK
    <3>3. QED
      BY <2>2, <2>3, <3>1, <3>2 DEF Work!Connect, Talking
  <2>5. CASE Provider[job[f]] # "pipecat"
    <3>1. \A t \in Tasks : Talking(t)' = Talking(t)
      BY <2>3, <2>5 DEF Talking, TypeOK
    <3>2. QED
      BY <2>2, <2>3, <3>1, Stutters
  <2>6. QED
    BY <2>4, <2>5
<1>6. ASSUME NEW f \in Flows, EndLocalCall(f) \/ Raise(f)
      PROVE  Work!Disconnect(job[f]) \/ UNCHANGED Work!workVars
  <2>1. Inside(f) /\ UNCHANGED done
    BY <1>6, InsideSteps DEF EndLocalCall, Raise
  <2>2. \A t \in Tasks : Worker(t)' = Worker(t)
    BY <2>1, WorkerInside
  <2>3. CASE CallEnds(f)
    <3>1. job[f] \in Tasks /\ Worker(job[f]) # NoFlow
      BY <2>3, WorkerIs, ConstantsAssumption
         DEF CallEnds, InSection, TypeOK, Section, TryBody
    <3>2. \A t \in Tasks : Talking(t)' = IF t = job[f] THEN FALSE ELSE Talking(t)
      BY <2>3, TalkEnds
    <3>3. CASE Talking(job[f])
      BY <2>1, <2>2, <3>1, <3>2, <3>3 DEF Work!Disconnect, Talking
    <3>4. CASE ~Talking(job[f])
      <4>1. \A t \in Tasks : Talking(t)' = Talking(t)
        BY <3>2, <3>4 DEF Talking
      <4>2. QED
        BY <2>1, <2>2, <4>1, Stutters
    <3>5. QED
      BY <3>3, <3>4
  <2>4. CASE Raise(f) /\ pc[f] # "calling"
    BY <2>1, <2>4, <1>2 DEF Raise, calls
  <2>5. QED
    BY <1>6, <2>3, <2>4, CallEndSteps
<1>7. ASSUME NEW f \in Flows,
             ReleaseLock(f) \/ (Outside(f) /\ pc[f] \in Section
                                /\ (ReadTask(f) \/ Crash(f)))
      PROVE  Work!End(job[f])
  <2>1. pc[f] \in Section /\ (Exits(f) \/ Outside(f)) /\ UNCHANGED done
    BY <1>7, ExitSteps DEF ReleaseLock, ReadTask, Crash, Section, TryBody
  <2>2. CallEnds(f) \/ (UNCHANGED calls /\ pc[f] # "calling")
    BY <1>7, CallEndSteps DEF ReleaseLock, ReadTask, Crash
  <2>3. QED
    BY <2>1, <2>2, LeavingEnds
<1>8. ASSUME NEW f \in Flows, Outside(f), pc[f] \notin Section, UNCHANGED <<calls, done>>
      PROVE  UNCHANGED Work!workVars
  BY <1>8, WorkerInside, Stutters, TalkStays
<1>9. ASSUME NEW f \in Flows, NEW t \in Tasks, Start(f, t)
      PROVE  UNCHANGED Work!workVars
  BY <1>8, <1>9, OutsideSteps DEF Start, Section, TryBody
<1>10. ASSUME NEW f \in Flows,
              CheckDedup(f) \/ Decrement(f) \/ (Crash(f) /\ pc[f] \notin Section)
       PROVE  UNCHANGED Work!workVars
  <2>1. Outside(f) /\ pc[f] \notin Section
    BY <1>10, OutsideSteps DEF CheckDedup, Decrement, Section, TryBody
  <2>2. UNCHANGED <<calls, done>>
    BY <1>10 DEF CheckDedup, Decrement, Crash, Section, TryBody
  <2>3. QED
    BY <1>8, <2>1, <2>2
<1>11. ASSUME NEW f \in Flows, AcquireLock(f)
       PROVE  (Work!Begin(f, job[f]) /\ job[f] \in Tasks) \/ UNCHANGED Work!workVars
  <2>1. UNCHANGED <<calls, done>> /\ pc[f] \notin Section
    BY <1>11 DEF AcquireLock, Section, TryBody
  <2>2. CASE Enters(f)
    <3>1. /\ job[f] \in Tasks /\ Worker(job[f]) = NoFlow /\ Worker(job[f])' = f
          /\ \A t \in Tasks \ {job[f]} : Worker(t)' = Worker(t)
      BY <2>2, WorkerEnters DEF Enters, TypeOK
    <3>2. \A t \in Tasks : Worker(t)' = IF t = job[f] THEN f ELSE Worker(t)
      BY <2>2, <3>1 DEF Enters
    <3>3. \A t \in Tasks : Talking(t)' = Talking(t)
      BY <2>1, TalkStays
    <3>4. QED
      BY <2>1, <3>1, <3>2, <3>3 DEF Work!Begin, Talking
  <2>3. CASE Outside(f)
    BY <1>8, <2>1, <2>3
  <2>4. QED
    BY <1>11, <2>2, <2>3, AcquireSteps
<1>12. ASSUME NEW t \in Tasks, \/ Trigger(t) \/ ComesDue(t) \/ LockExpires(t)
                               \/ DedupExpires(t) \/ HangUp(t)
       PROVE  UNCHANGED Work!workVars
  <2>1. Expires(t) \/ UNCHANGED <<pc, job, lock>>
    BY <1>12, TimerSteps
  <2>2. \A u \in Tasks : Worker(u)' = Worker(u)
    BY <2>1, WorkerInside
  <2>3. \A u \in Tasks : Talking(u)' = Talking(u)
    BY <1>12 DEF Trigger, ComesDue, LockExpires, DedupExpires, HangUp, Talking, calls,
                 TypeOK
  <2>4. UNCHANGED done
    BY <1>12 DEF Trigger, ComesDue, LockExpires, DedupExpires, HangUp
  <2>5. QED
    BY <2>2, <2>3, <2>4, Stutters
<1>13. ASSUME NEW f \in Flows, pc[f] \in Section,
              \/ Work!Connect(job[f]) \/ Work!Disconnect(job[f])
              \/ Work!Finish(job[f]) \/ Work!End(job[f])
       PROVE  Work!Next
  <2>1. job[f] \in Tasks
    BY <1>13 DEF TypeOK, Section, TryBody
  <2>2. QED
    BY <1>13, <2>1 DEF Work!Next, Work!Connect, Work!Disconnect, Work!Finish, Work!End
<1>14. ASSUME NEW f \in Flows, ReadTask(f) PROVE [Work!Next]_(Work!workVars)
  <2>1. CASE Return(f)
    <3>1. Outside(f) /\ pc[f] \in Section
      BY <1>14, <2>1, OutsideSteps DEF ReadTask, Section
    <3>2. Work!End(job[f])
      BY <1>7, <1>14, <3>1
    <3>3. QED
      BY <1>13, <3>1, <3>2
  <2>2. CASE ~Return(f)
    BY <1>3, <1>14, <2>2
  <2>3. QED
    BY <2>1, <2>2
<1>15. ASSUME NEW f \in Flows, Crash(f) PROVE [Work!Next]_(Work!workVars)
  <2>1. CASE pc[f] \in Section
    <3>1. Outside(f)
      BY <1>15, OutsideSteps
    <3>2. Work!End(job[f])
      BY <1>7, <1>15, <2>1, <3>1
    <3>3. QED
      BY <1>13, <2>1, <3>2
  <2>2. CASE pc[f] \notin Section
    BY <1>10, <1>15, <2>2
  <2>3. QED
    BY <2>1, <2>2
<1>16. ASSUME NEW f \in Flows,
              \/ Dial(f) \/ DialLost(f) \/ EndLocalCall(f) \/ Raise(f)
              \/ RecordCompleted(f) \/ ReleaseLock(f)
       PROVE  [Work!Next]_(Work!workVars)
  <2>1. pc[f] \in Section
    BY <1>16 DEF Dial, DialLost, EndLocalCall, Raise, RecordCompleted, ReleaseLock,
                 Section, TryBody
  <2>2. \/ UNCHANGED Work!workVars \/ Work!Connect(job[f]) \/ Work!Disconnect(job[f])
        \/ Work!Finish(job[f]) \/ Work!End(job[f])
    BY <1>4, <1>5, <1>6, <1>7, <1>16
  <2>3. QED
    BY <1>13, <2>1, <2>2
<1>17. ASSUME NEW f \in Flows, AcquireLock(f) PROVE [Work!Next]_(Work!workVars)
  BY <1>11, <1>17 DEF Work!Next, Work!Begin
<1>18. QED
  BY <1>1, <1>3, <1>9, <1>10, <1>12, <1>14, <1>15, <1>16, <1>17, NextCases

(* The activity, its lock and everything that can happen to them, except   *)
(* an activity that outlives its lock, implement TaskWork: one worker per  *)
(* task at a time, local calls held by that worker alone, and completion   *)
(* recorded by that worker once its call is over.                          *)
THEOREM Refinement ==
  ASSUME "overrun" \notin Faults
  PROVE  Spec => OneWorkerPerTask
<1>1. Init => Work!Init
  BY InitRefines
<1>2. Safe /\ Safe' /\ [Next]_vars => [Work!Next]_(Work!workVars)
  BY StepRefines
<1>3. Spec => []Safe
  <2>1. Init => LocalCallAttended
    BY DEF Init, LocalCallAttended
  <2>2. TypeOK /\ LockHeld /\ LocalCallAttended /\ [Next]_vars => LocalCallAttended'
    BY AttendedPreserved
  <2>3. QED
    BY <2>1, <2>2, LockHeldAlways, PTL DEF Spec, Safe
<1>4. QED
  BY <1>1, <1>2, <1>3, PTL DEF Spec, OneWorkerPerTask, Work!Spec

-----------------------------------------------------------------------------
(* Completed tasks.                                                        *)

(* A step of slot f that completes nothing and marks nothing.              *)
LeavesMarks(f) ==
  /\ UNCHANGED <<done, dedup>> /\ pc[f] # "dedup"
  /\ \A g \in Flows \ {f} : pc'[g] = pc[g] /\ job'[g] = job[g]
  /\ pc[f] \in Section => \A t \in Tasks \ {job[f]} : status'[t] = status[t]
  /\ pc[f] \notin Section => UNCHANGED status

LEMMA MarkingSteps ==
  ASSUME TypeOK, Faults = {}, NEW f \in Flows,
         \/ CheckDedup(f) \/ AcquireLock(f) \/ ReadTask(f) \/ CompareAndSet(f)
         \/ GiveUp(f) \/ Defer(f) \/ Reschedule(f) \/ Increment(f)
         \/ Dial(f) \/ DialLost(f) \/ DialFails(f) \/ EndLocalCall(f)
         \/ RecordInProgress(f) \/ RecordFailed(f) \/ Tally(f) \/ WriteRun(f)
         \/ Raise(f) \/ Except(f) \/ ReleaseLock(f) \/ Decrement(f) \/ Crash(f)
         \/ \E t \in Tasks : Start(f, t)
  PROVE  LeavesMarks(f)
<1> USE DEF Section, TryBody
<1>1. UNCHANGED <<done, dedup>> /\ pc[f] # "dedup"
  BY DEF CheckDedup, AcquireLock, ReadTask, CompareAndSet, GiveUp, Defer, Reschedule,
         Increment, Dial, DialLost, DialFails, EndLocalCall, RecordInProgress,
         RecordFailed, Tally, WriteRun, Raise, Raises, Except, ReleaseLock, Decrement,
         Crash, Start, redis
<1>2. \A g \in Flows \ {f} : pc'[g] = pc[g] /\ job'[g] = job[g]
  BY DEF CheckDedup, AcquireLock, ReadTask, CompareAndSet, GiveUp, Defer, Reschedule,
         Increment, Dial, DialLost, DialFails, EndLocalCall, RecordInProgress,
         RecordFailed, Tally, WriteRun, Raise, Except, ReleaseLock, Decrement,
         Crash, Start, Goto, Return, locals, TypeOK
<1>3. pc[f] \in Section => \A t \in Tasks \ {job[f]} : status'[t] = status[t]
  BY DEF CheckDedup, AcquireLock, ReadTask, CompareAndSet, GiveUp, Defer, Reschedule,
         Increment, Dial, DialLost, DialFails, EndLocalCall, RecordInProgress,
         RecordFailed, Tally, WriteRun, Raise, Except, ReleaseLock, Decrement,
         Crash, Start, SetStatus, taskVars, TypeOK
<1>4. pc[f] \notin Section => UNCHANGED status
  BY DEF CheckDedup, AcquireLock, ReadTask, CompareAndSet, GiveUp, Defer, Reschedule,
         Increment, Dial, DialLost, DialFails, EndLocalCall, RecordInProgress,
         RecordFailed, Tally, WriteRun, Raise, Except, ReleaseLock, Decrement,
         Crash, Start, taskVars
<1>5. QED
  BY <1>1, <1>2, <1>3, <1>4 DEF LeavesMarks

(* While an activity is between recording the task as completed and        *)
(* marking it, it alone is inside, so nobody overwrites the status.        *)
LEMMA MarkedPreserved ==
  ASSUME TypeOK, LockHeld, DoneIsMarked, [Next]_vars, Faults = {}
  PROVE  \A t \in Tasks : done'[t] =>
           \/ dedup'[t]
           \/ /\ status'[t] = "completed"
              /\ \E f \in Flows : pc'[f] = "dedup" /\ job'[f] = t
<1> SUFFICES ASSUME NEW t \in Tasks, done'[t]
             PROVE  \/ dedup'[t]
                    \/ /\ status'[t] = "completed"
                       /\ \E f \in Flows : pc'[f] = "dedup" /\ job'[f] = t
  OBVIOUS
<1> DEFINE Goal == \/ dedup'[t]
                   \/ /\ status'[t] = "completed"
                      /\ \E f \in Flows : pc'[f] = "dedup" /\ job'[f] = t
<1>0. done[t] => \/ dedup[t]
                 \/ /\ status[t] = "completed"
                    /\ \E f \in Flows : pc[f] = "dedup" /\ job[f] = t
  BY DEF DoneIsMarked
<1>1. CASE UNCHANGED vars
  BY <1>0, <1>1 DEF vars, taskVars, redis, locals
<1>2. ASSUME NEW f \in Flows, LeavesMarks(f) PROVE Goal
  <2>1. CASE dedup[t]
    BY <1>2, <2>1 DEF LeavesMarks
  <2>2. CASE ~dedup[t]
    <3>1. PICK g \in Flows : pc[g] = "dedup" /\ job[g] = t /\ status[t] = "completed"
      BY <1>0, <1>2, <2>2 DEF LeavesMarks
    <3>2. g # f
      BY <1>2, <3>1 DEF LeavesMarks
    <3>3. pc[f] \in Section => job[f] # t
      BY <3>1, <3>2 DEF LockHeld, Section, TryBody
    <3>4. status'[t] = "completed"
      BY <1>2, <3>1, <3>3 DEF LeavesMarks
    <3>5. QED
      BY <1>2, <3>1, <3>2, <3>4 DEF LeavesMarks
  <2>3. QED
    BY <2>1, <2>2
<1>3. ASSUME NEW f \in Flows, RecordCompleted(f) PROVE Goal
  <2>1. CASE job[f] = t
    BY <1>3, <2>1 DEF RecordCompleted, SetStatus, Goto, locals, TypeOK
  <2>2. CASE job[f] # t
    BY <1>0, <1>3, <2>2 DEF RecordCompleted, SetStatus, Goto, redis, locals, TypeOK
  <2>3. QED
    BY <2>1, <2>2
<1>4. ASSUME NEW f \in Flows, MarkDedup(f) PROVE Goal
  <2>1. CASE job[f] = t
    BY <1>4, <2>1 DEF MarkDedup, Raises, TypeOK
  <2>2. CASE job[f] # t
    BY <1>0, <1>4, <2>2 DEF MarkDedup, Goto, taskVars, locals, TypeOK
  <2>3. QED
    BY <2>1, <2>2
<1>5. ASSUME NEW u \in Tasks, \/ Trigger(u) \/ ComesDue(u) \/ LockExpires(u)
                              \/ DedupExpires(u) \/ HangUp(u)
      PROVE  Goal
  BY <1>0, <1>5 DEF Trigger, ComesDue, LockExpires, DedupExpires, HangUp, taskVars,
                    redis, locals
<1>6. ASSUME NEW f \in Flows, NEW u \in Tasks, Start(f, u) PROVE Goal
  BY <1>2, <1>6, MarkingSteps
<1>7. ASSUME NEW f \in Flows,
             \/ CheckDedup(f) \/ AcquireLock(f) \/ ReadTask(f) \/ CompareAndSet(f)
             \/ GiveUp(f) \/ Defer(f) \/ Reschedule(f) \/ Increment(f)
             \/ Dial(f) \/ DialLost(f) \/ DialFails(f) \/ EndLocalCall(f)
             \/ RecordInProgress(f) \/ RecordFailed(f) \/ Tally(f) \/ WriteRun(f)
             \/ Raise(f) \/ Except(f) \/ ReleaseLock(f) \/ Decrement(f) \/ Crash(f)
      PROVE  Goal
  BY <1>2, <1>7, MarkingSteps
<1>8. QED
  BY <1>1, <1>3, <1>4, <1>5, <1>6, <1>7, NextCases

(* A late slot ends at its first check.                                    *)
LEMMA LatePreserved ==
  ASSUME TypeOK, DoneIsMarked, [Next]_vars, Faults = {}
  PROVE  \A f \in Flows : late'[f] => pc'[f] = "check" /\ done'[job'[f]]
<1> SUFFICES ASSUME NEW g \in Flows, late'[g]
             PROVE  pc'[g] = "check" /\ done'[job'[g]]
  OBVIOUS
<1> DEFINE Goal == pc'[g] = "check" /\ done'[job'[g]]
<1>0. /\ late[g] => pc[g] = "check" /\ done[job[g]]
      /\ pc[g] = "check" => job[g] \in Tasks
  BY DEF DoneIsMarked, TypeOK
<1>1. CASE UNCHANGED vars
  BY <1>0, <1>1 DEF vars, locals
<1>2. ASSUME NEW f \in Flows, NEW t \in Tasks, Start(f, t) PROVE Goal
  BY <1>0, <1>2 DEF Start, Goto, TypeOK
<1>3. ASSUME NEW f \in Flows, CheckDedup(f) PROVE Goal
  <2>1. CASE f = g
    <3>1. CASE AlreadyProcessed(job[f]) /\ Return(f)
      BY <1>3, <2>1, <3>1 DEF Return, TypeOK
    <3>2. CASE ~AlreadyProcessed(job[f]) /\ UNCHANGED locals
      <4>1. late[f] /\ done[job[f]] /\ job[f] \in Tasks
        BY <1>0, <2>1, <3>2 DEF locals
      <4>2. AlreadyProcessed(job[f])
        BY <4>1 DEF DoneIsMarked, AlreadyProcessed
      <4>3. QED
        BY <3>2, <4>2
    <3>3. QED
      BY <1>3, <3>1, <3>2 DEF CheckDedup, Raises
  <2>2. CASE f # g
    BY <1>0, <1>3, <2>2 DEF CheckDedup, Return, Goto, locals, TypeOK
  <2>3. QED
    BY <2>1, <2>2
<1>4. ASSUME NEW f \in Flows,
             \/ AcquireLock(f) \/ ReadTask(f) \/ CompareAndSet(f) \/ GiveUp(f)
             \/ Defer(f) \/ Reschedule(f) \/ Increment(f) \/ Dial(f) \/ DialLost(f)
             \/ DialFails(f) \/ EndLocalCall(f) \/ RecordCompleted(f)
             \/ RecordInProgress(f) \/ RecordFailed(f) \/ MarkDedup(f) \/ Tally(f)
             \/ WriteRun(f) \/ Raise(f) \/ Except(f) \/ ReleaseLock(f) \/ Decrement(f)
             \/ Crash(f)
      PROVE  Goal
  <2>1. pc[f] # "check"
    BY <1>4 DEF AcquireLock, ReadTask, CompareAndSet, GiveUp, Defer, Reschedule,
           Increment, Dial, DialLost, DialFails, EndLocalCall, RecordCompleted,
           RecordInProgress, RecordFailed, MarkDedup, Tally, WriteRun, Raise, TryBody,
           Except, ReleaseLock, Decrement, Crash
  <2>2. late'[f] => late[f]
    BY <1>4 DEF AcquireLock, ReadTask, CompareAndSet, GiveUp, Defer, Reschedule,
           Increment, Dial, DialLost, DialFails, EndLocalCall, RecordCompleted,
           RecordInProgress, RecordFailed, MarkDedup, Tally, WriteRun, Raise, Return,
           Except, ReleaseLock, Decrement, Crash, locals, TypeOK
  <2>3. \A h \in Flows \ {f} : pc'[h] = pc[h] /\ job'[h] = job[h] /\ late'[h] = late[h]
    BY <1>4 DEF AcquireLock, ReadTask, CompareAndSet, GiveUp, Defer, Reschedule,
           Increment, Dial, DialLost, DialFails, EndLocalCall, RecordCompleted,
           RecordInProgress, RecordFailed, MarkDedup, Tally, WriteRun, Raise, Return,
           Except, ReleaseLock, Decrement, Crash, Goto, locals, TypeOK
  <2>4. \A t \in Tasks : done[t] => done'[t]
    BY <1>4 DEF AcquireLock, ReadTask, CompareAndSet, GiveUp, Defer, Reschedule,
           Increment, Dial, DialLost, DialFails, EndLocalCall, RecordCompleted,
           RecordInProgress, RecordFailed, MarkDedup, Tally, WriteRun, Raise,
           Except, ReleaseLock, Decrement, Crash, TypeOK
  <2>5. QED
    BY <1>0, <2>1, <2>2, <2>3, <2>4
<1>5. ASSUME NEW t \in Tasks, \/ Trigger(t) \/ ComesDue(t) \/ LockExpires(t)
                              \/ DedupExpires(t) \/ HangUp(t)
      PROVE  Goal
  BY <1>0, <1>5 DEF Trigger, ComesDue, LockExpires, DedupExpires, HangUp, locals
<1>6. QED
  BY <1>1, <1>2, <1>3, <1>4, <1>5, NextCases

(* Without faults, a flow run that starts after an activity has recorded   *)
(* the task as completed is turned away at its first check: the status or  *)
(* the deduplication key says so, although the status may be overwritten.  *)
THEOREM CompletedIsLeftAlone ==
  ASSUME Faults = {}
  PROVE  Spec => []LateFlowSkips
<1>1. Init => DoneIsMarked
  BY DEF Init, DoneIsMarked
<1>2. TypeOK /\ LockHeld /\ DoneIsMarked /\ [Next]_vars => DoneIsMarked'
  BY MarkedPreserved, LatePreserved DEF DoneIsMarked
<1>3. DoneIsMarked => LateFlowSkips
  BY DEF DoneIsMarked, LateFlowSkips
<1>4. "overrun" \notin Faults
  OBVIOUS
<1>5. QED
  BY <1>1, <1>2, <1>3, <1>4, LockHeldAlways, PTL DEF Spec

-----------------------------------------------------------------------------
(* The worker counter.                                                     *)

(* What a step of slot f, and of no other slot, does to the counting.      *)
KeepsCount == UNCHANGED <<counted, workers, leaked>>
              /\ \A g \in Flows : counted[g] => job'[g] = job[g]
Takes(f)   == /\ ~counted[f] /\ job[f] \in Tasks /\ UNCHANGED <<job, leaked>>
              /\ counted' = [counted EXCEPT ![f] = TRUE]
              /\ \/ workers' = [workers EXCEPT ![Provider[job[f]]] = @ + 1]
                 \/ Raises /\ UNCHANGED workers
Gives(f)   == /\ counted[f] /\ job[f] \in Tasks
              /\ counted' = [counted EXCEPT ![f] = FALSE]
              /\ job' = [job EXCEPT ![f] = NoTask]
              /\ LET p == Provider[job[f]] IN
                   \/ /\ workers' = IF workers[p] > 0
                                    THEN [workers EXCEPT ![p] = @ - 1] ELSE workers
                      /\ UNCHANGED leaked
                   \/ /\ leaked' = [leaked EXCEPT ![p] = @ + 1]
                      /\ UNCHANGED workers

LEMMA CountKinds ==
  ASSUME TypeOK, CountedAfterIncrement, [Next]_vars
  PROVE  KeepsCount \/ \E f \in Flows : Takes(f) \/ Gives(f)
<1>1. CASE UNCHANGED vars
  BY <1>1 DEF vars, locals, redis, KeepsCount
<1>2. ASSUME NEW f \in Flows,
             \/ CompareAndSet(f) \/ GiveUp(f) \/ Defer(f) \/ Reschedule(f)
             \/ Dial(f) \/ DialLost(f) \/ DialFails(f) \/ EndLocalCall(f)
             \/ RecordCompleted(f) \/ RecordInProgress(f) \/ RecordFailed(f)
             \/ MarkDedup(f) \/ Tally(f) \/ WriteRun(f)
             \/ Raise(f) \/ Except(f) \/ ReleaseLock(f)
      PROVE  KeepsCount
  BY <1>2 DEF CompareAndSet, GiveUp, Defer, Reschedule, Dial, DialLost, DialFails,
              EndLocalCall, RecordCompleted, RecordInProgress, RecordFailed, MarkDedup,
              Tally, WriteRun, Raise, Except, ReleaseLock, KeepsCount, redis, locals
<1>3. ASSUME NEW f \in Flows, Return(f), UNCHANGED <<workers, leaked>>, ~counted[f]
      PROVE  KeepsCount
  BY <1>3 DEF Return, KeepsCount, TypeOK
<1>4. ASSUME NEW f \in Flows, CheckDedup(f) \/ AcquireLock(f) \/ ReadTask(f)
      PROVE  KeepsCount
  <2>1. ~counted[f] /\ UNCHANGED <<workers, leaked>>
    BY <1>4 DEF CheckDedup, AcquireLock, ReadTask, CountedAfterIncrement, Section,
                TryBody, redis
  <2>2. CASE Return(f)
    BY <1>3, <2>1, <2>2
  <2>3. CASE ~Return(f)
    BY <1>4, <2>1, <2>3 DEF CheckDedup, AcquireLock, ReadTask, KeepsCount, locals
  <2>4. QED
    BY <2>2, <2>3
<1>5. ASSUME NEW f \in Flows, NEW t \in Tasks, Start(f, t) PROVE KeepsCount
  BY <1>5 DEF Start, CountedAfterIncrement, Section, TryBody, KeepsCount, redis, TypeOK
<1>6. ASSUME NEW f \in Flows, Increment(f) PROVE Takes(f)
  BY <1>6 DEF Increment, Takes, CountedAfterIncrement, Section, TryBody, TypeOK
<1>7. ASSUME NEW f \in Flows, Decrement(f) \/ Crash(f) PROVE KeepsCount \/ Gives(f)
  <2>1. job[f] \in Tasks /\ Return(f)
    BY <1>7 DEF Decrement, Crash, TypeOK
  <2>2. CASE counted[f]
    BY <1>7, <2>1, <2>2 DEF Decrement, Crash, Return, Gives, redis
  <2>3. CASE ~counted[f]
    <3>1. UNCHANGED <<workers, leaked>>
      BY <1>7, <2>3 DEF Decrement, Crash, redis
    <3>2. QED
      BY <1>3, <2>1, <2>3, <3>1
  <2>4. QED
    BY <2>2, <2>3
<1>8. ASSUME NEW t \in Tasks, \/ Trigger(t) \/ ComesDue(t) \/ LockExpires(t)
                              \/ DedupExpires(t) \/ HangUp(t)
      PROVE  KeepsCount
  BY <1>8 DEF Trigger, ComesDue, LockExpires, DedupExpires, HangUp, KeepsCount, redis,
              locals
<1>9. QED
  BY <1>1, <1>2, <1>4, <1>5, <1>6, <1>7, <1>8, NextCases

LEMMA CountedPreserved ==
  ASSUME TypeOK, CountedAfterIncrement, [Next]_vars
  PROVE  CountedAfterIncrement'
<1> USE DEF CountedAfterIncrement, Section, TryBody
<1>1. CASE UNCHANGED vars
  BY <1>1 DEF vars, locals
<1>2. ASSUME NEW f \in Flows,
             \/ CheckDedup(f) \/ AcquireLock(f) \/ ReadTask(f) \/ CompareAndSet(f)
             \/ GiveUp(f) \/ Defer(f) \/ Reschedule(f) \/ Increment(f)
      PROVE  CountedAfterIncrement'
  BY <1>2 DEF CheckDedup, AcquireLock, ReadTask, CompareAndSet, GiveUp, Defer,
              Reschedule, Increment, Return, Goto, locals, TypeOK
<1>3. ASSUME NEW f \in Flows,
             \/ Dial(f) \/ DialLost(f) \/ DialFails(f) \/ EndLocalCall(f)
             \/ RecordCompleted(f) \/ RecordInProgress(f) \/ RecordFailed(f)
             \/ MarkDedup(f) \/ Tally(f) \/ WriteRun(f)
      PROVE  CountedAfterIncrement'
  BY <1>3 DEF Dial, DialLost, DialFails, EndLocalCall, RecordCompleted,
              RecordInProgress, RecordFailed, MarkDedup, Tally, WriteRun, Goto, locals,
              TypeOK
<1>4. ASSUME NEW f \in Flows,
             \/ Raise(f) \/ Except(f) \/ ReleaseLock(f) \/ Decrement(f) \/ Crash(f)
      PROVE  CountedAfterIncrement'
  BY <1>4 DEF Raise, Except, ReleaseLock, Decrement, Crash, Return, Goto, locals, TypeOK
<1>5. ASSUME NEW f \in Flows, NEW t \in Tasks, Start(f, t) PROVE CountedAfterIncrement'
  BY <1>5 DEF Start, Goto, TypeOK
<1>6. ASSUME NEW t \in Tasks, \/ Trigger(t) \/ ComesDue(t) \/ LockExpires(t)
                              \/ DedupExpires(t) \/ HangUp(t)
      PROVE  CountedAfterIncrement'
  BY <1>6 DEF Trigger, ComesDue, LockExpires, DedupExpires, HangUp, locals
<1>7. QED
  BY <1>1, <1>2, <1>3, <1>4, <1>5, <1>6, NextCases

LEMMA AccountPreserved ==
  ASSUME TypeOK, CountedAfterIncrement, WorkersAccount, [Next]_vars,
         "raise" \notin Faults, IsFiniteSet(Flows)
  PROVE  WorkersAccount'
<1> SUFFICES ASSUME NEW p \in Providers
             PROVE  workers'[p] = Cardinality(Counting(p)') + leaked'[p]
  BY DEF WorkersAccount
<1>0. /\ workers[p] = Cardinality(Counting(p)) + leaked[p]
      /\ IsFiniteSet(Counting(p)) /\ Cardinality(Counting(p)) \in Nat
      /\ workers[p] \in Nat /\ leaked[p] \in Nat
  BY FS_Subset, FS_CardinalityType DEF WorkersAccount, Counting, TypeOK
<1>1. CASE KeepsCount
  <2>1. Counting(p)' = Counting(p)
    BY <1>1 DEF KeepsCount, Counting
  <2>2. QED
    BY <1>0, <1>1, <2>1 DEF KeepsCount
<1>2. ASSUME NEW f \in Flows, Takes(f)
      PROVE  workers'[p] = Cardinality(Counting(p)') + leaked'[p]
  <2>1. CASE Provider[job[f]] = p
    <3>1. Counting(p)' = Counting(p) \cup {f} /\ f \notin Counting(p)
      BY <1>2, <2>1 DEF Takes, Counting, TypeOK
    <3>2. Cardinality(Counting(p)') = Cardinality(Counting(p)) + 1
      BY <1>0, <3>1, FS_AddElement
    <3>3. workers'[p] = workers[p] + 1 /\ leaked'[p] = leaked[p]
      BY <1>2, <2>1 DEF Takes, Raises, TypeOK
    <3>4. QED
      BY <1>0, <3>2, <3>3
  <2>2. CASE Provider[job[f]] # p
    <3>1. Counting(p)' = Counting(p)
      BY <1>2, <2>2 DEF Takes, Counting, TypeOK
    <3>2. workers'[p] = workers[p] /\ leaked'[p] = leaked[p]
      BY <1>2, <2>2 DEF Takes, TypeOK
    <3>3. QED
      BY <1>0, <3>1, <3>2
  <2>3. QED
    BY <2>1, <2>2
<1>3. ASSUME NEW f \in Flows, Gives(f)
      PROVE  workers'[p] = Cardinality(Counting(p)') + leaked'[p]
  <2>1. CASE Provider[job[f]] = p
    <3>1. Counting(p)' = Counting(p) \ {f} /\ f \in Counting(p)
      BY <1>3, <2>1 DEF Gives, Counting, TypeOK
    <3>2. /\ Cardinality(Counting(p)') = Cardinality(Counting(p)) - 1
          /\ Cardinality(Counting(p)') \in Nat
      BY <1>0, <3>1, FS_RemoveElement, FS_CardinalityType
    <3>3. workers[p] > 0
      BY <1>0, <3>2
    <3>4. \/ workers'[p] = workers[p] - 1 /\ leaked'[p] = leaked[p]
          \/ workers'[p] = workers[p] /\ leaked'[p] = leaked[p] + 1
      BY <1>3, <2>1, <3>3 DEF Gives, TypeOK
    <3>5. QED
      BY <1>0, <3>2, <3>4
  <2>2. CASE Provider[job[f]] # p
    <3>1. Counting(p)' = Counting(p)
      BY <1>3, <2>2 DEF Gives, Counting, TypeOK
    <3>2. workers'[p] = workers[p] /\ leaked'[p] = leaked[p]
      BY <1>3, <2>2 DEF Gives, TypeOK
    <3>3. QED
      BY <1>0, <3>1, <3>2
  <2>3. QED
    BY <2>1, <2>2
<1>4. QED
  BY <1>1, <1>2, <1>3, CountKinds

LEMMA AccountInit ==
  ASSUME Init
  PROVE  CountedAfterIncrement /\ WorkersAccount
<1>1. \A p \in Providers : Counting(p) = {}
  BY DEF Init, Counting
<1>2. ASSUME NEW p \in Providers
      PROVE  workers[p] = Cardinality(Counting(p)) + leaked[p]
  <2>1. Cardinality(Counting(p)) = 0
    BY <1>1, FS_EmptySet
  <2>2. QED
    BY <2>1 DEF Init
<1>3. QED
  BY <1>2 DEF Init, CountedAfterIncrement, WorkersAccount

(* As long as no Redis call fails, the provider counter is exactly the     *)
(* slots between increment and decrement, plus the workers that died       *)
(* there.                                                                  *)
THEOREM CounterIsExact ==
  ASSUME "raise" \notin Faults, IsFiniteSet(Flows)
  PROVE  Spec => []WorkersAccount
<1>1. Init => CountedAfterIncrement /\ WorkersAccount
  BY AccountInit
<1>2. TypeOK /\ CountedAfterIncrement /\ [Next]_vars => CountedAfterIncrement'
  BY CountedPreserved
<1>3. TypeOK /\ CountedAfterIncrement /\ WorkersAccount /\ [Next]_vars => WorkersAccount'
  BY AccountPreserved
<1>4. QED
  BY <1>1, <1>2, <1>3, TypeCorrect, PTL DEF Spec

(* With failing calls the counter may fall short of that, never exceed it. *)
LEMMA UnitsPreserved ==
  ASSUME TypeOK, CountedAfterIncrement, NoUnitLeaks, [Next]_vars, IsFiniteSet(Flows)
  PROVE  NoUnitLeaks'
<1> SUFFICES ASSUME NEW p \in Providers
             PROVE  workers'[p] <= Cardinality(Counting(p)') + leaked'[p]
  BY DEF NoUnitLeaks
<1>0. /\ workers[p] <= Cardinality(Counting(p)) + leaked[p]
      /\ IsFiniteSet(Counting(p)) /\ Cardinality(Counting(p)) \in Nat
      /\ workers[p] \in Nat /\ leaked[p] \in Nat
  BY FS_Subset, FS_CardinalityType DEF NoUnitLeaks, Counting, TypeOK
<1>1. CASE KeepsCount
  <2>1. Counting(p)' = Counting(p)
    BY <1>1 DEF KeepsCount, Counting
  <2>2. QED
    BY <1>0, <1>1, <2>1 DEF KeepsCount
<1>2. ASSUME NEW f \in Flows, Takes(f)
      PROVE  workers'[p] <= Cardinality(Counting(p)') + leaked'[p]
  <2>1. CASE Provider[job[f]] = p
    <3>1. Counting(p)' = Counting(p) \cup {f} /\ f \notin Counting(p)
      BY <1>2, <2>1 DEF Takes, Counting, TypeOK
    <3>2. Cardinality(Counting(p)') = Cardinality(Counting(p)) + 1
      BY <1>0, <3>1, FS_AddElement
    <3>3. /\ workers'[p] = workers[p] + 1 \/ workers'[p] = workers[p]
          /\ leaked'[p] = leaked[p]
      BY <1>2, <2>1 DEF Takes, TypeOK
    <3>4. QED
      BY <1>0, <3>2, <3>3
  <2>2. CASE Provider[job[f]] # p
    <3>1. Counting(p)' = Counting(p)
      BY <1>2, <2>2 DEF Takes, Counting, TypeOK
    <3>2. workers'[p] = workers[p] /\ leaked'[p] = leaked[p]
      BY <1>2, <2>2 DEF Takes, TypeOK
    <3>3. QED
      BY <1>0, <3>1, <3>2
  <2>3. QED
    BY <2>1, <2>2
<1>3. ASSUME NEW f \in Flows, Gives(f)
      PROVE  workers'[p] <= Cardinality(Counting(p)') + leaked'[p]
  <2>1. CASE Provider[job[f]] = p
    <3>1. Counting(p)' = Counting(p) \ {f} /\ f \in Counting(p)
      BY <1>3, <2>1 DEF Gives, Counting, TypeOK
    <3>2. /\ Cardinality(Counting(p)') = Cardinality(Counting(p)) - 1
          /\ Cardinality(Counting(p)') \in Nat
      BY <1>0, <3>1, FS_RemoveElement, FS_CardinalityType
    <3>3. \/ workers[p] > 0 /\ workers'[p] = workers[p] - 1 /\ leaked'[p] = leaked[p]
          \/ workers[p] = 0 /\ workers'[p] = 0 /\ leaked'[p] = leaked[p]
          \/ workers'[p] = workers[p] /\ leaked'[p] = leaked[p] + 1
      BY <1>0, <1>3, <2>1 DEF Gives, TypeOK
    <3>4. QED
      BY <1>0, <3>2, <3>3
  <2>2. CASE Provider[job[f]] # p
    <3>1. Counting(p)' = Counting(p)
      BY <1>3, <2>2 DEF Gives, Counting, TypeOK
    <3>2. workers'[p] = workers[p] /\ leaked'[p] = leaked[p]
      BY <1>3, <2>2 DEF Gives, TypeOK
    <3>3. QED
      BY <1>0, <3>1, <3>2
  <2>3. QED
    BY <2>1, <2>2
<1>4. QED
  BY <1>1, <1>2, <1>3, CountKinds

(* Whatever raises, overruns or dies, the counter is at most the slots     *)
(* between increment and decrement, plus the decrements that never         *)
(* happened: no path of the activity keeps its unit.                       *)
THEOREM NoUnitIsKept ==
  ASSUME IsFiniteSet(Flows)
  PROVE  Spec => []NoUnitLeaks
<1>1. Init => CountedAfterIncrement /\ NoUnitLeaks
  <2>1. SUFFICES ASSUME Init, NEW p \in Providers
                 PROVE  workers[p] <= Cardinality(Counting(p)) + leaked[p]
    BY AccountInit DEF NoUnitLeaks
  <2>2. workers[p] = Cardinality(Counting(p)) + leaked[p]
    BY <2>1, AccountInit DEF WorkersAccount
  <2>3. workers[p] = 0
    BY <2>1 DEF Init
  <2>4. QED
    BY <2>2, <2>3
<1>2. TypeOK /\ CountedAfterIncrement /\ [Next]_vars => CountedAfterIncrement'
  BY CountedPreserved
<1>3. TypeOK /\ CountedAfterIncrement /\ NoUnitLeaks /\ [Next]_vars => NoUnitLeaks'
  BY UnitsPreserved
<1>4. QED
  BY <1>1, <1>2, <1>3, TypeCorrect, PTL DEF Spec

-----------------------------------------------------------------------------
(* Nothing is lost.                                                        *)

(* Without crashes and exceptions a slot leaves the section only by        *)
(* deleting the lock, so the lock names nobody else.                       *)
LEMMA HolderPreserved ==
  ASSUME TypeOK, LockNamesHolder, [Next]_vars,
         "crash" \notin Faults, "raise" \notin Faults
  PROVE  LockNamesHolder'
<1> USE ConstantsAssumption
<1> SUFFICES ASSUME NEW t \in Tasks, lock'[t] # NoFlow
             PROVE  pc'[lock'[t]] \in Section /\ job'[lock'[t]] = t
  BY DEF LockNamesHolder, InSection
<1> DEFINE Goal == pc'[lock'[t]] \in Section /\ job'[lock'[t]] = t
<1>0. /\ lock[t] # NoFlow => lock[t] \in Flows /\ pc[lock[t]] \in Section /\ job[lock[t]] = t
      /\ pc \in [Flows -> Points] /\ job \in [Flows -> Tasks \cup {NoTask}]
  BY DEF LockNamesHolder, InSection, TypeOK
<1>1. CASE UNCHANGED <<pc, job, lock>>
  BY <1>0, <1>1
<1>2. ASSUME NEW f \in Flows, Inside(f) PROVE Goal
  BY <1>0, <1>2 DEF Inside, Moves
<1>3. ASSUME NEW f \in Flows, Enters(f) PROVE Goal
  <2>1. lock[t] # f /\ "read" \in Section
    BY <1>0, <1>3 DEF Enters, Section, TryBody
  <2>2. CASE job[f] = t
    BY <1>0, <1>3, <2>1, <2>2 DEF Enters, Moves, TypeOK
  <2>3. CASE job[f] # t
    BY <1>0, <1>3, <2>1, <2>3 DEF Enters, Moves, TypeOK
  <2>4. QED
    BY <2>2, <2>3
<1>4. ASSUME NEW f \in Flows, ReleaseLock(f) PROVE Goal
  <2>1. /\ pc' = [pc EXCEPT ![f] = "decr"] /\ UNCHANGED job
        /\ lock' = [lock EXCEPT ![job[f]] = NoFlow] /\ job[f] \in Tasks
    BY <1>4 DEF ReleaseLock, Raises, Goto, locals, TypeOK
  <2>2. job[f] # t /\ lock'[t] = lock[t]
    BY <2>1 DEF TypeOK
  <2>3. QED
    BY <1>0, <2>1, <2>2
<1>5. ASSUME NEW f \in Flows, Outside(f), pc[f] \notin Section PROVE Goal
  BY <1>0, <1>5 DEF Outside, Moves
<1>6. ASSUME NEW f \in Flows,
             \/ ReadTask(f) \/ CompareAndSet(f) \/ GiveUp(f) \/ Defer(f)
             \/ Reschedule(f) \/ Increment(f) \/ Dial(f) \/ DialLost(f)
             \/ DialFails(f) \/ EndLocalCall(f) \/ RecordCompleted(f)
             \/ RecordInProgress(f) \/ RecordFailed(f) \/ MarkDedup(f)
             \/ Tally(f) \/ WriteRun(f) \/ Raise(f) \/ Except(f)
      PROVE  Goal
  <2>1. ReadTask(f) => ~Return(f)
    BY DEF ReadTask, Raises, Return, Goto, TypeOK, Points, Section, TryBody
  <2>2. QED
    BY <1>2, <1>6, <2>1, InsideSteps
<1>7. ASSUME NEW f \in Flows,
             \/ CheckDedup(f) \/ Decrement(f) \/ \E u \in Tasks : Start(f, u)
      PROVE  Goal
  <2>1. pc[f] \notin Section
    BY <1>7 DEF CheckDedup, Decrement, Start, Section, TryBody
  <2>2. QED
    BY <1>5, <1>7, <2>1, OutsideSteps
<1>8. ASSUME NEW f \in Flows, AcquireLock(f) PROVE Goal
  <2>1. pc[f] \notin Section
    BY <1>8 DEF AcquireLock, Section, TryBody
  <2>2. QED
    BY <1>3, <1>5, <1>8, <2>1, AcquireSteps
<1>9. ASSUME NEW u \in Tasks, LockExpires(u) PROVE Goal
  BY <1>0, <1>9 DEF LockExpires, locals, TypeOK
<1>10. ASSUME NEW u \in Tasks, Trigger(u) \/ ComesDue(u) \/ DedupExpires(u) \/ HangUp(u)
       PROVE  Goal
  BY <1>1, <1>10 DEF Trigger, ComesDue, DedupExpires, HangUp, redis, locals
<1>11. ~\E f \in Flows : Crash(f)
  BY DEF Crash
<1>12. CASE UNCHANGED vars
  BY <1>1, <1>12 DEF vars, redis, locals
<1>13. QED
  BY <1>4, <1>6, <1>7, <1>8, <1>9, <1>10, <1>11, <1>12, NextCases

(* No step takes a settled task up again.                                  *)
LEMMA SettledStays ==
  ASSUME TypeOK, [Next]_vars, NEW t \in Tasks, Settled(t)
  PROVE  Settled(t)'
<1>1. CASE UNCHANGED vars
  BY <1>1 DEF vars, taskVars, Settled
<1>2. ASSUME NEW f \in Flows, CompareAndSet(f) \/ Defer(f) PROVE Settled(t)'
  BY <1>2 DEF CompareAndSet, Defer, Settled, TypeOK
<1>3. ASSUME NEW f \in Flows,
             \/ GiveUp(f) \/ RecordCompleted(f) \/ RecordInProgress(f)
             \/ RecordFailed(f) \/ Except(f)
      PROVE  Settled(t)'
  BY <1>3 DEF GiveUp, RecordCompleted, RecordInProgress, RecordFailed, Except,
              SetStatus, Settled, TypeOK
<1>4. ASSUME NEW f \in Flows,
             \/ CheckDedup(f) \/ AcquireLock(f) \/ ReadTask(f) \/ Reschedule(f)
             \/ Increment(f) \/ Dial(f) \/ DialLost(f) \/ DialFails(f)
             \/ EndLocalCall(f) \/ MarkDedup(f) \/ Tally(f) \/ WriteRun(f)
             \/ Raise(f) \/ ReleaseLock(f) \/ Decrement(f) \/ Crash(f)
             \/ \E u \in Tasks : Start(f, u)
      PROVE  Settled(t)'
  BY <1>4 DEF CheckDedup, AcquireLock, ReadTask, Reschedule, Increment, Dial, DialLost,
              DialFails, EndLocalCall, MarkDedup, Tally, WriteRun, Raise, ReleaseLock,
              Decrement, Crash, Start, taskVars, Settled
<1>5. ASSUME NEW u \in Tasks, \/ Trigger(u) \/ ComesDue(u) \/ LockExpires(u)
                              \/ DedupExpires(u) \/ HangUp(u)
      PROVE  Settled(t)'
  BY <1>5 DEF Trigger, ComesDue, LockExpires, DedupExpires, HangUp, taskVars, Settled
<1>6. QED
  BY <1>1, <1>2, <1>3, <1>4, <1>5, NextCases

(* A delayed flow run is there until it comes due, which it does not while *)
(* the activity that asked for it is deleting its lock.                    *)
LEMMA DelayedStays ==
  ASSUME TypeOK, [Next]_vars, NEW t \in Tasks, delayed[t] > 0
  PROVE  delayed'[t] > 0 \/ ComesDue(t)
<1>1. CASE UNCHANGED vars
  BY <1>1 DEF vars, prefect
<1>2. ASSUME NEW f \in Flows, Reschedule(f) PROVE delayed'[t] > 0
  BY <1>2 DEF Reschedule, Add, TypeOK
<1>3. ASSUME NEW f \in Flows,
             \/ CheckDedup(f) \/ AcquireLock(f) \/ ReadTask(f) \/ CompareAndSet(f)
             \/ GiveUp(f) \/ Defer(f) \/ Increment(f) \/ Dial(f) \/ DialLost(f)
             \/ DialFails(f) \/ EndLocalCall(f) \/ RecordCompleted(f)
             \/ RecordInProgress(f) \/ RecordFailed(f) \/ MarkDedup(f) \/ Tally(f)
             \/ WriteRun(f) \/ Raise(f) \/ Except(f) \/ ReleaseLock(f)
             \/ Decrement(f) \/ Crash(f) \/ \E u \in Tasks : Start(f, u)
      PROVE  delayed' = delayed
  BY <1>3 DEF CheckDedup, AcquireLock, ReadTask, CompareAndSet, GiveUp, Defer, Increment,
              Dial, DialLost, DialFails, EndLocalCall, RecordCompleted,
              RecordInProgress, RecordFailed, MarkDedup, Tally, WriteRun, Raise, Except,
              ReleaseLock, Decrement, Crash, Start, prefect
<1>4. ASSUME NEW u \in Tasks, ComesDue(u) PROVE delayed'[t] > 0 \/ ComesDue(t)
  BY <1>4 DEF ComesDue, TypeOK
<1>5. ASSUME NEW u \in Tasks, Trigger(u) \/ LockExpires(u) \/ DedupExpires(u) \/ HangUp(u)
      PROVE  delayed' = delayed
  BY <1>5 DEF Trigger, LockExpires, DedupExpires, HangUp, prefect
<1>6. QED
  BY <1>1, <1>2, <1>3, <1>4, <1>5, NextCases

(* What a step does to the slots: every slot stays where it is, or one     *)
(* moves.                                                                  *)
LEMMA OneSlotMoves ==
  ASSUME TypeOK, [Next]_vars, NEW g \in Flows
  PROVE  \/ /\ pc'[g] = pc[g] /\ job'[g] = job[g]
            /\ seen'[g] = seen[g] /\ response'[g] = response[g]
         \/ CheckDedup(g) \/ AcquireLock(g) \/ ReadTask(g) \/ CompareAndSet(g)
         \/ GiveUp(g) \/ Defer(g) \/ Reschedule(g) \/ Increment(g)
         \/ Dial(g) \/ DialLost(g) \/ DialFails(g) \/ EndLocalCall(g)
         \/ RecordCompleted(g) \/ RecordInProgress(g) \/ RecordFailed(g)
         \/ MarkDedup(g) \/ Tally(g) \/ WriteRun(g)
         \/ Raise(g) \/ Except(g) \/ ReleaseLock(g) \/ Decrement(g)
         \/ Crash(g) \/ \E t \in Tasks : Start(g, t)
<1> DEFINE Stays == /\ pc'[g] = pc[g] /\ job'[g] = job[g]
                    /\ seen'[g] = seen[g] /\ response'[g] = response[g]
<1>1. CASE UNCHANGED vars
  BY <1>1 DEF vars, locals
<1>2. ASSUME NEW f \in Flows, f # g,
             \/ CheckDedup(f) \/ AcquireLock(f) \/ ReadTask(f) \/ CompareAndSet(f)
             \/ GiveUp(f) \/ Defer(f) \/ Reschedule(f) \/ Increment(f)
             \/ Dial(f) \/ DialLost(f) \/ DialFails(f) \/ EndLocalCall(f)
      PROVE  Stays
  BY <1>2 DEF CheckDedup, AcquireLock, ReadTask, CompareAndSet, GiveUp, Defer, Reschedule,
              Increment, Dial, DialLost, DialFails, EndLocalCall, Respond, Return, Goto, locals,
              TypeOK
<1>3. ASSUME NEW f \in Flows, f # g,
             \/ RecordCompleted(f) \/ RecordInProgress(f) \/ RecordFailed(f)
             \/ MarkDedup(f) \/ Tally(f) \/ WriteRun(f) \/ Raise(f) \/ Except(f)
             \/ ReleaseLock(f) \/ Decrement(f) \/ Crash(f)
             \/ \E t \in Tasks : Start(f, t)
      PROVE  Stays
  BY <1>3 DEF RecordCompleted, RecordInProgress, RecordFailed, MarkDedup, Tally, WriteRun,
              Raise, Except, ReleaseLock, Decrement, Crash, Start, Return, Goto, locals,
              TypeOK
<1>4. ASSUME NEW t \in Tasks, \/ Trigger(t) \/ ComesDue(t) \/ LockExpires(t)
                              \/ DedupExpires(t) \/ HangUp(t)
      PROVE  Stays
  BY <1>4 DEF Trigger, ComesDue, LockExpires, DedupExpires, HangUp, locals
<1>5. QED
  BY <1>1, <1>2, <1>3, <1>4, NextCases

(* An activity that nothing interrupts leaves its section only with the    *)
(* task settled or a delayed flow run made.                                *)
LEMMA ActivitySettlesPreserved ==
  ASSUME TypeOK, ActivitySettles, [Next]_vars, "raise" \notin Faults, MaxQueued > 0
  PROVE  ActivitySettles'
<1> USE ConstantsAssumption
<1>1. ASSUME NEW t \in Tasks, dedup'[t] PROVE Settled(t)'
  <2>1. CASE dedup[t]
    BY <2>1, SettledStays DEF ActivitySettles
  <2>2. CASE ~dedup[t]
    <3>1. \E f \in Flows : MarkDedup(f) /\ job[f] = t
      <4>1. ASSUME NEW f \in Flows, MarkDedup(f) PROVE job[f] = t
        BY <1>1, <2>2, <4>1 DEF MarkDedup, Raises, TypeOK
      <4>2. \E f \in Flows : MarkDedup(f)
        <5>1. CASE UNCHANGED vars
          BY <1>1, <2>2, <5>1 DEF vars, redis
        <5>2. CASE Next
          BY <1>1, <2>2, <5>2, NextCases
             DEF CheckDedup, AcquireLock, ReadTask, CompareAndSet, GiveUp, Defer,
                 Reschedule, Increment, Dial, DialLost, DialFails, EndLocalCall,
                 RecordCompleted, RecordInProgress, RecordFailed, Tally, WriteRun,
                 Raise, Except, ReleaseLock, Decrement, Crash, Start, Trigger, ComesDue,
                 LockExpires, DedupExpires, HangUp, redis, TypeOK
        <5>3. QED
          BY <5>1, <5>2
      <4>3. QED
        BY <4>1, <4>2
    <3>2. Settled(t)
      BY <3>1 DEF MarkDedup, ActivitySettles
    <3>3. QED
      BY <3>2, SettledStays
  <2>3. QED
    BY <2>1, <2>2
<1>2. ASSUME NEW g \in Flows
      PROVE  /\ pc'[g] \in {"dedup", "tally", "runwrite"} => Settled(job[g])'
             /\ pc'[g] = "release" => Settled(job[g])' \/ delayed'[job'[g]] > 0
             /\ pc'[g] # "except"
  <2> DEFINE t == job[g]
             Goal == /\ pc'[g] \in {"dedup", "tally", "runwrite"} => Settled(job[g])'
                     /\ pc'[g] = "release" => Settled(job[g])' \/ delayed'[job'[g]] > 0
                     /\ pc'[g] # "except"
  <2>0. /\ pc[g] \in {"dedup", "tally", "runwrite"} => Settled(t)
        /\ pc[g] = "release" => Settled(t) \/ delayed[t] > 0
        /\ pc[g] # "except" /\ (pc[g] # "idle" => t \in Tasks)
    BY DEF ActivitySettles, TypeOK
  <2>1. CASE pc'[g] = pc[g] /\ job'[g] = t
    <3>1. CASE pc[g] \in {"dedup", "tally", "runwrite"}
      BY <2>0, <2>1, <3>1, SettledStays DEF Settled
    <3>2. CASE pc[g] = "release"
      <4>1. ~ComesDue(t)
        BY <3>2 DEF ComesDue, InSection, Section
      <4>2. QED
        BY <2>0, <2>1, <3>2, <4>1, SettledStays, DelayedStays DEF Settled
    <3>3. CASE pc[g] \notin {"dedup", "tally", "runwrite", "release"}
      BY <2>0, <2>1, <3>3
    <3>4. QED
      BY <3>1, <3>2, <3>3
  <2>2. CASE GiveUp(g) \/ RecordCompleted(g) \/ RecordInProgress(g) \/ RecordFailed(g)
    BY <2>0, <2>2 DEF GiveUp, RecordCompleted, RecordInProgress, RecordFailed, SetStatus,
           Raises, Goto, locals, Settled, TypeOK
  <2>3. CASE Reschedule(g)
    <3>1. delayed'[t] > 0
      BY <2>0, <2>3 DEF Reschedule, Add, TypeOK
    <3>2. QED
      BY <2>3, <3>1 DEF Reschedule, Raises, Goto, TypeOK
  <2>4. CASE MarkDedup(g) \/ Tally(g) \/ WriteRun(g)
    <3>1. /\ Settled(t)' /\ job'[g] = t
          /\ pc'[g] # "except"
      BY <2>0, <2>4, SettledStays DEF MarkDedup, Tally, WriteRun, Goto, locals, Settled, TypeOK
    <3>2. QED
      BY <3>1 DEF Settled
  <2>5. CASE \/ CheckDedup(g) \/ AcquireLock(g) \/ ReadTask(g) \/ CompareAndSet(g)
             \/ Defer(g) \/ Increment(g) \/ Dial(g) \/ DialLost(g) \/ DialFails(g)
             \/ EndLocalCall(g) \/ ReleaseLock(g) \/ Decrement(g) \/ Crash(g)
             \/ \E u \in Tasks : Start(g, u)
    BY <2>5 DEF CheckDedup, AcquireLock, ReadTask, CompareAndSet, Defer, Increment, Dial,
           DialLost, DialFails, EndLocalCall, ReleaseLock, Decrement, Crash, Start,
           Raises, Return, Goto, TypeOK
  <2>6. ~Raise(g) /\ ~Except(g)
    BY <2>0 DEF Raise, Raises, Except
  <2>7. QED
    BY <2>1, <2>2, <2>3, <2>4, <2>5, <2>6, OneSlotMoves
<1>3. QED
  BY <1>1, <1>2 DEF ActivitySettles

(* Only a slot inside the section makes a pending task anything else.      *)
LEMMA TakenUpInside ==
  ASSUME TypeOK, [Next]_vars, NEW t \in Tasks,
         status[t] \notin {"processing", "scheduled"},
         status'[t] \in {"processing", "scheduled"}
  PROVE  \E f \in Flows : job'[f] = t /\ pc'[f] \notin {"idle", "decr"}
<1>1. ~Settled(t)
  BY SettledStays DEF Settled
<1>2. status[t] = "pending"
  BY <1>1 DEF Settled
<1>3. ASSUME NEW f \in Flows, CompareAndSet(f) \/ Defer(f)
      PROVE  \E g \in Flows : job'[g] = t /\ pc'[g] \notin {"idle", "decr"}
  <2>1. job[f] = t
    BY <1>2, <1>3 DEF CompareAndSet, Defer, TypeOK
  <2>2. job'[f] = t /\ pc'[f] \notin {"idle", "decr"}
    BY <1>3, <2>1 DEF CompareAndSet, Defer, Goto, locals, TypeOK
  <2>3. QED
    BY <2>2
<1>4. ASSUME NEW f \in Flows,
             \/ GiveUp(f) \/ RecordCompleted(f) \/ RecordInProgress(f)
             \/ RecordFailed(f) \/ Except(f)
      PROVE  FALSE
  BY <1>2, <1>4 DEF GiveUp, RecordCompleted, RecordInProgress, RecordFailed, Except,
                    SetStatus, TypeOK
<1>5. ASSUME NEW f \in Flows,
             \/ CheckDedup(f) \/ AcquireLock(f) \/ ReadTask(f) \/ Reschedule(f)
             \/ Increment(f) \/ Dial(f) \/ DialLost(f) \/ DialFails(f)
             \/ EndLocalCall(f) \/ MarkDedup(f) \/ Tally(f) \/ WriteRun(f)
             \/ Raise(f) \/ ReleaseLock(f) \/ Decrement(f) \/ Crash(f)
             \/ \E u \in Tasks : Start(f, u)
      PROVE  FALSE
  BY <1>5 DEF CheckDedup, AcquireLock, ReadTask, Reschedule, Increment, Dial, DialLost,
              DialFails, EndLocalCall, MarkDedup, Tally, WriteRun, Raise, ReleaseLock,
              Decrement, Crash, Start, taskVars
<1>6. ASSUME NEW u \in Tasks, \/ Trigger(u) \/ ComesDue(u) \/ LockExpires(u)
                              \/ DedupExpires(u) \/ HangUp(u)
      PROVE  FALSE
  BY <1>6 DEF Trigger, ComesDue, LockExpires, DedupExpires, HangUp, taskVars
<1>7. CASE UNCHANGED vars
  BY <1>7 DEF vars, taskVars
<1>8. QED
  BY <1>3, <1>4, <1>5, <1>6, <1>7, NextCases

(* A waiting flow run is there until a slot starts it.                     *)
LEMMA QueuedStays ==
  ASSUME TypeOK, [Next]_vars, NEW t \in Tasks, queued[t] > 0
  PROVE  queued'[t] > 0 \/ \E f \in Flows : Start(f, t)
<1>1. CASE UNCHANGED vars
  BY <1>1 DEF vars, prefect
<1>2. ASSUME NEW f \in Flows, NEW u \in Tasks, Start(f, u)
      PROVE  queued'[t] > 0 \/ \E g \in Flows : Start(g, t)
  BY <1>2 DEF Start, TypeOK
<1>3. ASSUME NEW f \in Flows,
             \/ CheckDedup(f) \/ AcquireLock(f) \/ ReadTask(f) \/ CompareAndSet(f)
             \/ GiveUp(f) \/ Defer(f) \/ Reschedule(f) \/ Increment(f) \/ Dial(f)
             \/ DialLost(f) \/ DialFails(f) \/ EndLocalCall(f)
             \/ RecordCompleted(f) \/ RecordInProgress(f) \/ RecordFailed(f)
             \/ MarkDedup(f) \/ Tally(f) \/ WriteRun(f) \/ Raise(f) \/ Except(f)
             \/ ReleaseLock(f) \/ Decrement(f) \/ Crash(f)
      PROVE  queued' = queued
  BY <1>3 DEF CheckDedup, AcquireLock, ReadTask, CompareAndSet, GiveUp, Defer, Reschedule,
              Increment, Dial, DialLost, DialFails, EndLocalCall, RecordCompleted,
              RecordInProgress, RecordFailed, MarkDedup, Tally, WriteRun, Raise, Except,
              ReleaseLock, Decrement, Crash, prefect
<1>4. ASSUME NEW u \in Tasks, Trigger(u) \/ ComesDue(u) PROVE queued'[t] > 0
  BY <1>4 DEF Trigger, ComesDue, Add, TypeOK
<1>5. ASSUME NEW u \in Tasks, LockExpires(u) \/ DedupExpires(u) \/ HangUp(u)
      PROVE  queued' = queued
  BY <1>5 DEF LockExpires, DedupExpires, HangUp, prefect
<1>6. QED
  BY <1>1, <1>2, <1>3, <1>4, <1>5, NextCases

(* A flow run that is turned away leaves the task to the slot the lock     *)
(* names; one that ends leaves it settled or delayed.                      *)
LEMMA InHandPreserved ==
  ASSUME TypeOK, LockNamesHolder, ActivitySettles, InHand, [Next]_vars,
         "crash" \notin Faults, "raise" \notin Faults, MaxQueued > 0
  PROVE  InHand'
<1> USE ConstantsAssumption
<1> DEFINE Held(t) == \/ queued'[t] > 0 \/ delayed'[t] > 0
                      \/ \E f \in Flows : job'[f] = t /\ pc'[f] \notin {"idle", "decr"}
<1> SUFFICES ASSUME NEW t \in Tasks, status'[t] \in {"processing", "scheduled"}
             PROVE  Held(t)
  BY DEF InHand
<1>1. ~Settled(t)
  BY SettledStays DEF Settled
<1>2. CASE status[t] \notin {"processing", "scheduled"}
  BY <1>2, TakenUpInside
<1>3. CASE queued[t] > 0
  <2>1. ASSUME NEW f \in Flows, Start(f, t) PROVE Held(t)
    <3>1. job'[f] = t /\ pc'[f] = "check"
      BY <2>1 DEF Start, Goto, TypeOK
    <3>2. QED
      BY <3>1
  <2>2. QED
    BY <1>3, <2>1, QueuedStays
<1>4. CASE delayed[t] > 0
  <2>1. CASE ComesDue(t)
    <3>1. queued'[t] > 0
      BY <2>1 DEF ComesDue, Add, TypeOK
    <3>2. QED
      BY <3>1
  <2>2. QED
    BY <1>4, <2>1, DelayedStays
<1>5. ASSUME NEW g \in Flows, job[g] = t, pc[g] \notin {"idle", "decr"} PROVE Held(t)
  <2>1. CASE pc'[g] = pc[g] /\ job'[g] = job[g]
    BY <1>5, <2>1
  <2>2. CASE Inside(g)
    <3>1. job'[g] = t /\ pc'[g] \in Section
      BY <1>5, <2>2 DEF Inside, Moves, TypeOK
    <3>2. QED
      BY <3>1 DEF Section, TryBody
  <2>3. CASE CheckDedup(g)
    <3>1. ~AlreadyProcessed(t)
      BY <1>1 DEF AlreadyProcessed, ActivitySettles, Settled
    <3>2. job'[g] = t /\ pc'[g] = "lock"
      BY <1>5, <2>3, <3>1 DEF CheckDedup, Raises, Goto, locals, TypeOK
    <3>3. QED
      BY <3>2
  <2>4. CASE AcquireLock(g)
    <3>1. CASE lock[t] = NoFlow
      <4>1. job'[g] = t /\ pc'[g] = "read"
        BY <1>5, <2>4, <3>1 DEF AcquireLock, Raises, Goto, locals, TypeOK
      <4>2. QED
        BY <4>1
    <3>2. CASE lock[t] # NoFlow
      <4> DEFINE h == lock[t]
      <4>1. h \in Flows /\ pc[h] \in Section /\ job[h] = t
        BY <3>2 DEF LockNamesHolder, InSection, TypeOK
      <4>2. h # g
        BY <2>4, <4>1 DEF AcquireLock, Section, TryBody
      <4>3. pc'[h] = pc[h] /\ job'[h] = job[h]
        BY <2>4, <4>1, <4>2 DEF AcquireLock, Return, Goto, locals, TypeOK
      <4>4. pc'[h] \notin {"idle", "decr"}
        BY <4>1, <4>3 DEF Section, TryBody
      <4>5. QED
        BY <4>1, <4>3, <4>4
    <3>3. QED
      BY <3>1, <3>2
  <2>5. CASE ReleaseLock(g)
    <3>1. delayed[t] > 0
      BY <1>1, <1>5, <2>5 DEF ReleaseLock, ActivitySettles
    <3>2. QED
      BY <1>4, <3>1
  <2>6. CASE ReadTask(g)
    BY <1>5, <2>2, <2>6, InsideSteps
       DEF ReadTask, Raises, Return, Goto, TypeOK
  <2>7. CASE \/ CompareAndSet(g) \/ GiveUp(g) \/ Defer(g) \/ Reschedule(g)
             \/ Increment(g) \/ Dial(g) \/ DialLost(g) \/ DialFails(g)
             \/ EndLocalCall(g) \/ RecordCompleted(g) \/ RecordInProgress(g)
             \/ RecordFailed(g) \/ MarkDedup(g) \/ Tally(g) \/ WriteRun(g)
             \/ Raise(g) \/ Except(g)
    BY <2>2, <2>7, InsideSteps
  <2>8. ~(Decrement(g) \/ Crash(g) \/ \E u \in Tasks : Start(g, u))
    BY <1>5 DEF Decrement, Crash, Start
  <2>9. QED
    BY <2>1, <2>3, <2>4, <2>5, <2>6, <2>7, <2>8, OneSlotMoves
<1>6. QED
  BY <1>2, <1>3, <1>4, <1>5 DEF InHand

(* As long as no worker dies and no call raises, no task that was taken up *)
(* is forgotten: while it is in processing or scheduled, a flow run is at  *)
(* work on it or waits to be.  (One waiting flow run must be countable.)   *)
THEOREM NothingForgotten ==
  ASSUME "crash" \notin Faults, "raise" \notin Faults, MaxQueued > 0,
         "scheduled" \notin Created
  PROVE  Spec => []NotAbandoned
<1>1. Init => LockNamesHolder /\ ActivitySettles /\ InHand
  <2>1. Init => \A t \in Tasks : status[t] = "pending"
    BY ConstantsAssumption DEF Init
  <2>2. QED
    BY <2>1 DEF Init, LockNamesHolder, ActivitySettles, InHand
<1>2. TypeOK /\ LockNamesHolder /\ [Next]_vars => LockNamesHolder'
  BY HolderPreserved
<1>3. TypeOK /\ ActivitySettles /\ [Next]_vars => ActivitySettles'
  BY ActivitySettlesPreserved
<1>4. TypeOK /\ LockNamesHolder /\ ActivitySettles /\ InHand /\ [Next]_vars => InHand'
  BY InHandPreserved
<1>5. InHand => NotAbandoned
  BY DEF InHand, NotAbandoned
<1>6. QED
  BY <1>1, <1>2, <1>3, <1>4, <1>5, TypeCorrect, PTL DEF Spec
=============================================================================
