------------------------------ MODULE TaskWork ------------------------------
(***************************************************************************)
(* What the pipeline promises of one call task, however many flow runs are *)
(* created for it: at any time at most one worker works on the task; only  *)
(* that worker holds a local (pipecat) call with the customer, one at a    *)
(* time, and does not leave while it lasts; and only a worker whose call   *)
(* is over records the task as completed.                                  *)
(***************************************************************************)
CONSTANTS Tasks, Workers, Nobody

VARIABLES
  worker,    \* who works on the task
  talking,   \* a local call of the task is in progress
  finished   \* the task has been recorded as completed

workVars == <<worker, talking, finished>>

Init ==
  /\ worker = [t \in Tasks |-> Nobody]
  /\ talking = [t \in Tasks |-> FALSE]
  /\ finished = [t \in Tasks |-> FALSE]

(* A worker takes up a task nobody works on.                               *)
Begin(w, t) ==
  /\ worker[t] = Nobody
  /\ worker' = [worker EXCEPT ![t] = w]
  /\ UNCHANGED <<talking, finished>>

(* Its worker talks to the customer.                                       *)
Connect(t) ==
  /\ worker[t] # Nobody /\ ~talking[t]
  /\ talking' = [talking EXCEPT ![t] = TRUE]
  /\ UNCHANGED <<worker, finished>>

Disconnect(t) ==
  /\ worker[t] # Nobody /\ talking[t]
  /\ talking' = [talking EXCEPT ![t] = FALSE]
  /\ UNCHANGED <<worker, finished>>

(* Its worker records the task as completed.                               *)
Finish(t) ==
  /\ worker[t] # Nobody /\ ~talking[t]
  /\ finished' = [finished EXCEPT ![t] = TRUE]
  /\ UNCHANGED <<worker, talking>>

(* Its worker leaves, or dies and takes the call along.                    *)
End(t) ==
  /\ worker[t] # Nobody
  /\ worker' = [worker EXCEPT ![t] = Nobody]
  /\ talking' = [talking EXCEPT ![t] = FALSE]
  /\ UNCHANGED finished

Next == \E t \in Tasks :
  \/ \E w \in Workers : Begin(w, t)
  \/ Connect(t) \/ Disconnect(t) \/ Finish(t) \/ End(t)

Spec == Init /\ [][Next]_workVars
=============================================================================
