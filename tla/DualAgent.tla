----------------------------- MODULE DualAgent -----------------------------
(***************************************************************************)
(* The dual-agent conversation: the communication agent walks the nodes of  *)
(* a flow, pushes tasks into the queue and asks for their results; the      *)
(* processing agent polls the queue and runs a tool per task.  All share    *)
(* one event loop, and no lock is awaited while another holds it, so that   *)
(* an action lasts from one sleep or tool call to the next.                 *)
(***************************************************************************)
EXTENDS Integers, Sequences, SequencesExt

CONSTANTS
  Nodes, First,         \* the conversation flow and its first node
  Kind, NextNode,       \* of each node: its type, and next_node or NoNode
  Tool,                 \* of each node: task type, or the tool it explains
  NoNode,
  PollLimit,            \* get_pending_tasks(limit) (5)
  MaxTasks,             \* bound on tasks pushed
  MaxStarts             \* bound on starts of the processing agent

ASSUME DualAgentAssumption ==
  /\ First \in Nodes /\ NoNode \notin Nodes
  /\ Kind \in [Nodes -> {"speak", "tool", "explanation", "react"}]
  /\ NextNode \in [Nodes -> Nodes \cup {NoNode}]
  /\ PollLimit \in Nat \ {0} /\ MaxTasks \in Nat /\ MaxStarts \in Nat

Ids == 1 .. MaxTasks
Slots == 1 .. 2      \* bound: executors of one task at a time
Tools == {Tool[n] : n \in Nodes}
NoTask == 0

VARIABLES
  current, completed,   \* context: current_node, completed_nodes
  waiting,              \* _current_task_id, and the context's waiting_for_task
  cache,                \* context.tool_results: the task a result is of
  tts,                  \* tts_frame_progress is at least 0.9
  tasks,                \* queue._tasks: status, type, node and is_timed_out
  pending,              \* queue._pending
  running, loops,       \* _is_running; poll loops that are alive
  exec,                 \* executors of each task
  entry,                \* _executor_tasks: the executor under the task's id
  starts,               \* history: starts so far
  runs,                 \* history: how often each task's tool was called
  told,                 \* history: per tool, the task whose result was told
  explained,            \* history: the task whose result was explained last
  gaveUp                \* history: a task was given up for its timeout

comm    == <<current, completed, waiting, tts>>
queue   == <<tasks, pending>>
proc    == <<running, loops, starts>>
history == <<told, explained, gaveUp>>
vars == <<comm, cache, queue, proc, exec, entry, runs, history>>

Init ==
  /\ current = First /\ completed = {} /\ waiting = NoTask
  /\ cache = [t \in Tools |-> NoTask]
  /\ tts = FALSE
  /\ tasks = <<>> /\ pending = <<>>
  /\ running = FALSE /\ loops = 0 /\ starts = 0
  /\ exec = [i \in Ids |-> [x \in Slots |-> "none"]]
  /\ entry = [i \in Ids |-> 0]
  /\ runs = [i \in Ids |-> 0]
  /\ told = [t \in Tools |-> NoTask]
  /\ explained = NoTask /\ gaveUp = FALSE

Status(i) == tasks[i].status
SetStatus(i, s) == tasks' = [tasks EXCEPT ![i].status = s]
Drop(i) == pending' = RemoveFirst(pending, i)
-----------------------------------------------------------------------------
(* The communication agent: process_user_input, one disjunct per handler.   *)

(* The pipeline reports the progress of the speech. *)
Speech ==
  /\ tts' = ~tts
  /\ UNCHANGED <<current, completed, waiting, cache, queue, proc, exec, entry, runs, history>>

(* Variant: a node without a next one is left as well. *)
LeaveAlways(n) ==
  /\ completed' = completed \cup {n}
  /\ current' = NextNode[n]

(* The node is complete, and the next one, if there is one, is current.     *)
Leave(n) ==
  /\ completed' = completed \cup {n}
  /\ current' = IF NextNode[n] = NoNode THEN n ELSE NextNode[n]

(* An instruction, or a question: its answer always holds the fields asked. *)
HandleSpeak ==
  /\ tts /\ waiting = NoTask /\ Kind[current] = "speak"
  /\ Leave(current)
  /\ UNCHANGED <<waiting, tts, cache, queue, proc, exec, entry, runs, history>>

(* Variant: a task is pushed although another one is awaited. *)
HandleToolAnyway ==
  /\ tts /\ Kind[current] \in {"tool", "react"}
  /\ Len(tasks) < MaxTasks
  /\ tasks' = Append(tasks, [status |-> "PENDING", tool |-> Tool[current],
                             node |-> current, late |-> FALSE])
  /\ pending' = Append(pending, Len(tasks'))
  /\ waiting' = Len(tasks')
  /\ UNCHANGED <<current, completed, tts, cache, proc, exec, entry, runs, history>>

(* A tool node or an open question pushes a task, and waits for it. *)
HandleTool ==
  /\ tts /\ waiting = NoTask /\ Kind[current] \in {"tool", "react"}
  /\ Len(tasks) < MaxTasks
  /\ tasks' = Append(tasks, [status |-> "PENDING", tool |-> Tool[current],
                             node |-> current, late |-> FALSE])
  /\ pending' = Append(pending, Len(tasks'))
  /\ waiting' = Len(tasks')
  /\ UNCHANGED <<current, completed, tts, cache, proc, exec, entry, runs, history>>

(* A cached result is explained, or the prompt alone if there is none: the  *)
(* entry expires after five minutes.                                        *)
HandleExplanation ==
  /\ tts /\ waiting = NoTask /\ Kind[current] = "explanation"
  /\ \/ explained' = cache[Tool[current]] /\ UNCHANGED cache
     \/ cache' = [cache EXCEPT ![Tool[current]] = NoTask] /\ explained' = NoTask
  /\ Leave(current)
  /\ UNCHANGED <<waiting, tts, queue, proc, exec, entry, runs, told, gaveUp>>

(* _check_task_status. *)
CheckCompleted ==
  /\ tts /\ waiting # NoTask /\ Status(waiting) = "COMPLETED"
  /\ LET t == tasks[waiting].tool IN
     /\ cache' = [cache EXCEPT ![t] = waiting]
     /\ told' = [told EXCEPT ![t] = waiting]
  /\ waiting' = NoTask
  /\ IF NextNode[current] = NoNode THEN UNCHANGED <<current, completed>> ELSE Leave(current)
  /\ UNCHANGED <<tts, queue, proc, exec, entry, runs, explained, gaveUp>>

(* Variant: a failed task is left behind like a completed one. *)
CheckFailedAndLeave ==
  /\ tts /\ waiting # NoTask /\ Status(waiting) = "FAILED"
  /\ waiting' = NoTask
  /\ Leave(current)
  /\ UNCHANGED <<tts, cache, queue, proc, exec, entry, runs, history>>

CheckFailed ==
  /\ tts /\ waiting # NoTask /\ Status(waiting) = "FAILED"
  /\ waiting' = NoTask
  /\ UNCHANGED <<current, completed, tts, cache, queue, proc, exec, entry, runs, history>>

(* Variant: only a task that has not been started is given up. *)
CheckPendingLate ==
  /\ tts /\ waiting # NoTask /\ Status(waiting) = "PENDING" /\ tasks[waiting].late
  /\ waiting' = NoTask
  /\ gaveUp' = TRUE
  /\ UNCHANGED <<current, completed, tts, cache, queue, proc, exec, entry, runs, told, explained>>

(* Variant: a task that is given up is failed, while its executor goes on.  *)
CheckTimedOutAndFail ==
  /\ tts /\ waiting # NoTask /\ Status(waiting) = "IN_PROGRESS" /\ tasks[waiting].late
  /\ SetStatus(waiting, "FAILED")
  /\ waiting' = NoTask
  /\ gaveUp' = TRUE
  /\ UNCHANGED <<current, completed, tts, cache, pending, proc, exec, entry, runs, told, explained>>

(* A task that has timed out is given up, and its executor goes on. *)
CheckTimedOut ==
  /\ tts /\ waiting # NoTask /\ Status(waiting) = "IN_PROGRESS" /\ tasks[waiting].late
  /\ waiting' = NoTask
  /\ gaveUp' = TRUE
  /\ UNCHANGED <<current, completed, tts, cache, queue, proc, exec, entry, runs, told, explained>>

Check == CheckCompleted \/ CheckFailed \/ CheckTimedOut
-----------------------------------------------------------------------------
(* The processing agent. *)

(* Starting again before the old poll loop wakes makes two of them. *)
Start ==
  /\ ~running /\ starts < MaxStarts
  /\ running' = TRUE
  /\ loops' = loops + 1
  /\ starts' = starts + 1
  /\ UNCHANGED <<comm, cache, queue, exec, entry, runs, history>>

(* Executors are cancelled: one that has not begun never does, and leaves   *)
(* its task pending.                                                        *)
Stop ==
  /\ running
  /\ running' = FALSE
  /\ exec' = [i \in Ids |-> [x \in Slots |->
       IF entry[i] # x THEN exec[i][x]
       ELSE CASE exec[i][x] = "created" -> "done"
              [] exec[i][x] = "tool" -> "cancelling"
              [] OTHER -> exec[i][x]]]
  /\ UNCHANGED <<comm, cache, queue, loops, starts, entry, runs, history>>

LoopEnds ==
  /\ loops > 0 /\ ~running
  /\ loops' = loops - 1
  /\ UNCHANGED <<comm, cache, queue, running, starts, exec, entry, runs, history>>

(* A poll creates the executors of the tasks in New and forgets those that  *)
(* are done.                                                                *)
FreeSlot(i) == CHOOSE x \in Slots : exec[i][x] = "none"
PollFor(New) ==
  /\ loops > 0 /\ running
  /\ \A i \in New : \E x \in Slots : exec[i][x] = "none"
  /\ exec' = [i \in Ids |-> [x \in Slots |->
       IF i \in New /\ x = FreeSlot(i) THEN "created"
       ELSE IF exec[i][x] = "done" THEN "none" ELSE exec[i][x]]]
  /\ entry' = [i \in Ids |->
       IF i \in New THEN FreeSlot(i)
       ELSE IF entry[i] # 0 /\ exec[i][entry[i]] = "done" THEN 0 ELSE entry[i]]
  /\ UNCHANGED <<comm, cache, queue, proc, runs, history>>

Found == {pending[p] : p \in 1 .. (IF Len(pending) < PollLimit THEN Len(pending) ELSE PollLimit)}

(* Variant: a task that has an executor is given another one. *)
PollAgain == PollFor(Found)

Poll == PollFor({i \in Found : entry[i] = 0})

(* Variant: the task stays in the pending list while it is executed. *)
ExecStartInList(i, x) ==
  /\ exec[i][x] = "created"
  /\ exec' = [exec EXCEPT ![i][x] = "tool"]
  /\ SetStatus(i, "IN_PROGRESS")
  /\ runs' = [runs EXCEPT ![i] = @ + 1]
  /\ UNCHANGED <<comm, cache, pending, proc, entry, history>>

(* _execute_task up to the call of the tool ... *)
ExecStart(i, x) ==
  /\ exec[i][x] = "created"
  /\ exec' = [exec EXCEPT ![i][x] = "tool"]
  /\ SetStatus(i, "IN_PROGRESS")
  /\ Drop(i)
  /\ runs' = [runs EXCEPT ![i] = @ + 1]
  /\ UNCHANGED <<comm, cache, proc, entry, history>>

(* ... its result, which is cached under the type of the task ... *)
ToolReturns(i, x) ==
  /\ exec[i][x] = "tool"
  /\ exec' = [exec EXCEPT ![i][x] = "done"]
  /\ SetStatus(i, "COMPLETED")
  /\ Drop(i)
  /\ cache' = [cache EXCEPT ![tasks[i].tool] = i]
  /\ UNCHANGED <<comm, proc, entry, runs, history>>

(* ... or its failure: the tool raises or is missing, or the executor was   *)
(* cancelled.                                                               *)
ToolFails(i, x) ==
  /\ exec[i][x] \in {"tool", "cancelling"}
  /\ exec' = [exec EXCEPT ![i][x] = "done"]
  /\ SetStatus(i, "FAILED")
  /\ Drop(i)
  /\ UNCHANGED <<comm, cache, proc, entry, runs, history>>

(* Ten seconds after the tool was called. *)
TimeOut(i) ==
  /\ i \in DOMAIN tasks /\ Status(i) = "IN_PROGRESS" /\ ~tasks[i].late
  /\ tasks' = [tasks EXCEPT ![i].late = TRUE]
  /\ UNCHANGED <<comm, cache, pending, proc, exec, entry, runs, history>>

Next ==
  \/ Speech \/ HandleSpeak \/ HandleTool \/ HandleExplanation
  \/ CheckCompleted \/ CheckFailed \/ CheckTimedOut
  \/ Start \/ Stop \/ LoopEnds \/ Poll
  \/ \E i \in Ids : \/ TimeOut(i)
                    \/ \E x \in Slots : ExecStart(i, x) \/ ToolReturns(i, x) \/ ToolFails(i, x)

Spec == Init /\ [][Next]_vars

(* The event loop gets to a poll that is due, to a created executor and to  *)
(* a cancelled one, and time passes.  A tool may never return.  That the    *)
(* customer keeps talking and the speech is reported (update_tts_state) is  *)
(* up to whoever assembles the agents.                                      *)
Fairness ==
  /\ SF_vars(Check)
  /\ WF_vars(Poll)
  /\ \A i \in Ids :
       /\ WF_vars(TimeOut(i))
       /\ \A x \in Slots :
            /\ WF_vars(ExecStart(i, x))
            /\ WF_vars(exec[i][x] = "cancelling" /\ ToolFails(i, x))
  /\ WF_vars(Speech)

FairSpec == Spec /\ Fairness
-----------------------------------------------------------------------------
Statuses == {"PENDING", "IN_PROGRESS", "COMPLETED", "FAILED"}
Task == [status : Statuses, tool : Tools, node : Nodes, late : BOOLEAN]

QueueOK == tasks \in Seq(Task) /\ Len(tasks) <= MaxTasks /\ pending \in Seq(Ids)

ConversationOK ==
  /\ current \in Nodes /\ completed \subseteq Nodes
  /\ waiting \in {NoTask} \cup DOMAIN tasks
  /\ cache \in [Tools -> {NoTask} \cup DOMAIN tasks]
  /\ told \in [Tools -> {NoTask} \cup DOMAIN tasks]
  /\ explained \in {NoTask} \cup DOMAIN tasks
  /\ tts \in BOOLEAN /\ gaveUp \in BOOLEAN

AgentOK ==
  /\ running \in BOOLEAN
  /\ starts \in 0 .. MaxStarts /\ loops \in 0 .. starts

ExecutorsOK ==
  /\ exec \in [Ids -> [Slots -> {"none", "created", "tool", "cancelling", "done"}]]
  /\ entry \in [Ids -> {0} \cup Slots]
  /\ runs \in [Ids -> Nat]

DualAgentTypeOK == QueueOK /\ ConversationOK /\ AgentOK /\ ExecutorsOK

(* The pending list holds the pending tasks, each once, although an         *)
(* executor may be cancelled before it begins and a second poll loop        *)
(* started.                                                                 *)
PendingListed ==
  /\ IsInjective(pending)
  /\ Range(pending) = {i \in DOMAIN tasks : Status(i) = "PENDING"}

(* The tool of a task is called at most once, by whatever poll loops there  *)
(* are, before and after a restart.                                         *)
ToolCalledOnce == \A i \in Ids : runs[i] <= 1

(* The conversation goes past a tool node only with the result of a task of *)
(* that node.                                                               *)
ToolNodesAnswered ==
  \A n \in completed : Kind[n] = "tool" =>
    \E i \in DOMAIN tasks : tasks[i].node = n /\ Status(i) = "COMPLETED"

(* As long as no task was given up, an explanation is of the result of its  *)
(* tool that was told, whatever other tasks of the tool have returned since.*)
ExplainsWhatWasTold ==
  [][explained' # explained /\ explained' # NoTask =>
       gaveUp \/ explained' = told[Tool[current]]]_vars

(* A task that has completed or failed keeps its status: complete_task and  *)
(* fail_task do not look at the one it has, and yet no result that returns  *)
(* after a timeout, a cancellation or a restart is written over another.    *)
DoneStays ==
  [][\A i \in DOMAIN tasks :
       Status(i) \in {"COMPLETED", "FAILED"} => tasks'[i].status = Status(i)]_vars

(* The agent never waits for ever for a task, as long as the processing     *)
(* agent is running and the pipeline reports the progress of its speech: a  *)
(* tool that hangs is given up, a cancelled one has failed.                 *)
WaitEnds == waiting # NoTask ~> (waiting = NoTask \/ ~running)
-----------------------------------------------------------------------------
(* Why these hold: the facts the proofs carry along (DualAgent_proofs).     *)

(* A task at work has one executor, the one under its id: it is pending     *)
(* until that begins, and in progress until that is done.                   *)
OneExecutor ==
  \A i \in Ids, x \in Slots :
    /\ exec[i][x] \in {"created", "tool", "cancelling"} =>
         i \in DOMAIN tasks /\ entry[i] = x
    /\ exec[i][x] = "created" => Status(i) = "PENDING"
    /\ exec[i][x] \in {"tool", "cancelling"} => Status(i) = "IN_PROGRESS"

(* The tool of a task is called when the task leaves PENDING.               *)
CalledOnLeaving ==
  \A i \in Ids :
    /\ runs[i] <= 1
    /\ runs[i] # 0 => i \in DOMAIN tasks /\ Status(i) # "PENDING"

(* The communication agent stays at the node of the task it waits for.      *)
WaitsAtNode == waiting # NoTask => tasks[waiting].node = current

(* A cached result is that of a completed task of the tool.                 *)
CachedIsCompleted ==
  \A t \in Tools : cache[t] # NoTask =>
    tasks[cache[t]].tool = t /\ Status(cache[t]) = "COMPLETED"

(* As long as no task was given up, the only unfinished task is the one     *)
(* that is awaited, and nothing else can be cached than what was told.      *)
OnlyAwaited ==
  ~gaveUp =>
    /\ \A i \in DOMAIN tasks : Status(i) \in {"PENDING", "IN_PROGRESS"} => i = waiting
    /\ \A t \in Tools : cache[t] \in {NoTask, told[t], waiting}
=============================================================================
