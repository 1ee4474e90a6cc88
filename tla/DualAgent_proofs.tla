-------------------------- MODULE DualAgent_proofs --------------------------
(***************************************************************************)
(* Proofs about DualAgent, for every conversation flow, every number of     *)
(* tasks and of starts of the processing agent, and every limit of a poll.  *)
(***************************************************************************)
EXTENDS DualAgent, SequenceTheorems, TLAPS

(* list.remove on a list without duplicates: that element goes, the others  *)
(* stay, each once.                                                         *)
LEMMA RemoveFirstProperties ==
  ASSUME NEW S, NEW s \in Seq(S), IsInjective(s), NEW e
  PROVE  /\ RemoveFirst(s, e) \in Seq(S)
         /\ IsInjective(RemoveFirst(s, e))
         /\ Range(RemoveFirst(s, e)) = Range(s) \ {e}
<1>0. Len(s) \in Nat /\ DOMAIN s = 1 .. Len(s) /\ \A p \in 1 .. Len(s) : s[p] \in S
  OBVIOUS
<1>1. CASE \A p \in 1 .. Len(s) : s[p] # e
  <2>1. RemoveFirst(s, e) = s
    BY <1>1 DEF RemoveFirst
  <2>2. e \notin Range(s)
    BY <1>0, <1>1 DEF Range
  <2>3. QED
    BY <2>1, <2>2
<1>2. ASSUME NEW i \in 1 .. Len(s), s[i] = e
      PROVE  /\ RemoveFirst(s, e) \in Seq(S)
             /\ IsInjective(RemoveFirst(s, e))
             /\ Range(RemoveFirst(s, e)) = Range(s) \ {e}
  <2> DEFINE t == RemoveFirst(s, e)
             before == SubSeq(s, 1, i - 1)
             after  == SubSeq(s, i + 1, Len(s))
  <2>1. {p \in 1 .. Len(s) : s[p] = e} = {i}
    BY <1>0, <1>2 DEF IsInjective
  <2>2. Min({i}) = i
    BY DEF Min
  <2>3. SelectInSeq(s, LAMBDA v : v = e) = i
    BY <2>1, <2>2 DEF SelectInSeq
  <2>4. t = before \o after
    BY <1>2, <2>3 DEF RemoveFirst, RemoveAt
  <2>5. /\ before \in Seq(S) /\ Len(before) = i - 1
        /\ \A p \in 1 .. i - 1 : before[p] = s[p]
    <3>1. /\ 1 \in Int /\ i - 1 \in Int /\ \A p \in 1 .. i - 1 : s[p] \in S
      BY <1>0
    <3>2. /\ before \in Seq(S)
          /\ Len(before) = IF 1 <= i - 1 THEN i - 1 - 1 + 1 ELSE 0
          /\ \A p \in 1 .. i - 1 - 1 + 1 : before[p] = s[1 + p - 1]
      BY <3>1, SubSeqProperties
    <3>3. QED
      BY <3>2
  <2>6. /\ after \in Seq(S) /\ Len(after) = Len(s) - i
        /\ \A p \in 1 .. Len(s) - i : after[p] = s[i + p]
    <3>1. PICK n \in Nat : n = Len(s) /\ i \in 1 .. n
      BY <1>0
    <3>2. /\ i + 1 \in Int /\ n \in Int /\ \A p \in i + 1 .. n : s[p] \in S
      BY <1>0, <3>1
    <3>3. /\ SubSeq(s, i + 1, n) \in Seq(S)
          /\ Len(SubSeq(s, i + 1, n)) = IF i + 1 <= n THEN n - (i + 1) + 1 ELSE 0
          /\ \A p \in 1 .. n - (i + 1) + 1 : SubSeq(s, i + 1, n)[p] = s[i + 1 + p - 1]
      BY <3>2, SubSeqProperties
    <3>4. (IF i + 1 <= n THEN n - (i + 1) + 1 ELSE 0) = n - i
      BY <3>1
    <3>5. ASSUME NEW p \in 1 .. n - i
          PROVE  p \in 1 .. n - (i + 1) + 1 /\ i + 1 + p - 1 = i + p
      BY <3>1
    <3>6. QED
      BY <3>1, <3>3, <3>4, <3>5
  <2>7. /\ t \in Seq(S) /\ Len(t) = Len(s) - 1
        /\ \A p \in 1 .. Len(s) - 1 : t[p] = IF p < i THEN s[p] ELSE s[p + 1]
    <3>1. /\ before \o after \in Seq(S)
          /\ Len(before \o after) = Len(before) + Len(after)
          /\ \A p \in 1 .. Len(before) + Len(after) :
               (before \o after)[p] =
                 IF p <= Len(before) THEN before[p] ELSE after[p - Len(before)]
      BY <2>5, <2>6, ConcatProperties
    <3>2. \A p \in 1 .. Len(s) - 1 :
            /\ p < i => p <= i - 1
            /\ p >= i => p - (i - 1) \in 1 .. Len(s) - i /\ i + (p - (i - 1)) = p + 1
      BY <1>0
    <3> HIDE DEF t, before, after
    <3>3. QED
      BY <1>0, <2>4, <2>5, <2>6, <3>1, <3>2
  <2> HIDE DEF t
  <2>8. DOMAIN t = 1 .. Len(s) - 1
    BY <1>0, <2>7
  <2>9. IsInjective(t)
    <3>1. ASSUME NEW p \in DOMAIN t, NEW q \in DOMAIN t, t[p] = t[q] PROVE p = q
      <4> DEFINE From(r) == IF r < i THEN r ELSE r + 1
      <4>1. From(p) \in 1 .. Len(s) /\ From(q) \in 1 .. Len(s)
        BY <1>0, <2>8
      <4>2. s[From(p)] = s[From(q)]
        BY <2>7, <2>8, <3>1
      <4>3. From(p) = From(q)
        BY <1>0, <4>1, <4>2 DEF IsInjective
      <4>4. QED
        BY <1>0, <2>8, <4>3
    <3>2. QED
      BY <3>1 DEF IsInjective
  <2>10. Range(t) \subseteq Range(s) \ {e}
    BY <1>0, <1>2, <2>7, <2>8 DEF Range, IsInjective
  <2>11. ASSUME NEW p \in 1 .. Len(s), p # i PROVE s[p] \in Range(t)
    <3>1. CASE p < i
      BY <1>0, <2>7, <2>8, <2>11, <3>1 DEF Range
    <3>2. CASE p > i
      <4>1. p - 1 \in 1 .. Len(s) - 1 /\ t[p - 1] = s[p]
        BY <1>0, <2>7, <3>2
      <4>2. QED
        BY <2>8, <4>1 DEF Range
    <3>3. QED
      BY <1>0, <2>11, <3>1, <3>2
  <2>12. Range(s) \ {e} \subseteq Range(t)
    BY <1>0, <1>2, <2>11 DEF Range
  <2>13. QED
    BY <2>7, <2>9, <2>10, <2>12 DEF t
<1>3. QED
  BY <1>1, <1>2
-----------------------------------------------------------------------------
(* The queue.  Its documents are never deleted, and keep what they are for. *)

LEMMA DomainIs ==
  ASSUME QueueOK
  PROVE  /\ Len(tasks) \in Nat /\ DOMAIN tasks = 1 .. Len(tasks)
         /\ DOMAIN tasks \subseteq Ids
         /\ \A i \in DOMAIN tasks : tasks[i] \in Task
         /\ Len(pending) \in Nat /\ DOMAIN pending = 1 .. Len(pending)
         /\ \A p \in DOMAIN pending : pending[p] \in Ids
BY DualAgentAssumption DEF QueueOK, Ids

(* A task is updated: the others keep their documents, and it keeps what    *)
(* is not updated.                                                          *)
LEMMA UpdateKeeps ==
  ASSUME QueueOK, NEW i \in DOMAIN tasks, NEW d \in Task,
         tasks' = [tasks EXCEPT ![i] = d]
  PROVE  /\ tasks' \in Seq(Task) /\ Len(tasks') = Len(tasks)
         /\ DOMAIN tasks' = DOMAIN tasks
         /\ \A j \in DOMAIN tasks : tasks'[j] = IF j = i THEN d ELSE tasks[j]
<1>1. i \in 1 .. Len(tasks) /\ tasks \in Seq(Task)
  BY DomainIs DEF QueueOK
<1>2. /\ tasks' \in Seq(Task) /\ Len(tasks') = Len(tasks)
      /\ \A j \in 1 .. Len(tasks) : tasks'[j] = IF j = i THEN d ELSE tasks[j]
  BY <1>1, ExceptSeq
<1>3. QED
  BY <1>2, DomainIs

(* update_task_status, complete_task and fail_task: the task leaves the     *)
(* pending list with its status.                                            *)
LEMMA StatusSteps ==
  ASSUME QueueOK, PendingListed, NEW i \in DOMAIN tasks,
         NEW s \in Statuses \ {"PENDING"}, SetStatus(i, s), Drop(i)
  PROVE  /\ QueueOK' /\ PendingListed'
         /\ DOMAIN tasks' = DOMAIN tasks
         /\ \A j \in DOMAIN tasks :
              /\ Status(j)' = IF j = i THEN s ELSE Status(j)
              /\ tasks'[j].tool = tasks[j].tool /\ tasks'[j].node = tasks[j].node
<1> DEFINE d == [tasks[i] EXCEPT !.status = s]
<1>1. tasks[i] \in Task
  BY DomainIs
<1>2. d \in Task /\ d.status = s /\ d.tool = tasks[i].tool /\ d.node = tasks[i].node
  BY <1>1 DEF Task
<1>3. tasks' = [tasks EXCEPT ![i] = d]
  BY DEF SetStatus
<1> HIDE DEF d
<1>4. /\ tasks' \in Seq(Task) /\ Len(tasks') = Len(tasks)
      /\ DOMAIN tasks' = DOMAIN tasks
      /\ \A j \in DOMAIN tasks : tasks'[j] = IF j = i THEN d ELSE tasks[j]
  BY <1>2, <1>3, UpdateKeeps
<1>5. \A j \in DOMAIN tasks :
        /\ Status(j)' = IF j = i THEN s ELSE Status(j)
        /\ tasks'[j].tool = tasks[j].tool /\ tasks'[j].node = tasks[j].node
  BY <1>2, <1>4 DEF Status
<1>6. /\ pending' \in Seq(Ids) /\ IsInjective(pending')
      /\ Range(pending') = Range(pending) \ {i}
  BY RemoveFirstProperties DEF Drop, QueueOK, PendingListed
<1>7. {j \in DOMAIN tasks' : Status(j)' = "PENDING"} =
        {j \in DOMAIN tasks : Status(j) = "PENDING"} \ {i}
  BY <1>4, <1>5
<1>8. QueueOK' /\ PendingListed'
  BY <1>4, <1>6, <1>7 DEF QueueOK, PendingListed
<1>9. QED
  BY <1>4, <1>5, <1>8

(* push_task: one pending task more.                                        *)
LEMMA PushSteps ==
  ASSUME QueueOK, PendingListed, current \in Nodes, HandleTool
  PROVE  /\ QueueOK' /\ PendingListed'
         /\ waiting' = Len(tasks) + 1 /\ waiting' \in Ids
         /\ DOMAIN tasks' = DOMAIN tasks \cup {waiting'} /\ waiting' \notin DOMAIN tasks
         /\ \A j \in DOMAIN tasks : tasks'[j] = tasks[j]
         /\ tasks'[waiting'] = [status |-> "PENDING", tool |-> Tool[current],
                                node |-> current, late |-> FALSE]
<1> DEFINE d == [status |-> "PENDING", tool |-> Tool[current],
                 node |-> current, late |-> FALSE]
           n == Len(tasks)
<1>1. d \in Task /\ d.status = "PENDING"
  BY DEF Task, Statuses, Tools
<1>2. tasks' = Append(tasks, d) /\ n < MaxTasks /\ n \in Nat /\ tasks \in Seq(Task)
  BY DomainIs DEF HandleTool, QueueOK
<1> HIDE DEF d
<1>3. /\ tasks' \in Seq(Task) /\ Len(tasks') = n + 1
      /\ DOMAIN tasks' = 1 .. n + 1
      /\ \A j \in 1 .. n : tasks'[j] = tasks[j]
      /\ tasks'[n + 1] = d
  BY <1>1, <1>2, AppendProperties
<1>4. waiting' = n + 1 /\ pending' = Append(pending, n + 1)
  BY <1>3 DEF HandleTool
<1>5. /\ n + 1 \in Ids /\ Len(tasks') <= MaxTasks /\ n + 1 \notin 1 .. n
      /\ 1 .. n + 1 = (1 .. n) \cup {n + 1}
  BY <1>2, <1>3, DualAgentAssumption DEF Ids
<1>6. /\ pending' \in Seq(Ids) /\ Len(pending') = Len(pending) + 1
      /\ DOMAIN pending' = 1 .. Len(pending) + 1
      /\ \A p \in 1 .. Len(pending) : pending'[p] = pending[p]
      /\ pending'[Len(pending) + 1] = n + 1
  BY <1>4, <1>5, AppendProperties DEF QueueOK
<1>7. n + 1 \notin Range(pending)
  BY <1>5, DomainIs DEF PendingListed
<1>8. Range(pending') = Range(pending) \cup {n + 1}
  BY <1>6, DomainIs DEF Range
<1>9. IsInjective(pending')
  <2>1. \A p \in 1 .. Len(pending) : pending'[p] # n + 1
    BY <1>6, <1>7, DomainIs DEF Range
  <2>2. QED
    BY <1>6, <2>1, DomainIs DEF PendingListed, IsInjective
<1>10. {j \in DOMAIN tasks' : Status(j)' = "PENDING"} =
         {j \in DOMAIN tasks : Status(j) = "PENDING"} \cup {n + 1}
  BY <1>1, <1>3, <1>5, DomainIs DEF Status
<1>11. QueueOK' /\ PendingListed'
  BY <1>3, <1>5, <1>6, <1>8, <1>9, <1>10 DEF QueueOK, PendingListed
<1>12. QED
  BY <1>3, <1>4, <1>5, <1>11, DomainIs DEF d

(* A task in progress has timed out.                                        *)
LEMMA TimeOutSteps ==
  ASSUME QueueOK, PendingListed, NEW i \in Ids, TimeOut(i)
  PROVE  /\ QueueOK' /\ PendingListed'
         /\ DOMAIN tasks' = DOMAIN tasks
         /\ \A j \in DOMAIN tasks :
              /\ Status(j)' = Status(j)
              /\ tasks'[j].tool = tasks[j].tool /\ tasks'[j].node = tasks[j].node
<1> DEFINE d == [tasks[i] EXCEPT !.late = TRUE]
<1>1. i \in DOMAIN tasks /\ tasks[i] \in Task
  BY DomainIs DEF TimeOut
<1>2. /\ d \in Task /\ d.status = tasks[i].status
      /\ d.tool = tasks[i].tool /\ d.node = tasks[i].node
  BY <1>1 DEF Task
<1>3. tasks' = [tasks EXCEPT ![i] = d]
  BY DEF TimeOut
<1> HIDE DEF d
<1>4. /\ tasks' \in Seq(Task) /\ Len(tasks') = Len(tasks)
      /\ DOMAIN tasks' = DOMAIN tasks
      /\ \A j \in DOMAIN tasks : tasks'[j] = IF j = i THEN d ELSE tasks[j]
  BY <1>1, <1>2, <1>3, UpdateKeeps
<1>5. \A j \in DOMAIN tasks :
        /\ Status(j)' = Status(j)
        /\ tasks'[j].tool = tasks[j].tool /\ tasks'[j].node = tasks[j].node
  BY <1>2, <1>4 DEF Status
<1>6. pending' = pending
  BY DEF TimeOut
<1>7. {j \in DOMAIN tasks' : Status(j)' = "PENDING"} =
        {j \in DOMAIN tasks : Status(j) = "PENDING"}
  BY <1>4, <1>5
<1>8. QueueOK' /\ PendingListed'
  BY <1>4, <1>6, <1>7 DEF QueueOK, PendingListed
<1>9. QED
  BY <1>4, <1>5, <1>8
-----------------------------------------------------------------------------
(* Types, and the executors of a task. *)

(* The steps by what they change: the conversation, the processing agent,   *)
(* the queue.                                                               *)
Talk == \/ Speech \/ HandleSpeak \/ HandleExplanation
        \/ CheckCompleted \/ CheckFailed \/ CheckTimedOut
Manage == Start \/ Stop \/ LoopEnds \/ Poll
Execute(i, x) == ExecStart(i, x) \/ ToolReturns(i, x) \/ ToolFails(i, x)

LEMMA NextCases ==
  ASSUME Next
  PROVE  \/ Talk \/ HandleTool \/ Manage
         \/ \E i \in Ids : TimeOut(i)
         \/ \E i \in Ids, x \in Slots : Execute(i, x)
BY DEF Next, Talk, Manage, Execute

(* What an action leaves alone keeps its type; a longer queue, too.         *)
LEMMA Untouched ==
  /\ QueueOK /\ UNCHANGED queue => QueueOK'
  /\ AgentOK /\ UNCHANGED proc => AgentOK'
  /\ ExecutorsOK /\ UNCHANGED <<exec, entry, runs>> => ExecutorsOK'
  /\ /\ ConversationOK /\ UNCHANGED <<comm, cache, history>>
     /\ DOMAIN tasks \subseteq DOMAIN tasks'
     => ConversationOK'
BY DEF QueueOK, AgentOK, ExecutorsOK, ConversationOK, queue, proc, comm, history

(* The next node is one of the flow.                                        *)
LEMMA LeaveTypes ==
  ASSUME ConversationOK, Leave(current)
  PROVE  current' \in Nodes /\ completed' \subseteq Nodes
BY DualAgentAssumption DEF ConversationOK, Leave

LEMMA TalkTypes ==
  ASSUME QueueOK, ConversationOK, Talk
  PROVE  /\ ConversationOK' /\ UNCHANGED <<queue, proc, exec, entry, runs>>
         /\ UNCHANGED tasks
<1>1. UNCHANGED <<queue, proc, exec, entry, runs>>
  BY DEF Talk, Speech, HandleSpeak, HandleExplanation, CheckCompleted, CheckFailed,
         CheckTimedOut
<1>2. UNCHANGED tasks
  BY <1>1 DEF queue
<1>3. CASE Speech
  <2>1. (~tts) \in BOOLEAN
    OBVIOUS
  <2>2. QED
    BY <1>2, <1>3, <2>1 DEF Speech, ConversationOK, history
<1>4. CASE HandleSpeak
  BY <1>2, <1>4, LeaveTypes DEF HandleSpeak, ConversationOK, history
<1>5. CASE HandleExplanation
  <2>1. Tool[current] \in Tools
    BY DEF ConversationOK, Tools
  <2>2. explained' \in {NoTask} \cup DOMAIN tasks
    BY <1>5, <2>1 DEF HandleExplanation, ConversationOK
  <2>3. cache' \in [Tools -> {NoTask} \cup DOMAIN tasks]
    BY <1>5, <2>1 DEF HandleExplanation, ConversationOK
  <2>4. QED
    BY <1>2, <1>5, <2>2, <2>3, LeaveTypes DEF HandleExplanation, ConversationOK
<1>6. CASE CheckCompleted
  <2>1. waiting \in DOMAIN tasks
    BY <1>6 DEF CheckCompleted, ConversationOK
  <2>2. /\ cache' \in [Tools -> {NoTask} \cup DOMAIN tasks]
        /\ told' \in [Tools -> {NoTask} \cup DOMAIN tasks]
    BY <1>6, <2>1 DEF CheckCompleted, ConversationOK
  <2>3. current' \in Nodes /\ completed' \subseteq Nodes
    BY <1>6, LeaveTypes DEF CheckCompleted, ConversationOK
  <2>4. QED
    BY <1>2, <1>6, <2>2, <2>3 DEF CheckCompleted, ConversationOK
<1>7. CASE CheckFailed \/ CheckTimedOut
  BY <1>2, <1>7 DEF CheckFailed, CheckTimedOut, ConversationOK, history
<1>8. QED
  BY <1>1, <1>2, <1>3, <1>4, <1>5, <1>6, <1>7 DEF Talk

(* get_pending_tasks returns tasks of the pending list.                     *)
LEMMA FoundListed == ASSUME QueueOK PROVE Found \subseteq Range(pending)
<1> DEFINE limit == IF Len(pending) < PollLimit THEN Len(pending) ELSE PollLimit
<1>1. Len(pending) \in Nat /\ PollLimit \in Nat
  BY DomainIs, DualAgentAssumption
<1>2. \A p \in 1 .. limit : p \in DOMAIN pending
  BY <1>1, DomainIs
<1>3. Found = {pending[p] : p \in 1 .. limit}
  BY DEF Found
<1> HIDE DEF limit
<1>4. QED
  BY <1>2, <1>3 DEF Range

(* A poll gives an executor only to pending tasks that have none.           *)
LEMMA PollSteps ==
  ASSUME QueueOK, PendingListed, ExecutorsOK, OneExecutor, Poll
  PROVE  ExecutorsOK' /\ OneExecutor' /\ UNCHANGED <<comm, cache, queue, proc, runs, history>>
<1> DEFINE New == {i \in Found : entry[i] = 0}
<1>1. PollFor(New) /\ UNCHANGED <<comm, cache, queue, proc, runs, history>>
  BY DEF Poll, PollFor
<1>2. \A i \in New :
        /\ i \in DOMAIN tasks /\ Status(i) = "PENDING" /\ entry[i] = 0
        /\ FreeSlot(i) \in Slots /\ exec[i][FreeSlot(i)] = "none"
  <2>1. New \subseteq Range(pending)
    BY FoundListed
  <2>2. \A i \in New : FreeSlot(i) \in Slots /\ exec[i][FreeSlot(i)] = "none"
    BY <1>1 DEF PollFor, FreeSlot
  <2>3. QED
    BY <2>1, <2>2 DEF PendingListed
<1>3. /\ exec' = [i \in Ids |-> [x \in Slots |->
           IF i \in New /\ x = FreeSlot(i) THEN "created"
           ELSE IF exec[i][x] = "done" THEN "none" ELSE exec[i][x]]]
      /\ entry' = [i \in Ids |->
           IF i \in New THEN FreeSlot(i)
           ELSE IF entry[i] # 0 /\ exec[i][entry[i]] = "done" THEN 0 ELSE entry[i]]
      /\ runs' = runs
  BY <1>1 DEF PollFor
<1> HIDE DEF New
<1>4. ExecutorsOK'
  BY <1>2, <1>3 DEF ExecutorsOK
<1>5. ASSUME NEW i \in Ids, NEW x \in Slots
      PROVE  /\ exec'[i][x] = IF i \in New /\ x = FreeSlot(i) THEN "created"
                              ELSE IF exec[i][x] = "done" THEN "none" ELSE exec[i][x]
             /\ entry'[i] = IF i \in New THEN FreeSlot(i)
                            ELSE IF entry[i] # 0 /\ exec[i][entry[i]] = "done"
                                 THEN 0 ELSE entry[i]
  BY <1>3
<1>6. tasks' = tasks /\ \A i \in Ids : Status(i)' = Status(i)
  BY <1>1 DEF queue, Status
<1>7. ASSUME NEW i \in Ids, NEW x \in Slots, i \in New
      PROVE  /\ exec'[i][x] \in {"created", "tool", "cancelling"} =>
                  exec'[i][x] = "created" /\ entry'[i] = x
             /\ i \in DOMAIN tasks /\ Status(i) = "PENDING"
  BY <1>2, <1>5, <1>7 DEF OneExecutor, Slots
<1>8. ASSUME NEW i \in Ids, NEW x \in Slots, i \notin New,
             exec'[i][x] \in {"created", "tool", "cancelling"}
      PROVE  exec'[i][x] = exec[i][x] /\ entry'[i] = entry[i]
  BY <1>5, <1>8 DEF OneExecutor, Slots
<1>9. OneExecutor'
  BY <1>6, <1>7, <1>8 DEF OneExecutor
<1>10. QED
  BY <1>1, <1>4, <1>9

(* Stopping cancels what is at work, and begins nothing.                    *)
LEMMA StopSteps ==
  ASSUME QueueOK, ExecutorsOK, OneExecutor, Stop
  PROVE  ExecutorsOK' /\ OneExecutor'
<1>1. ASSUME NEW i \in Ids, NEW x \in Slots
      PROVE  /\ exec'[i][x] \in {"none", "created", "tool", "cancelling", "done"}
             /\ exec'[i][x] \in {"created", "tool", "cancelling"} =>
                  exec[i][x] \in {"created", "tool", "cancelling"}
             /\ exec'[i][x] = "created" => exec[i][x] = "created"
             /\ exec'[i][x] \in {"tool", "cancelling"} =>
                  exec[i][x] \in {"tool", "cancelling"}
  <2>1. exec'[i][x] = IF entry[i] # x THEN exec[i][x]
                      ELSE CASE exec[i][x] = "created" -> "done"
                             [] exec[i][x] = "tool" -> "cancelling"
                             [] OTHER -> exec[i][x]
    BY DEF Stop
  <2>2. exec[i][x] \in {"none", "created", "tool", "cancelling", "done"}
    BY DEF ExecutorsOK
  <2>3. CASE entry[i] # x
    BY <2>1, <2>2, <2>3
  <2>4. CASE entry[i] = x
    BY <2>1, <2>2, <2>4
  <2>5. QED
    BY <2>3, <2>4
<1>2. exec' \in [Ids -> [Slots -> {"none", "created", "tool", "cancelling", "done"}]]
  <2>1. exec' = [i \in Ids |-> [x \in Slots |-> exec'[i][x]]]
    BY DEF Stop
  <2>2. QED
    BY <1>1, <2>1
<1>3. UNCHANGED <<tasks, entry, runs>>
  BY DEF Stop, queue
<1>4. QED
  BY <1>1, <1>2, <1>3 DEF ExecutorsOK, OneExecutor, Status

(* The other steps of start and stop.                                       *)
LEMMA ManageSteps ==
  ASSUME DualAgentTypeOK, PendingListed, OneExecutor, Manage
  PROVE  /\ AgentOK' /\ ExecutorsOK' /\ OneExecutor'
         /\ UNCHANGED <<comm, cache, queue, runs, history>>
<1> USE DEF DualAgentTypeOK
<1>1. CASE Start
  <2>1. AgentOK'
    <3>1. starts + 1 \in 0 .. MaxStarts /\ loops + 1 \in 0 .. starts + 1
      BY <1>1, DualAgentAssumption DEF Start, AgentOK
    <3>2. running' = TRUE /\ starts' = starts + 1 /\ loops' = loops + 1
      BY <1>1 DEF Start
    <3>3. QED
      BY <3>1, <3>2 DEF AgentOK
  <2>2. QED
    BY <1>1, <2>1, Untouched DEF Start, queue, OneExecutor, Status
<1>2. CASE LoopEnds
  <2>1. AgentOK'
    BY <1>2 DEF LoopEnds, AgentOK
  <2>2. QED
    BY <1>2, <2>1, Untouched DEF LoopEnds, queue, OneExecutor, Status
<1>3. CASE Stop
  <2>1. AgentOK'
    BY <1>3 DEF Stop, AgentOK
  <2>2. QED
    BY <1>3, <2>1, StopSteps DEF Stop
<1>4. CASE Poll
  BY <1>4, PollSteps, Untouched
<1>5. QED
  BY <1>1, <1>2, <1>3, <1>4 DEF Manage

(* A step of an executor is a step of one task, which leaves PENDING with   *)
(* the first of them and is over with the second.                           *)
LEMMA ExecuteSteps ==
  ASSUME DualAgentTypeOK, PendingListed, OneExecutor,
         NEW i \in Ids, NEW x \in Slots, Execute(i, x)
  PROVE  /\ i \in DOMAIN tasks /\ Status(i) \in {"PENDING", "IN_PROGRESS"}
         /\ QueueOK' /\ PendingListed' /\ DOMAIN tasks' = DOMAIN tasks
         /\ Status(i)' \in Statuses \ {"PENDING"}
         /\ \A j \in DOMAIN tasks :
              /\ j # i => Status(j)' = Status(j)
              /\ tasks'[j].tool = tasks[j].tool /\ tasks'[j].node = tasks[j].node
         /\ ExecutorsOK' /\ OneExecutor'
         /\ UNCHANGED <<comm, proc, history>>
<1> USE DEF DualAgentTypeOK
<1>1. /\ i \in DOMAIN tasks
      /\ exec[i][x] = "created" => Status(i) = "PENDING"
      /\ exec[i][x] \in {"tool", "cancelling"} => Status(i) = "IN_PROGRESS"
      /\ exec[i][x] \in {"created", "tool", "cancelling"}
  BY DEF Execute, ExecStart, ToolReturns, ToolFails, OneExecutor
<1>2. ASSUME NEW s \in Statuses \ {"PENDING"}, SetStatus(i, s), Drop(i)
      PROVE  /\ QueueOK' /\ PendingListed' /\ DOMAIN tasks' = DOMAIN tasks
             /\ Status(i)' = s
             /\ \A j \in DOMAIN tasks :
                  /\ j # i => Status(j)' = Status(j)
                  /\ tasks'[j].tool = tasks[j].tool /\ tasks'[j].node = tasks[j].node
  BY <1>1, <1>2, StatusSteps
<1>3. PICK s \in Statuses \ {"PENDING"}, v \in {"tool", "done"} :
        /\ SetStatus(i, s) /\ Drop(i) /\ UNCHANGED <<comm, proc, entry, history>>
        /\ exec' = [exec EXCEPT ![i][x] = v]
        /\ v = "tool" => s = "IN_PROGRESS"
        /\ runs' = [runs EXCEPT ![i] = @ + 1] \/ runs' = runs
  <2>1. CASE ExecStart(i, x)
    BY <2>1 DEF ExecStart, Statuses
  <2>2. CASE ToolReturns(i, x)
    BY <2>2 DEF ToolReturns, Statuses
  <2>3. CASE ToolFails(i, x)
    BY <2>3 DEF ToolFails, Statuses
  <2>4. QED
    BY <2>1, <2>2, <2>3 DEF Execute
<1>4. ASSUME NEW j \in Ids, NEW y \in Slots
      PROVE  exec'[j][y] = IF j = i /\ y = x THEN v ELSE exec[j][y]
  BY <1>3 DEF ExecutorsOK
<1>5. ExecutorsOK'
  <2>1. runs' \in [Ids -> Nat]
    BY <1>3 DEF ExecutorsOK
  <2>2. exec' \in [Ids -> [Slots -> {"none", "created", "tool", "cancelling", "done"}]]
    BY <1>3 DEF ExecutorsOK
  <2>3. QED
    BY <1>3, <2>1, <2>2 DEF ExecutorsOK
<1>6. /\ DOMAIN tasks' = DOMAIN tasks /\ Status(i)' = s
      /\ \A j \in DOMAIN tasks : j # i => Status(j)' = Status(j)
      /\ entry' = entry
  BY <1>2, <1>3
<1>7. \A y \in Slots : y # x => exec[i][y] \notin {"created", "tool", "cancelling"}
  BY <1>1 DEF OneExecutor
<1>8. OneExecutor'
  <2> SUFFICES ASSUME NEW j \in Ids, NEW y \in Slots,
                      exec'[j][y] \in {"created", "tool", "cancelling"}
               PROVE  /\ j \in DOMAIN tasks' /\ entry'[j] = y
                      /\ exec'[j][y] = "created" => Status(j)' = "PENDING"
                      /\ exec'[j][y] \in {"tool", "cancelling"} =>
                           Status(j)' = "IN_PROGRESS"
    BY DEF OneExecutor
  <2>1. CASE j = i
    <3>1. y = x /\ exec'[j][y] = "tool"
      BY <1>3, <1>4, <1>7, <2>1
    <3>2. entry[i] = x
      BY <1>1 DEF OneExecutor
    <3>3. QED
      BY <1>1, <1>3, <1>4, <1>6, <2>1, <3>1, <3>2
  <2>2. CASE j # i
    BY <1>4, <1>6, <2>2 DEF OneExecutor
  <2>3. QED
    BY <2>1, <2>2
<1>9. QED
  BY <1>1, <1>2, <1>3, <1>5, <1>8

LEMMA TypesPreserved ==
  ASSUME DualAgentTypeOK, PendingListed, OneExecutor, [Next]_vars
  PROVE  DualAgentTypeOK' /\ PendingListed' /\ OneExecutor'
<1> USE DEF DualAgentTypeOK
<1>0. ASSUME UNCHANGED <<queue, exec, entry>>
      PROVE  PendingListed' /\ OneExecutor'
  BY <1>0 DEF PendingListed, OneExecutor, Status, queue
<1>1. CASE UNCHANGED vars
  <2>1. UNCHANGED <<comm, cache, queue, proc, exec, entry, runs, history, tasks>>
    BY <1>1 DEF vars, queue
  <2>2. QED
    BY <1>0, <2>1, Untouched
<1>2. CASE Talk
  BY <1>0, <1>2, TalkTypes, Untouched
<1>3. CASE HandleTool
  <2>1. /\ QueueOK' /\ PendingListed' /\ waiting' \in DOMAIN tasks'
        /\ DOMAIN tasks \subseteq DOMAIN tasks'
        /\ \A j \in DOMAIN tasks : Status(j)' = Status(j)
    BY <1>3, PushSteps DEF ConversationOK, Status
  <2>2. UNCHANGED <<current, completed, tts, cache, proc, exec, entry, runs, history>>
    BY <1>3 DEF HandleTool
  <2>3. ConversationOK'
    BY <2>1, <2>2 DEF ConversationOK, history
  <2>4. OneExecutor'
    BY <2>1, <2>2 DEF OneExecutor
  <2>5. QED
    BY <2>1, <2>2, <2>3, <2>4, Untouched
<1>4. CASE Manage
  <2>1. UNCHANGED <<tasks, pending>>
    BY <1>4, ManageSteps DEF queue
  <2>2. PendingListed'
    BY <2>1 DEF PendingListed, Status
  <2>3. QED
    BY <1>4, <2>1, <2>2, ManageSteps, Untouched
<1>5. ASSUME NEW i \in Ids, TimeOut(i)
      PROVE  DualAgentTypeOK' /\ PendingListed' /\ OneExecutor'
  <2>1. UNCHANGED <<comm, cache, proc, exec, entry, runs, history>>
    BY <1>5 DEF TimeOut
  <2>2. /\ QueueOK' /\ PendingListed' /\ DOMAIN tasks' = DOMAIN tasks
        /\ \A j \in DOMAIN tasks : Status(j)' = Status(j)
    BY <1>5, TimeOutSteps
  <2>3. OneExecutor'
    BY <2>1, <2>2 DEF OneExecutor
  <2>4. QED
    BY <2>1, <2>2, <2>3, Untouched
<1>6. ASSUME NEW i \in Ids, NEW x \in Slots, Execute(i, x)
      PROVE  DualAgentTypeOK' /\ PendingListed' /\ OneExecutor'
  <2>1. /\ QueueOK' /\ PendingListed' /\ ExecutorsOK' /\ OneExecutor'
        /\ i \in DOMAIN tasks /\ DOMAIN tasks' = DOMAIN tasks
        /\ UNCHANGED <<comm, proc, history>>
    BY <1>6, ExecuteSteps
  <2>2. cache' \in [Tools -> {NoTask} \cup DOMAIN tasks']
    <3>1. CASE cache' = cache
      BY <2>1, <3>1 DEF ConversationOK
    <3>2. CASE cache' = [cache EXCEPT ![tasks[i].tool] = i]
      BY <2>1, <3>2 DEF ConversationOK
    <3>3. QED
      BY <1>6, <3>1, <3>2 DEF Execute, ExecStart, ToolReturns, ToolFails
  <2>3. ConversationOK'
    BY <2>1, <2>2 DEF ConversationOK, comm, history
  <2>4. QED
    BY <2>1, <2>3, Untouched
<1>7. QED
  BY <1>1, <1>2, <1>3, <1>4, <1>5, <1>6, NextCases

LEMMA InitialTypes ==
  ASSUME Init
  PROVE  DualAgentTypeOK /\ PendingListed /\ OneExecutor
<1>1. tasks = <<>> /\ pending = <<>> /\ DOMAIN tasks = {} /\ DOMAIN pending = {}
  BY DEF Init
<1>2. PendingListed
  <2>1. IsInjective(pending) /\ Range(pending) = {}
    BY <1>1 DEF Range, IsInjective
  <2>2. {i \in DOMAIN tasks : Status(i) = "PENDING"} = {}
    BY <1>1
  <2>3. QED
    BY <2>1, <2>2 DEF PendingListed
<1>3. QueueOK
  BY <1>1, DualAgentAssumption, EmptySeq DEF QueueOK
<1>4. ConversationOK
  BY DualAgentAssumption DEF Init, ConversationOK
<1>5. AgentOK
  <2>1. running = FALSE /\ starts = 0 /\ loops = 0
    BY DEF Init
  <2>2. 0 \in 0 .. MaxStarts /\ 0 \in 0 .. 0
    BY DualAgentAssumption
  <2>3. QED
    BY <2>1, <2>2 DEF AgentOK
<1>6. ExecutorsOK /\ OneExecutor
  <2>1. /\ exec = [i \in Ids |-> [x \in Slots |-> "none"]]
        /\ entry = [i \in Ids |-> 0] /\ runs = [i \in Ids |-> 0]
    BY DEF Init
  <2>2. \A i \in Ids, x \in Slots : exec[i][x] = "none"
    BY <2>1
  <2>3. OneExecutor
    BY <2>2 DEF OneExecutor
  <2>4. QED
    BY <2>1, <2>3 DEF ExecutorsOK
<1>7. QED
  BY <1>2, <1>3, <1>4, <1>5, <1>6 DEF DualAgentTypeOK

(* Every variable keeps its type: a task that is awaited, cached or told is *)
(* in the queue.                                                            *)
THEOREM TypeCorrect == Spec => []DualAgentTypeOK
BY InitialTypes, TypesPreserved, PTL DEF Spec

(* The pending list and the statuses of the tasks say the same, at every    *)
(* step of pushing, starting, cancelling and finishing a task, and with any *)
(* number of poll loops: no task is listed twice, dropped while pending or  *)
(* listed when it is not.                                                   *)
THEOREM ListIsStatus == Spec => []PendingListed
BY InitialTypes, TypesPreserved, PTL DEF Spec

LEMMA OneExecutorAlways == Spec => []OneExecutor
BY InitialTypes, TypesPreserved, PTL DEF Spec
-----------------------------------------------------------------------------
(* A tool is called once per task, and a task that is over stays so. *)

(* The only step that calls the tool of a task takes it from PENDING to     *)
(* IN_PROGRESS, and no step takes it back.                                  *)
LEMMA StatusMoves ==
  ASSUME DualAgentTypeOK, PendingListed, OneExecutor, [Next]_vars
  PROVE  /\ DOMAIN tasks \subseteq DOMAIN tasks'
         /\ \A i \in DOMAIN tasks :
              /\ tasks'[i].tool = tasks[i].tool /\ tasks'[i].node = tasks[i].node
              /\ Status(i)' # Status(i) =>
                   /\ Status(i) \in {"PENDING", "IN_PROGRESS"}
                   /\ Status(i)' # "PENDING"
<1> USE DEF DualAgentTypeOK
<1>1. CASE UNCHANGED tasks
  BY <1>1 DEF Status
<1>2. CASE Talk \/ Manage \/ UNCHANGED vars
  BY <1>1, <1>2, TalkTypes, ManageSteps DEF vars, queue
<1>3. CASE HandleTool
  BY <1>3, PushSteps DEF ConversationOK, Status
<1>4. ASSUME NEW i \in Ids, TimeOut(i)
      PROVE  /\ DOMAIN tasks' = DOMAIN tasks
             /\ \A j \in DOMAIN tasks :
                  /\ Status(j)' = Status(j)
                  /\ tasks'[j].tool = tasks[j].tool /\ tasks'[j].node = tasks[j].node
  BY <1>4, TimeOutSteps
<1>5. ASSUME NEW i \in Ids, NEW x \in Slots, Execute(i, x)
      PROVE  /\ DOMAIN tasks' = DOMAIN tasks
             /\ \A j \in DOMAIN tasks :
                  /\ tasks'[j].tool = tasks[j].tool /\ tasks'[j].node = tasks[j].node
                  /\ Status(j)' # Status(j) =>
                       /\ Status(j) \in {"PENDING", "IN_PROGRESS"}
                       /\ Status(j)' # "PENDING"
  BY <1>5, ExecuteSteps
<1>6. QED
  BY <1>2, <1>3, <1>4, <1>5, NextCases

LEMMA CalledOnLeavingPreserved ==
  ASSUME DualAgentTypeOK, PendingListed, OneExecutor, CalledOnLeaving, [Next]_vars
  PROVE  CalledOnLeaving'
<1> USE DEF DualAgentTypeOK
<1>1. CASE UNCHANGED runs
  BY <1>1, StatusMoves DEF CalledOnLeaving
<1>2. ASSUME NEW i \in Ids, NEW x \in Slots, ExecStart(i, x)
      PROVE  CalledOnLeaving'
  <2>1. Status(i) = "PENDING" /\ i \in DOMAIN tasks
    BY <1>2 DEF ExecStart, OneExecutor
  <2>2. Status(i)' # "PENDING" /\ i \in DOMAIN tasks'
    BY <1>2, <2>1, ExecuteSteps DEF Execute
  <2>3. \A j \in Ids : runs'[j] = IF j = i THEN runs[j] + 1 ELSE runs[j]
    BY <1>2 DEF ExecStart, ExecutorsOK
  <2>4. runs[i] = 0
    BY <2>1 DEF CalledOnLeaving
  <2>5. runs'[i] = 1
    BY <2>3, <2>4
  <2>6. QED
    BY <2>2, <2>3, <2>5, StatusMoves DEF CalledOnLeaving
<1>3. UNCHANGED runs \/ \E i \in Ids, x \in Slots : ExecStart(i, x)
  <2>1. Talk \/ Manage \/ UNCHANGED vars => UNCHANGED runs
    BY TalkTypes, ManageSteps DEF vars
  <2>2. HandleTool \/ (\E i \in Ids : TimeOut(i)) => UNCHANGED runs
    BY DEF HandleTool, TimeOut
  <2>3. ASSUME NEW i \in Ids, NEW x \in Slots, Execute(i, x)
        PROVE  UNCHANGED runs \/ ExecStart(i, x)
    BY <2>3 DEF Execute, ToolReturns, ToolFails
  <2>4. QED
    BY <2>1, <2>2, <2>3, NextCases
<1>4. QED
  BY <1>1, <1>2, <1>3

(* However often the processing agent is stopped and started, with as many  *)
(* poll loops as that leaves behind and executors cancelled before they     *)
(* begin, the tool of a task is called at most once.                        *)
THEOREM ToolIsCalledOnce == Spec => []ToolCalledOnce
<1>1. Init => CalledOnLeaving
  BY DEF Init, CalledOnLeaving
<1>2. CalledOnLeaving => ToolCalledOnce
  BY DEF CalledOnLeaving, ToolCalledOnce
<1>3. QED
  BY <1>1, <1>2, CalledOnLeavingPreserved, TypeCorrect, ListIsStatus, OneExecutorAlways,
     PTL DEF Spec

(* A task that has completed or failed stays so: no late result, second     *)
(* failure or cancellation changes its status.                              *)
THEOREM FinishedStays == Spec => DoneStays
<1>1. ASSUME DualAgentTypeOK, PendingListed, OneExecutor, [Next]_vars
      PROVE  [\A i \in DOMAIN tasks :
                Status(i) \in {"COMPLETED", "FAILED"} => tasks'[i].status = Status(i)]_vars
  BY <1>1, StatusMoves DEF Status
<1>2. QED
  BY <1>1, TypeCorrect, ListIsStatus, OneExecutorAlways, PTL DEF Spec, DoneStays
-----------------------------------------------------------------------------
(* What the conversation says of the results. *)

LEMMA WaitsAtNodePreserved ==
  ASSUME DualAgentTypeOK, PendingListed, OneExecutor, WaitsAtNode, [Next]_vars
  PROVE  WaitsAtNode'
<1> USE DEF DualAgentTypeOK
<1>1. CASE UNCHANGED <<waiting, current>>
  BY <1>1, StatusMoves DEF WaitsAtNode, ConversationOK, NoTask
<1>2. CASE waiting' = NoTask
  BY <1>2 DEF WaitsAtNode
<1>3. CASE HandleTool
  <2>1. tasks'[waiting'].node = current /\ current' = current
    BY <1>3, PushSteps DEF ConversationOK, HandleTool
  <2>2. QED
    BY <2>1 DEF WaitsAtNode
<1>4. UNCHANGED <<waiting, current>> \/ waiting' = NoTask \/ HandleTool
  <2>1. CASE Talk
    BY <2>1 DEF Talk, Speech, HandleSpeak, HandleExplanation, CheckCompleted,
            CheckFailed, CheckTimedOut
  <2>2. CASE Manage \/ UNCHANGED vars
    BY <2>2, ManageSteps DEF vars, comm
  <2>3. CASE \E i \in Ids : TimeOut(i)
    BY <2>3 DEF TimeOut, comm
  <2>4. CASE \E i \in Ids, x \in Slots : Execute(i, x)
    BY <2>4, ExecuteSteps DEF comm
  <2>5. QED
    BY <2>1, <2>2, <2>3, <2>4, NextCases
<1>5. QED
  BY <1>1, <1>2, <1>3, <1>4

LEMMA ToolNodesAnsweredPreserved ==
  ASSUME DualAgentTypeOK, PendingListed, OneExecutor, WaitsAtNode, ToolNodesAnswered,
         [Next]_vars
  PROVE  ToolNodesAnswered'
<1> USE DEF DualAgentTypeOK
<1>1. \A n \in completed : Kind[n] = "tool" =>
        \E i \in DOMAIN tasks' : tasks'[i].node = n /\ Status(i)' = "COMPLETED"
  <2>1. \A i \in DOMAIN tasks : Status(i) = "COMPLETED" => Status(i)' = "COMPLETED"
    BY StatusMoves
  <2>2. QED
    BY <2>1, StatusMoves DEF ToolNodesAnswered
<1>2. CASE completed' = completed
  BY <1>1, <1>2 DEF ToolNodesAnswered
<1>3. CASE HandleSpeak \/ HandleExplanation
  <2>1. completed' = completed \cup {current} /\ Kind[current] # "tool"
    BY <1>3 DEF HandleSpeak, HandleExplanation, Leave
  <2>2. QED
    BY <1>1, <2>1 DEF ToolNodesAnswered
<1>4. CASE CheckCompleted
  <2>1. PICK w \in DOMAIN tasks : Status(w) = "COMPLETED" /\ tasks[w].node = current
    BY <1>4 DEF CheckCompleted, ConversationOK, WaitsAtNode
  <2>2. completed' \subseteq completed \cup {current}
    BY <1>4 DEF CheckCompleted, Leave
  <2>3. w \in DOMAIN tasks' /\ tasks'[w].node = current /\ Status(w)' = "COMPLETED"
    BY <2>1, StatusMoves
  <2>4. QED
    BY <1>1, <2>2, <2>3 DEF ToolNodesAnswered
<1>5. completed' = completed \/ HandleSpeak \/ HandleExplanation \/ CheckCompleted
  <2>1. CASE Talk
    BY <2>1 DEF Talk, Speech, CheckFailed, CheckTimedOut
  <2>2. CASE Manage \/ UNCHANGED vars
    BY <2>2, ManageSteps DEF vars, comm
  <2>3. CASE HandleTool \/ \E i \in Ids : TimeOut(i)
    BY <2>3 DEF HandleTool, TimeOut, comm
  <2>4. CASE \E i \in Ids, x \in Slots : Execute(i, x)
    BY <2>4, ExecuteSteps DEF comm
  <2>5. QED
    BY <2>1, <2>2, <2>3, <2>4, NextCases
<1>6. QED
  BY <1>2, <1>3, <1>4, <1>5

LEMMA WaitsAtNodeAlways == Spec => []WaitsAtNode
<1>1. Init => WaitsAtNode
  BY DEF Init, WaitsAtNode
<1>2. QED
  BY <1>1, WaitsAtNodePreserved, TypeCorrect, ListIsStatus, OneExecutorAlways, PTL DEF Spec

(* The conversation leaves a tool node only with the result of a task that  *)
(* this node pushed, whatever fails, times out or is asked again meanwhile. *)
THEOREM AnsweredBeforeLeft == Spec => []ToolNodesAnswered
<1>1. Init => ToolNodesAnswered
  BY DEF Init, ToolNodesAnswered
<1>2. QED
  BY <1>1, ToolNodesAnsweredPreserved, WaitsAtNodeAlways, TypeCorrect, ListIsStatus,
     OneExecutorAlways, PTL DEF Spec

(* The result of a completed task is cached under the tool of the task, by  *)
(* its executor and again by the conversation.                              *)
LEMMA CachedIsCompletedPreserved ==
  ASSUME DualAgentTypeOK, PendingListed, OneExecutor, CachedIsCompleted, [Next]_vars
  PROVE  CachedIsCompleted'
<1> USE DEF DualAgentTypeOK
<1>1. \A t \in Tools : cache[t] # NoTask =>
        tasks'[cache[t]].tool = t /\ tasks'[cache[t]].status = "COMPLETED"
  BY StatusMoves DEF CachedIsCompleted, ConversationOK, Status
<1>2. CASE cache' = cache
  BY <1>1, <1>2 DEF CachedIsCompleted, Status
<1>3. ASSUME NEW i \in DOMAIN tasks, cache' = [cache EXCEPT ![tasks[i].tool] = i],
             tasks'[i].status = "COMPLETED"
      PROVE  CachedIsCompleted'
  <2>1. tasks'[i].tool = tasks[i].tool
    BY <1>3, StatusMoves
  <2>2. \A t \in Tools : cache'[t] = IF t = tasks[i].tool THEN i ELSE cache[t]
    BY <1>3 DEF ConversationOK
  <2>3. QED
    BY <1>1, <1>3, <2>1, <2>2 DEF CachedIsCompleted, Status
<1>4. ASSUME cache' = [cache EXCEPT ![Tool[current]] = NoTask]
      PROVE  CachedIsCompleted'
  <2>1. \A t \in Tools : cache'[t] = cache[t] \/ cache'[t] = NoTask
    BY <1>4 DEF ConversationOK
  <2>2. QED
    BY <1>1, <2>1 DEF CachedIsCompleted, Status
<1>5. CASE CheckCompleted
  <2>1. PICK w \in DOMAIN tasks :
          Status(w) = "COMPLETED" /\ cache' = [cache EXCEPT ![tasks[w].tool] = w]
    BY <1>5 DEF CheckCompleted, ConversationOK
  <2>2. tasks'[w].status = "COMPLETED"
    BY <2>1, StatusMoves DEF Status
  <2>3. QED
    BY <1>3, <2>1, <2>2
<1>6. CASE Talk
  BY <1>2, <1>4, <1>5, <1>6 DEF Talk, Speech, HandleSpeak, HandleExplanation, CheckFailed,
     CheckTimedOut
<1>7. CASE HandleTool \/ (\E i \in Ids : TimeOut(i))
  BY <1>2, <1>7 DEF HandleTool, TimeOut
<1>8. CASE Manage \/ UNCHANGED vars
  BY <1>2, <1>8, ManageSteps DEF vars
<1>9. ASSUME NEW i \in Ids, NEW x \in Slots, Execute(i, x)
      PROVE  CachedIsCompleted'
  <2>1. CASE ToolReturns(i, x)
    <3>1. /\ i \in DOMAIN tasks /\ tasks[i] \in Task
          /\ tasks' = [tasks EXCEPT ![i].status = "COMPLETED"]
      BY <1>9, <2>1, ExecuteSteps, DomainIs DEF ToolReturns, SetStatus
    <3>2. tasks'[i].status = "COMPLETED"
      BY <3>1 DEF Task
    <3>3. QED
      BY <1>3, <2>1, <3>1, <3>2 DEF ToolReturns
  <2>2. CASE ExecStart(i, x) \/ ToolFails(i, x)
    BY <1>2, <2>2 DEF ExecStart, ToolFails
  <2>3. QED
    BY <1>9, <2>1, <2>2 DEF Execute
<1>10. QED
  BY <1>6, <1>7, <1>8, <1>9, NextCases

(* As long as no task is given up, at most the awaited task is unfinished,  *)
(* so that a result other than the one told last can only be the awaited.   *)
LEMMA OnlyAwaitedPreserved ==
  ASSUME DualAgentTypeOK, PendingListed, OneExecutor, CachedIsCompleted, OnlyAwaited,
         [Next]_vars
  PROVE  OnlyAwaited'
<1> USE DEF DualAgentTypeOK
<1> SUFFICES ASSUME ~gaveUp, ~gaveUp' PROVE OnlyAwaited'
  <2>1. ~gaveUp' => ~gaveUp
    <3>1. CASE Talk
      BY <3>1 DEF Talk, Speech, HandleSpeak, HandleExplanation, CheckCompleted,
              CheckFailed, CheckTimedOut, history
    <3>2. CASE HandleTool \/ \E i \in Ids : TimeOut(i)
      BY <3>2 DEF HandleTool, TimeOut, history
    <3>3. CASE Manage \/ UNCHANGED vars
      BY <3>3, ManageSteps DEF vars, history
    <3>4. CASE \E i \in Ids, x \in Slots : Execute(i, x)
      BY <3>4, ExecuteSteps DEF history
    <3>5. QED
      BY <3>1, <3>2, <3>3, <3>4, NextCases
  <2>2. QED
    BY <2>1 DEF OnlyAwaited
<1>1. /\ \A i \in DOMAIN tasks : Status(i) \in {"PENDING", "IN_PROGRESS"} => i = waiting
      /\ \A t \in Tools : cache[t] \in {NoTask, told[t], waiting}
  BY DEF OnlyAwaited
<1>2. ASSUME DOMAIN tasks' = DOMAIN tasks, UNCHANGED <<waiting, told>>,
             \A i \in DOMAIN tasks : Status(i)' # Status(i) =>
               Status(i) \in {"PENDING", "IN_PROGRESS"},
             \A t \in Tools : cache'[t] \in {NoTask, cache[t], waiting}
      PROVE  OnlyAwaited'
  BY <1>1, <1>2 DEF OnlyAwaited
<1>3. CASE Speech \/ HandleSpeak \/ HandleExplanation
  <2>1. UNCHANGED <<waiting, told, tasks>>
    BY <1>3 DEF Speech, HandleSpeak, HandleExplanation, queue, history
  <2>2. \A t \in Tools : cache'[t] \in {NoTask, cache[t], waiting}
    BY <1>3 DEF Speech, HandleSpeak, HandleExplanation, ConversationOK
  <2>3. QED
    BY <1>2, <2>1, <2>2 DEF Status
<1>4. CASE CheckFailed
  <2>1. /\ UNCHANGED <<tasks, told, cache>> /\ waiting' = NoTask
        /\ waiting # NoTask /\ Status(waiting) = "FAILED"
    BY <1>4 DEF CheckFailed, ConversationOK, queue, history
  <2>2. \A t \in Tools : cache[t] # waiting
    BY <2>1 DEF CachedIsCompleted, ConversationOK
  <2>3. QED
    BY <1>1, <2>1, <2>2 DEF OnlyAwaited, Status
<1>5. CASE CheckCompleted
  <2>1. PICK w \in DOMAIN tasks :
          /\ w = waiting /\ w # NoTask /\ Status(w) = "COMPLETED"
          /\ cache' = [cache EXCEPT ![tasks[w].tool] = w]
          /\ told' = [told EXCEPT ![tasks[w].tool] = w]
          /\ waiting' = NoTask /\ UNCHANGED tasks
    BY <1>5 DEF CheckCompleted, ConversationOK, queue
  <2>2. \A t \in Tools :
          /\ t = tasks[w].tool => cache'[t] = w /\ told'[t] = w
          /\ t # tasks[w].tool => cache'[t] = cache[t] /\ told'[t] = told[t]
    BY <2>1 DEF ConversationOK
  <2>3. \A t \in Tools : cache[t] = w => t = tasks[w].tool
    BY <2>1 DEF CachedIsCompleted, ConversationOK
  <2>4. \A t \in Tools : cache'[t] \in {NoTask, told'[t], waiting'}
    BY <1>1, <2>1, <2>2, <2>3
  <2>5. \A i \in DOMAIN tasks' : Status(i)' \notin {"PENDING", "IN_PROGRESS"}
    BY <1>1, <2>1 DEF Status
  <2>6. QED
    BY <2>4, <2>5 DEF OnlyAwaited
<1>6. CASE HandleTool
  <2>1. waiting = NoTask /\ UNCHANGED <<cache, told>>
    BY <1>6 DEF HandleTool, history
  <2>2. \A i \in DOMAIN tasks' : i # waiting' => i \in DOMAIN tasks /\ tasks'[i] = tasks[i]
    BY <1>6, PushSteps DEF ConversationOK
  <2>3. NoTask \notin DOMAIN tasks
    BY DomainIs DEF Ids, NoTask
  <2>4. QED
    BY <1>1, <2>1, <2>2, <2>3 DEF OnlyAwaited, Status
<1>7. CASE Manage \/ UNCHANGED vars
  <2>1. UNCHANGED <<waiting, told, tasks, cache>>
    BY <1>7, ManageSteps DEF vars, queue, comm, history
  <2>2. QED
    BY <1>2, <2>1 DEF Status
<1>8. ASSUME NEW i \in Ids, TimeOut(i) PROVE OnlyAwaited'
  <2>1. UNCHANGED <<waiting, told, cache>>
    BY <1>8 DEF TimeOut, comm, history
  <2>2. QED
    BY <1>2, <1>8, <2>1, TimeOutSteps
<1>9. ASSUME NEW i \in Ids, NEW x \in Slots, Execute(i, x) PROVE OnlyAwaited'
  <2>1. /\ i \in DOMAIN tasks /\ i = waiting /\ UNCHANGED <<waiting, told>>
        /\ DOMAIN tasks' = DOMAIN tasks
    BY <1>1, <1>9, ExecuteSteps DEF comm, history
  <2>2. cache' = cache \/ cache' = [cache EXCEPT ![tasks[i].tool] = i]
    BY <1>9 DEF Execute, ExecStart, ToolReturns, ToolFails
  <2>3. \A t \in Tools : cache'[t] \in {NoTask, cache[t], waiting}
    BY <2>1, <2>2 DEF ConversationOK
  <2>4. QED
    BY <1>2, <2>1, <2>3, StatusMoves
<1>10. QED
  <2>1. ~CheckTimedOut
    BY DEF CheckTimedOut
  <2>2. QED
    BY <1>3, <1>4, <1>5, <1>6, <1>7, <1>8, <1>9, <2>1, NextCases DEF Talk

(* As long as no task was given up, an explanation is of the result told to *)
(* the customer for that tool, whichever node asked for it and however      *)
(* often the executors have cached results since.                           *)
THEOREM ExplanationIsOfWhatWasTold == Spec => ExplainsWhatWasTold
<1>1. Init => CachedIsCompleted /\ OnlyAwaited
  BY DEF Init, CachedIsCompleted, OnlyAwaited
<1>2. ASSUME DualAgentTypeOK, PendingListed, OneExecutor, OnlyAwaited, [Next]_vars
      PROVE  [explained' # explained /\ explained' # NoTask =>
                gaveUp \/ explained' = told[Tool[current]]]_vars
  <2> SUFFICES ASSUME Next, explained' # explained, explained' # NoTask, ~gaveUp
               PROVE  explained' = told[Tool[current]]
    BY <1>2
  <2>1. HandleExplanation
    <3>1. CASE Talk
      BY <3>1 DEF Talk, Speech, HandleSpeak, CheckCompleted, CheckFailed, CheckTimedOut,
              history
    <3>2. CASE HandleTool \/ \E i \in Ids : TimeOut(i)
      BY <3>2 DEF HandleTool, TimeOut, history
    <3>3. CASE Manage
      BY <1>2, <3>3, ManageSteps DEF history
    <3>4. CASE \E i \in Ids, x \in Slots : Execute(i, x)
      BY <1>2, <3>4, ExecuteSteps DEF history
    <3>5. QED
      BY <3>1, <3>2, <3>3, <3>4, NextCases
  <2>2. explained' = cache[Tool[current]] /\ waiting = NoTask
    BY <2>1 DEF HandleExplanation
  <2>3. Tool[current] \in Tools
    BY <1>2 DEF DualAgentTypeOK, ConversationOK, Tools
  <2>4. QED
    BY <1>2, <2>2, <2>3 DEF OnlyAwaited
<1>3. QED
  BY <1>1, <1>2, CachedIsCompletedPreserved, OnlyAwaitedPreserved, TypeCorrect,
     ListIsStatus, OneExecutorAlways, PTL DEF Spec, ExplainsWhatWasTold
=============================================================================
