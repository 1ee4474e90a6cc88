----------------------------- MODULE SonyFlake -----------------------------
(***************************************************************************)
(* The id generator behind posts and tokens: SonyFlake.next_id, called by   *)
(* the threads of several processes.  An id packs the ticks of 10 ms since  *)
(* an epoch, a sequence number and the machine id.  Processes are recycled, *)
(* and a fault sets the wall clock back.                                    *)
(***************************************************************************)
EXTENDS Integers, FiniteSets

CONSTANTS
  Procs,        \* processes, each with its own generator
  Threads,      \* threads that ask for ids
  Proc,         \* the process of a thread
  Machine,      \* the machine id of a process
  MachineSize,  \* machine ids are below it (2^16)
  SeqSize,      \* sequence numbers are below it (2^8)
  TimeLimit,    \* ids of this time or later do not fit (2^39)
  SleepFactor,  \* a generator that is ahead by n ticks sleeps n times this (10)
  MaxClock,     \* bound: the wall clock stops here
  MaxBoots,     \* bound on restarts
  MaxSetBacks   \* bound on the times the wall clock is set back

ASSUME ConstantsAssumption ==
  /\ Proc \in [Threads -> Procs]
  /\ MachineSize \in Nat
  /\ Machine \in [Procs -> 0 .. MachineSize - 1]
  /\ SeqSize \in Nat \ {0}
  /\ SleepFactor \in Nat \ {0}
  /\ TimeLimit \in Nat
  /\ MaxClock \in Nat /\ MaxBoots \in Nat /\ MaxSetBacks \in Nat

VARIABLES
  wall,       \* datetime.now, in ticks since the epoch
  elapsed,    \* elapsed_time of each generator
  sequence,   \* sequence of each generator
  mutex,      \* whether each generator's mutex is held
  pc,         \* where each thread is in next_id
  current,    \* the local current_time of a thread, 0 outside
  nap,        \* ticks a sleeping thread has left
  issued,     \* history: the ids returned by any process
  repeated,   \* history: some id was returned twice
  last,       \* history: the latest id of each process since it started, or -1
  boots, setBacks

vars == <<wall, elapsed, sequence, mutex, pc, current, nap, issued, repeated,
          last, boots, setBacks>>

clock   == <<wall, boots, setBacks>>
history == <<issued, repeated, last>>

(* to_id: the three numbers are put together by shifts. *)
Id(time, seq, machine) == (time * SeqSize + seq) * MachineSize + machine

(* Variant: ids of the limit itself are let through. *)
FitsOrMeets(time) == time <= TimeLimit

(* to_id raises over the time limit. *)
Fits(time) == time < TimeLimit

(* Variant: a generator starts from the first sequence number. *)
FirstSequence == 0

(* Variant: the mask lacks its "- 1". *)
WholeSequence == SeqSize

(* A generator starts from the last sequence number, which it never returns *)
(* in the tick it starts in: its first id there is a borrowed one.          *)
StartSequence == SeqSize - 1

(* Variant: the wrap of the sequence does not advance the time. *)
SameTime(time) == time

(* The time of a generator that has used up the sequence numbers of a tick. *)
Borrowed(time) == time + 1

Init ==
  /\ wall = 0
  /\ elapsed = [p \in Procs |-> 0]
  /\ sequence = [p \in Procs |-> StartSequence]
  /\ mutex = [p \in Procs |-> FALSE]
  /\ pc = [t \in Threads |-> "out"]
  /\ current = [t \in Threads |-> 0]
  /\ nap = [t \in Threads |-> 0]
  /\ issued = {} /\ repeated = FALSE
  /\ last = [p \in Procs |-> -1]
  /\ boots = 0 /\ setBacks = 0

(* The end of next_id: to_id and the release of the mutex; over the time    *)
(* limit to_id raises instead.                                              *)
Return(t, time, seq) ==
  LET p == Proc[t]
      id == Id(time, seq, Machine[p])
  IN /\ pc' = [pc EXCEPT ![t] = "out"]
     /\ mutex' = [mutex EXCEPT ![p] = FALSE]
     /\ IF Fits(time)
        THEN /\ issued' = issued \cup {id}
             /\ repeated' = (repeated \/ id \in issued)
             /\ last' = [last EXCEPT ![p] = id]
        ELSE UNCHANGED history

(* A thread enters next_id: it takes the mutex and reads the clock. *)
Enter(t) ==
  /\ pc[t] = "out"
  /\ ~mutex[Proc[t]]
  /\ mutex' = [mutex EXCEPT ![Proc[t]] = TRUE]
  /\ pc' = [pc EXCEPT ![t] = "read"]
  /\ current' = [current EXCEPT ![t] = wall]
  /\ UNCHANGED <<elapsed, sequence, nap, clock, history>>

(* The clock is ahead of the generator: a new time, from sequence 0. *)
NewTick(t) ==
  LET p == Proc[t]
  IN /\ pc[t] = "read"
     /\ elapsed[p] < current[t]
     /\ elapsed' = [elapsed EXCEPT ![p] = current[t]]
     /\ sequence' = [sequence EXCEPT ![p] = 0]
     /\ Return(t, current[t], 0)
     /\ current' = [current EXCEPT ![t] = 0]
     /\ UNCHANGED <<nap, clock>>

(* The same tick, or a clock that is behind: the next sequence number. *)
SameTick(t) ==
  LET p == Proc[t]
  IN /\ pc[t] = "read"
     /\ ~ elapsed[p] < current[t]
     /\ sequence[p] + 1 < SeqSize
     /\ sequence' = [sequence EXCEPT ![p] = @ + 1]
     /\ Return(t, elapsed[p], sequence[p] + 1)
     /\ current' = [current EXCEPT ![t] = 0]
     /\ UNCHANGED <<elapsed, nap, clock>>

(* The sequence wraps: the generator borrows the next tick and sleeps, with *)
(* the mutex, until the clock is past it.                                   *)
Borrow(t) ==
  LET p == Proc[t]
      overtime == Borrowed(elapsed[p]) - current[t]
  IN /\ pc[t] = "read"
     /\ ~ elapsed[p] < current[t]
     /\ sequence[p] + 1 = SeqSize
     /\ sequence' = [sequence EXCEPT ![p] = 0]
     /\ elapsed' = [elapsed EXCEPT ![p] = Borrowed(@)]
     /\ nap' = [nap EXCEPT ![t] = overtime * SleepFactor]
     /\ pc' = [pc EXCEPT ![t] = "nap"]
     /\ current' = [current EXCEPT ![t] = 0]
     /\ UNCHANGED <<mutex, clock, history>>

(* The sleep is over and the borrowed id is returned. *)
Wake(t) ==
  /\ pc[t] = "nap"
  /\ nap[t] = 0
  /\ Return(t, elapsed[Proc[t]], sequence[Proc[t]])
  /\ UNCHANGED <<elapsed, sequence, current, nap, clock>>

(* External: the wall clock advances, and with it every sleep. *)
Tick ==
  /\ wall < MaxClock
  /\ wall' = wall + 1
  /\ nap' = [t \in Threads |-> IF nap[t] > 0 THEN nap[t] - 1 ELSE 0]
  /\ UNCHANGED <<elapsed, sequence, mutex, pc, current, history, boots, setBacks>>

(* External: somebody sets the wall clock back. *)
SetBack ==
  /\ setBacks < MaxSetBacks
  /\ wall > 0
  /\ wall' \in 0 .. wall - 1
  /\ setBacks' = setBacks + 1
  /\ UNCHANGED <<elapsed, sequence, mutex, pc, current, nap, history, boots>>

(* A process dies, or is recycled, and starts again with a new generator. *)
Boot(p) ==
  /\ boots < MaxBoots
  /\ boots' = boots + 1
  /\ elapsed' = [elapsed EXCEPT ![p] = wall]
  /\ sequence' = [sequence EXCEPT ![p] = StartSequence]
  /\ mutex' = [mutex EXCEPT ![p] = FALSE]
  /\ pc' = [t \in Threads |-> IF Proc[t] = p THEN "out" ELSE pc[t]]
  /\ nap' = [t \in Threads |-> IF Proc[t] = p THEN 0 ELSE nap[t]]
  /\ current' = [t \in Threads |-> IF Proc[t] = p THEN 0 ELSE current[t]]
  /\ last' = [last EXCEPT ![p] = -1]
  /\ UNCHANGED <<wall, issued, repeated, setBacks>>

NextId(t) == Enter(t) \/ NewTick(t) \/ SameTick(t) \/ Borrow(t) \/ Wake(t)

Next ==
  \/ \E t \in Threads : NextId(t)
  \/ \E p \in Procs : Boot(p)
  \/ Tick
  \/ SetBack

Spec == Init /\ [][Next]_vars
-----------------------------------------------------------------------------
(* The type invariant. *)
FlakeTypeOK ==
  /\ wall \in Nat /\ boots \in Nat /\ setBacks \in Nat
  /\ elapsed \in [Procs -> Nat]
  /\ sequence \in [Procs -> 0 .. SeqSize - 1]
  /\ mutex \in [Procs -> BOOLEAN]
  /\ pc \in [Threads -> {"out", "read", "nap"}]
  /\ current \in [Threads -> Nat]
  /\ nap \in [Threads -> Nat]
  /\ issued \in SUBSET Nat /\ repeated \in BOOLEAN
  /\ last \in [Procs -> Nat \cup {-1}]

(* Machines have different ids if their processes do. *)
DistinctMachines == \A p, q \in Procs : Machine[p] = Machine[q] => p = q

(* No id is returned twice by any process, before or after a restart: the   *)
(* start from the last sequence number, and the sleep before a borrowed id  *)
(* is returned, keep a new generator clear of the ids of the old one.  The  *)
(* wall clock must not have been set back.                                  *)
IdsUnique == setBacks = 0 => ~repeated

(* The ids of a process increase for as long as it lives, whatever threads  *)
(* ask for them and even if the clock is set back under a sleeping thread.  *)
IdsIncrease ==
  [][\A p \in Procs : last'[p] # last[p] => last'[p] > last[p] \/ last'[p] = -1]_vars

(* Every id fits into 63 bits: it stays below the limit that the width of   *)
(* the three fields gives, with every field in its place.                   *)
IdsFit == \A id \in issued : id < TimeLimit * SeqSize * MachineSize
=============================================================================
