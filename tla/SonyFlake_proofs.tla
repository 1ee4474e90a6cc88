-------------------------- MODULE SonyFlake_proofs --------------------------
(***************************************************************************)
(* Proofs about SonyFlake: for any processes, threads, field widths and     *)
(* bounds, ids fit their width, increase while a process lives and, on      *)
(* machines of their own, are never repeated.                               *)
(***************************************************************************)
EXTENDS SonyFlake, TLAPS

(* The order of times and sequence numbers is the order of the ids of one   *)
(* machine.                                                                 *)
LEMMA IdOrder ==
  ASSUME NEW a \in Nat, NEW b \in Nat, NEW s \in 0 .. SeqSize - 1,
         NEW r \in 0 .. SeqSize - 1, NEW m \in 0 .. MachineSize - 1,
         a < b \/ (a = b /\ s < r)
  PROVE  Id(a, s, m) < Id(b, r, m)
<1> DEFINE x == a * SeqSize + s
           y == b * SeqSize + r
<1>1. SeqSize \in Nat \ {0} /\ MachineSize \in Nat \ {0}
  BY ConstantsAssumption
<1>2. x \in Nat /\ y \in Nat
  BY <1>1
<1>3. x + 1 <= y
  <2>1. CASE a < b
    <3>1. b - (a + 1) \in Nat
      BY <2>1
    <3>2. (b - (a + 1)) * SeqSize \in Nat
      BY <3>1, <1>1
    <3>3. b * SeqSize = (b - (a + 1)) * SeqSize + a * SeqSize + SeqSize
      BY <1>1
    <3>4. a * SeqSize \in Nat /\ b * SeqSize \in Nat
      BY <1>1
    <3>5. QED
      BY <3>2, <3>3, <3>4, <1>1
  <2>2. CASE a = b /\ s < r
    <3>1. a * SeqSize \in Nat
      BY <1>1
    <3>2. QED
      BY <2>2, <3>1, <1>1
  <2>3. QED
    BY <2>1, <2>2
<1> HIDE DEF x, y
<1>4. x * MachineSize + MachineSize <= y * MachineSize
  <2>1. y - (x + 1) \in Nat
    BY <1>2, <1>3
  <2>2. (y - (x + 1)) * MachineSize \in Nat
    BY <2>1, <1>1
  <2>3. y * MachineSize = (y - (x + 1)) * MachineSize + x * MachineSize + MachineSize
    BY <1>1, <1>2
  <2>4. x * MachineSize \in Nat /\ y * MachineSize \in Nat
    BY <1>1, <1>2
  <2>5. QED
    BY <2>2, <2>3, <2>4, <1>1
<1>5. x * MachineSize \in Nat /\ y * MachineSize \in Nat
  BY <1>1, <1>2
<1>6. Id(a, s, m) = x * MachineSize + m /\ Id(b, r, m) = y * MachineSize + m
  BY DEF Id, x, y
<1>7. QED
  BY <1>4, <1>5, <1>6, <1>1

(* An id is a number. *)
LEMMA IdType ==
  ASSUME NEW a \in Nat, NEW s \in 0 .. SeqSize - 1, NEW m \in 0 .. MachineSize - 1
  PROVE  Id(a, s, m) \in Nat
<1>1. SeqSize \in Nat /\ MachineSize \in Nat
  BY ConstantsAssumption
<1>2. a * SeqSize + s \in Nat
  BY <1>1
<1>3. (a * SeqSize + s) * MachineSize \in Nat
  BY <1>1, <1>2
<1>4. QED
  BY <1>1, <1>3 DEF Id

(* Ids of different machines differ. *)
LEMMA IdMachine ==
  ASSUME NEW a \in Nat, NEW b \in Nat, NEW s \in 0 .. SeqSize - 1,
         NEW r \in 0 .. SeqSize - 1, NEW m \in 0 .. MachineSize - 1,
         NEW n \in 0 .. MachineSize - 1, Id(a, s, m) = Id(b, r, n)
  PROVE  m = n
<1> DEFINE x == a * SeqSize + s
           y == b * SeqSize + r
<1>1. SeqSize \in Nat /\ MachineSize \in Nat
  BY ConstantsAssumption
<1>2. x \in Nat /\ y \in Nat
  BY <1>1
<1>3. x * MachineSize + m = y * MachineSize + n
  BY DEF Id
<1> HIDE DEF x, y
<1>4. ASSUME NEW u \in Nat, NEW v \in Nat, u < v
      PROVE  u * MachineSize + MachineSize <= v * MachineSize
  <2>1. v - (u + 1) \in Nat
    BY <1>4
  <2>2. (v - (u + 1)) * MachineSize \in Nat
    BY <2>1, <1>1
  <2>3. v * MachineSize = (v - (u + 1)) * MachineSize + u * MachineSize + MachineSize
    BY <1>1
  <2>4. u * MachineSize \in Nat /\ v * MachineSize \in Nat
    BY <1>1
  <2>5. QED
    BY <2>2, <2>3, <2>4, <1>1
<1>5. x * MachineSize \in Nat /\ y * MachineSize \in Nat
  BY <1>1, <1>2
<1>6. CASE x < y
  <2>1. x * MachineSize + MachineSize <= y * MachineSize
    BY <1>2, <1>4, <1>6
  <2>2. QED
    BY <2>1, <1>1, <1>3, <1>5
<1>7. CASE y < x
  <2>1. y * MachineSize + MachineSize <= x * MachineSize
    BY <1>2, <1>4, <1>7
  <2>2. QED
    BY <2>1, <1>1, <1>3, <1>5
<1>8. CASE x = y
  BY <1>8, <1>1, <1>3, <1>5
<1>9. QED
  BY <1>2, <1>6, <1>7, <1>8

(* An id of a time below the limit has all its fields in their places. *)
LEMMA IdFits ==
  ASSUME NEW a \in Nat, NEW s \in 0 .. SeqSize - 1, NEW m \in 0 .. MachineSize - 1,
         a < TimeLimit
  PROVE  Id(a, s, m) < TimeLimit * SeqSize * MachineSize
<1> DEFINE x == a * SeqSize + s
           y == TimeLimit * SeqSize
<1>1. SeqSize \in Nat \ {0} /\ MachineSize \in Nat /\ TimeLimit \in Nat
  BY ConstantsAssumption
<1>2. x \in Nat /\ y \in Nat
  BY <1>1
<1>3. x + 1 <= y
  <2>1. TimeLimit - (a + 1) \in Nat
    BY <1>1
  <2>2. (TimeLimit - (a + 1)) * SeqSize \in Nat
    BY <2>1, <1>1
  <2>3. TimeLimit * SeqSize = (TimeLimit - (a + 1)) * SeqSize + a * SeqSize + SeqSize
    BY <1>1
  <2>4. a * SeqSize \in Nat
    BY <1>1
  <2>5. QED
    BY <2>2, <2>3, <2>4, <1>1
<1> HIDE DEF x, y
<1>4. (y - (x + 1)) * MachineSize \in Nat
  <2>1. y - (x + 1) \in Nat
    BY <1>2, <1>3
  <2>2. QED
    BY <2>1, <1>1
<1>5. y * MachineSize = (y - (x + 1)) * MachineSize + x * MachineSize + MachineSize
  BY <1>1, <1>2
<1>6. x * MachineSize \in Nat /\ y * MachineSize \in Nat
  BY <1>1, <1>2
<1>7. Id(a, s, m) = x * MachineSize + m /\ y * MachineSize = TimeLimit * SeqSize * MachineSize
  BY DEF Id, x, y
<1>8. QED
  BY <1>1, <1>4, <1>5, <1>6, <1>7
-----------------------------------------------------------------------------
(* The inductive invariant, in named parts. *)
Inside(t) == pc[t] # "out"

(* The mutex admits one thread of a process. *)
MutexInv ==
  \A t \in Threads : Inside(t) =>
    /\ mutex[Proc[t]]
    /\ \A u \in Threads : Inside(u) /\ Proc[u] = Proc[t] => u = t

(* The id a generator stands at, and whether it is still to be returned. *)
Here(p) == Id(elapsed[p], sequence[p], Machine[p])
Napping(p) == \E t \in Threads : Proc[t] = p /\ pc[t] = "nap"

(* The generator has gone past an id that was returned. *)
Passed(id, p) == id <= Here(p) /\ (Napping(p) => id < Here(p))

LastInv == \A p \in Procs : Passed(last[p], p)

(* Only a sleeping generator is ahead of the clock, and it sleeps until the *)
(* clock has caught up.                                                     *)
InTime ==
  /\ \A t \in Threads : current[t] <= wall
  /\ \A t \in Threads : pc[t] = "nap" => elapsed[Proc[t]] <= wall + nap[t]
  /\ \A p \in Procs : elapsed[p] <= wall \/ Napping(p)

ClockInv == setBacks = 0 => InTime

(* Every returned id is of a time the clock has reached, and the generator  *)
(* of its machine has gone past it.                                         *)
IssuedInv ==
  setBacks = 0 =>
    \A id \in issued :
      \E p \in Procs, a \in 0 .. wall, s \in 0 .. SeqSize - 1 :
        id = Id(a, s, Machine[p]) /\ Passed(id, p)

(* The types of what Return writes. *)
LEMMA ReturnTypes ==
  ASSUME FlakeTypeOK, NEW t \in Threads, NEW a \in Nat,
         NEW s \in 0 .. SeqSize - 1, Return(t, a, s)
  PROVE  /\ pc' \in [Threads -> {"out", "read", "nap"}]
         /\ mutex' \in [Procs -> BOOLEAN]
         /\ issued' \in SUBSET Nat /\ repeated' \in BOOLEAN
         /\ last' \in [Procs -> Nat \cup {-1}]
<1>1. Proc[t] \in Procs /\ Machine[Proc[t]] \in 0 .. MachineSize - 1
  BY ConstantsAssumption
<1>2. Id(a, s, Machine[Proc[t]]) \in Nat
  BY <1>1, IdType
<1>3. CASE Fits(a)
  BY <1>1, <1>2, <1>3 DEF Return, FlakeTypeOK
<1>4. CASE ~Fits(a)
  BY <1>1, <1>4 DEF Return, FlakeTypeOK, history
<1>5. QED
  BY <1>3, <1>4

(* Every variable keeps its type: times and sequence numbers never leave    *)
(* their ranges, whatever the clock does.                                   *)
THEOREM FlakeTypeCorrect == Spec => []FlakeTypeOK
<1>1. Init => FlakeTypeOK
  <2>1. SeqSize - 1 \in 0 .. SeqSize - 1
    BY ConstantsAssumption
  <2>2. Init => last \in [Procs -> Nat \cup {-1}]
    BY DEF Init
  <2>3. Init => repeated \in BOOLEAN /\ mutex \in [Procs -> BOOLEAN]
    BY Zenon DEF Init
  <2>4. Init => pc \in [Threads -> {"out", "read", "nap"}] /\ issued \in SUBSET Nat
    BY DEF Init
  <2>5. QED
    BY <2>1, <2>2, <2>3, <2>4 DEF Init, FlakeTypeOK, StartSequence
<1>2. FlakeTypeOK /\ [Next]_vars => FlakeTypeOK'
  <2> SUFFICES ASSUME FlakeTypeOK, [Next]_vars PROVE FlakeTypeOK'
    OBVIOUS
  <2> USE ConstantsAssumption
  <2>1. ASSUME NEW t \in Threads, Enter(t) PROVE FlakeTypeOK'
    BY <2>1 DEF Enter, FlakeTypeOK, clock, history
  <2>2. ASSUME NEW t \in Threads, NewTick(t) PROVE FlakeTypeOK'
    <3>1. current[t] \in Nat /\ 0 \in 0 .. SeqSize - 1 /\ Return(t, current[t], 0)
      BY <2>2 DEF NewTick, FlakeTypeOK
    <3>2. QED
      BY <2>2, <3>1, ReturnTypes DEF NewTick, FlakeTypeOK, clock
  <2>3. ASSUME NEW t \in Threads, SameTick(t) PROVE FlakeTypeOK'
    <3>1. Return(t, elapsed[Proc[t]], sequence[Proc[t]] + 1)
      BY <2>3 DEF SameTick
    <3>2. Proc[t] \in Procs /\ sequence[Proc[t]] + 1 < SeqSize
      BY <2>3 DEF SameTick
    <3>3. elapsed[Proc[t]] \in Nat /\ sequence[Proc[t]] + 1 \in 0 .. SeqSize - 1
      BY <3>2 DEF FlakeTypeOK
    <3>4. QED
      BY <2>3, <3>1, <3>3, ReturnTypes DEF SameTick, FlakeTypeOK, clock
  <2>4. ASSUME NEW t \in Threads, Borrow(t) PROVE FlakeTypeOK'
    <3> DEFINE over == Borrowed(elapsed[Proc[t]]) - current[t]
    <3>1. over \in Nat
      BY <2>4 DEF Borrow, FlakeTypeOK, Borrowed
    <3>2. over * SleepFactor \in Nat
      BY <3>1
    <3>3. Borrowed(elapsed[Proc[t]]) \in Nat
      BY DEF FlakeTypeOK, Borrowed
    <3>4. nap' = [nap EXCEPT ![t] = over * SleepFactor]
      BY <2>4 DEF Borrow
    <3> HIDE DEF over
    <3>5. nap' \in [Threads -> Nat]
      BY <3>2, <3>4 DEF FlakeTypeOK
    <3>6. QED
      BY <2>4, <3>3, <3>5 DEF Borrow, FlakeTypeOK, clock, history
  <2>5. ASSUME NEW t \in Threads, Wake(t) PROVE FlakeTypeOK'
    <3>1. /\ elapsed[Proc[t]] \in Nat /\ sequence[Proc[t]] \in 0 .. SeqSize - 1
          /\ Return(t, elapsed[Proc[t]], sequence[Proc[t]])
      BY <2>5 DEF Wake, FlakeTypeOK
    <3>2. QED
      BY <2>5, <3>1, ReturnTypes DEF Wake, FlakeTypeOK, clock
  <2>6. ASSUME NEW p \in Procs, Boot(p) PROVE FlakeTypeOK'
    BY <2>6 DEF Boot, FlakeTypeOK, StartSequence
  <2>7. CASE Tick
    BY <2>7 DEF Tick, FlakeTypeOK, history
  <2>8. CASE SetBack
    BY <2>8 DEF SetBack, FlakeTypeOK, history
  <2>9. CASE UNCHANGED vars
    BY <2>9 DEF vars, FlakeTypeOK
  <2>10. QED
    BY <2>1, <2>2, <2>3, <2>4, <2>5, <2>6, <2>7, <2>8, <2>9 DEF Next, NextId
<1>3. QED
  BY <1>1, <1>2, PTL DEF Spec

(* The mutex keeps the other threads of a process out of next_id, also      *)
(* while the one inside sleeps.                                             *)
THEOREM OneThreadInside == Spec => []MutexInv
<1>1. Init => MutexInv
  BY DEF Init, MutexInv, Inside
<1>2. FlakeTypeOK /\ MutexInv /\ [Next]_vars => MutexInv'
  <2> SUFFICES ASSUME FlakeTypeOK, MutexInv, [Next]_vars PROVE MutexInv'
    OBVIOUS
  <2> USE ConstantsAssumption DEF MutexInv, Inside, FlakeTypeOK
  <2>1. ASSUME NEW t \in Threads, Enter(t) PROVE MutexInv'
    BY <2>1 DEF Enter
  <2>2. ASSUME NEW t \in Threads, NewTick(t) PROVE MutexInv'
    BY <2>2 DEF NewTick, Return
  <2>3. ASSUME NEW t \in Threads, SameTick(t) PROVE MutexInv'
    BY <2>3 DEF SameTick, Return
  <2>4. ASSUME NEW t \in Threads, Borrow(t) PROVE MutexInv'
    BY <2>4 DEF Borrow
  <2>5. ASSUME NEW t \in Threads, Wake(t) PROVE MutexInv'
    BY <2>5 DEF Wake, Return
  <2>6. ASSUME NEW p \in Procs, Boot(p) PROVE MutexInv'
    BY <2>6 DEF Boot
  <2>7. CASE Tick
    BY <2>7 DEF Tick
  <2>8. CASE SetBack
    BY <2>8 DEF SetBack
  <2>9. CASE UNCHANGED vars
    BY <2>9 DEF vars
  <2>10. QED
    BY <2>1, <2>2, <2>3, <2>4, <2>5, <2>6, <2>7, <2>8, <2>9 DEF Next, NextId
<1>3. QED
  BY <1>1, <1>2, FlakeTypeCorrect, PTL DEF Spec

(* Every id that was returned came from below the time limit. *)
THEOREM EveryIdFits == Spec => []IdsFit
<1>1. Init => IdsFit
  BY DEF Init, IdsFit
<1>2. ASSUME FlakeTypeOK, IdsFit, NEW t \in Threads, NEW a \in Nat,
             NEW s \in 0 .. SeqSize - 1, Return(t, a, s)
      PROVE  IdsFit'
  <2>1. Machine[Proc[t]] \in 0 .. MachineSize - 1
    BY ConstantsAssumption
  <2>2. CASE Fits(a)
    <3>1. Id(a, s, Machine[Proc[t]]) < TimeLimit * SeqSize * MachineSize
      BY <2>1, <2>2, IdFits DEF Fits
    <3>2. issued' = issued \cup {Id(a, s, Machine[Proc[t]])}
      BY <1>2, <2>2 DEF Return
    <3> DEFINE limit == TimeLimit * SeqSize * MachineSize
               id == Id(a, s, Machine[Proc[t]])
    <3>3. (\A i \in issued : i < limit) /\ id < limit /\ issued' = issued \cup {id}
      BY <1>2, <3>1, <3>2 DEF IdsFit
    <3>4. IdsFit' <=> \A i \in issued' : i < limit
      BY DEF IdsFit
    <3> HIDE DEF limit, id
    <3>5. QED
      BY <3>3, <3>4
  <2>3. CASE ~Fits(a)
    BY <1>2, <2>3 DEF Return, history, IdsFit
  <2>4. QED
    BY <2>2, <2>3
<1>3. FlakeTypeOK /\ IdsFit /\ [Next]_vars => IdsFit'
  <2> SUFFICES ASSUME FlakeTypeOK, IdsFit, [Next]_vars PROVE IdsFit'
    OBVIOUS
  <2>1. ASSUME NEW t \in Threads, NewTick(t) PROVE IdsFit'
    <3>1. current[t] \in Nat /\ 0 \in 0 .. SeqSize - 1 /\ Return(t, current[t], 0)
      BY <2>1, ConstantsAssumption DEF NewTick, FlakeTypeOK
    <3>2. QED
      BY <3>1, <1>2
  <2>2. ASSUME NEW t \in Threads, SameTick(t) PROVE IdsFit'
    <3>1. Return(t, elapsed[Proc[t]], sequence[Proc[t]] + 1)
      BY <2>2 DEF SameTick
    <3>2. Proc[t] \in Procs /\ sequence[Proc[t]] + 1 < SeqSize
      BY <2>2, ConstantsAssumption DEF SameTick
    <3>3. elapsed[Proc[t]] \in Nat /\ sequence[Proc[t]] + 1 \in 0 .. SeqSize - 1
      BY <3>2, ConstantsAssumption DEF FlakeTypeOK
    <3>4. QED
      BY <3>1, <3>3, <1>2
  <2>3. ASSUME NEW t \in Threads, Wake(t) PROVE IdsFit'
    <3>1. /\ elapsed[Proc[t]] \in Nat /\ sequence[Proc[t]] \in 0 .. SeqSize - 1
          /\ Return(t, elapsed[Proc[t]], sequence[Proc[t]])
      BY <2>3, ConstantsAssumption DEF Wake, FlakeTypeOK
    <3>2. QED
      BY <3>1, <1>2
  <2>4. CASE UNCHANGED issued
    BY <2>4 DEF IdsFit
  <2>5. QED
    BY <2>1, <2>2, <2>3, <2>4
       DEF Next, NextId, Enter, Borrow, Boot, Tick, SetBack, vars, history
<1>4. QED
  BY <1>1, <1>3, FlakeTypeCorrect, PTL DEF Spec
-----------------------------------------------------------------------------
(* Steps that move no generator. *)
LEMMA Quiet ==
  ASSUME FlakeTypeOK,
         \/ \E t \in Threads : Enter(t)
         \/ Tick \/ SetBack \/ UNCHANGED vars
  PROVE  \A p \in Procs : Here(p)' = Here(p) /\ (Napping(p)' <=> Napping(p))
<1>1. elapsed' = elapsed /\ sequence' = sequence
  BY DEF Enter, Tick, SetBack, vars
<1>2. \A t \in Threads : pc'[t] = "nap" <=> pc[t] = "nap"
  BY DEF Enter, Tick, SetBack, vars, FlakeTypeOK
<1>3. QED
  BY <1>1, <1>2 DEF Here, Napping

(* A step that returns an id moves its generator past every id it had       *)
(* passed, and returns the one it comes to.                                 *)
LEMMA Advance ==
  ASSUME FlakeTypeOK, MutexInv, NEW t \in Threads,
         NewTick(t) \/ SameTick(t) \/ Wake(t),
         NEW p \in Procs, p = Proc[t]
  PROVE  /\ elapsed'[p] \in Nat /\ sequence'[p] \in 0 .. SeqSize - 1
         /\ Return(t, elapsed'[p], sequence'[p])
         /\ ~Napping(p)'
         /\ \A id \in Int : Passed(id, p) => id < Here(p)'
         /\ \A q \in Procs \ {p} :
              Here(q)' = Here(q) /\ (Napping(q)' <=> Napping(q))
<1>1. /\ elapsed[p] \in Nat /\ sequence[p] \in 0 .. SeqSize - 1
      /\ current[t] \in Nat /\ Machine[p] \in 0 .. MachineSize - 1
      /\ 0 \in 0 .. SeqSize - 1 /\ SeqSize \in Nat
  BY ConstantsAssumption DEF FlakeTypeOK
<1>2. Here(p) \in Nat
  BY <1>1, IdType DEF Here
<1>3. pc' = [pc EXCEPT ![t] = "out"] /\ Inside(t)
  BY DEF NewTick, SameTick, Wake, Return, Inside
<1>4. ~Napping(p)'
  BY <1>3 DEF Napping, MutexInv, FlakeTypeOK, Inside
<1>5. \A q \in Procs \ {p} : Napping(q)' <=> Napping(q)
  BY <1>3 DEF Napping, FlakeTypeOK
<1>6. \A q \in Procs \ {p} : elapsed'[q] = elapsed[q] /\ sequence'[q] = sequence[q]
  BY DEF NewTick, SameTick, Wake, FlakeTypeOK
<1>7. /\ elapsed'[p] \in Nat /\ sequence'[p] \in 0 .. SeqSize - 1
      /\ Return(t, elapsed'[p], sequence'[p])
      /\ Here(p) <= Here(p)' /\ (~Napping(p) => Here(p) < Here(p)')
      /\ Here(p)' \in Nat
  <2>1. CASE NewTick(t)
    <3>1. elapsed'[p] = current[t] /\ sequence'[p] = 0 /\ elapsed[p] < current[t]
      BY <2>1 DEF NewTick, FlakeTypeOK
    <3>2. Here(p) < Here(p)'
      BY <1>1, <3>1, IdOrder DEF Here
    <3>3. Here(p)' \in Nat
      BY <1>1, <3>1, IdType DEF Here
    <3>4. Return(t, current[t], 0)
      BY <2>1 DEF NewTick
    <3>5. QED
      BY <1>1, <1>2, <3>1, <3>2, <3>3, <3>4
  <2>2. CASE SameTick(t)
    <3>1. elapsed'[p] = elapsed[p] /\ sequence'[p] = sequence[p] + 1
      BY <2>2 DEF SameTick, FlakeTypeOK
    <3>2. sequence[p] + 1 \in 0 .. SeqSize - 1 /\ sequence[p] < sequence[p] + 1
      BY <1>1, <2>2 DEF SameTick
    <3>3. Here(p) < Here(p)'
      BY <1>1, <3>1, <3>2, IdOrder DEF Here
    <3>4. Here(p)' \in Nat
      BY <1>1, <3>1, <3>2, IdType DEF Here
    <3>5. Return(t, elapsed[p], sequence[p] + 1)
      BY <2>2 DEF SameTick
    <3>6. QED
      BY <1>1, <1>2, <3>1, <3>2, <3>3, <3>4, <3>5
  <2>3. CASE Wake(t)
    <3>1. elapsed'[p] = elapsed[p] /\ sequence'[p] = sequence[p]
      BY <2>3 DEF Wake
    <3>2. Here(p)' = Here(p) /\ Napping(p)
      BY <2>3, <3>1 DEF Here, Napping, Wake
    <3>3. Return(t, elapsed[p], sequence[p])
      BY <2>3 DEF Wake
    <3>4. QED
      BY <1>1, <1>2, <3>1, <3>2, <3>3
  <2>4. QED
    BY <2>1, <2>2, <2>3
<1>8. \A id \in Int : Passed(id, p) => id < Here(p)'
  BY <1>2, <1>7 DEF Passed
<1>9. \A q \in Procs \ {p} : Here(q)' = Here(q)
  BY <1>6 DEF Here
<1>10. QED
  BY <1>4, <1>5, <1>7, <1>8, <1>9

(* A generator that borrows a tick moves past every id it had passed, and   *)
(* the id it comes to is not returned yet.                                  *)
LEMMA BorrowAdvances ==
  ASSUME FlakeTypeOK, MutexInv, NEW t \in Threads, Borrow(t),
         NEW p \in Procs, p = Proc[t]
  PROVE  /\ \A id \in Int : Passed(id, p) => id < Here(p)'
         /\ \A q \in Procs \ {p} :
              Here(q)' = Here(q) /\ (Napping(q)' <=> Napping(q))
<1>1. /\ elapsed[p] \in Nat /\ sequence[p] \in 0 .. SeqSize - 1
      /\ Machine[p] \in 0 .. MachineSize - 1 /\ 0 \in 0 .. SeqSize - 1
  BY ConstantsAssumption DEF FlakeTypeOK
<1>2. elapsed'[p] = elapsed[p] + 1 /\ sequence'[p] = 0
  BY DEF Borrow, Borrowed, FlakeTypeOK
<1>3. elapsed[p] < elapsed[p] + 1 /\ elapsed[p] + 1 \in Nat
  BY <1>1
<1>4. Here(p) < Here(p)'
  BY <1>1, <1>2, <1>3, IdOrder DEF Here
<1>5. Here(p) \in Nat /\ Here(p)' \in Nat
  BY <1>1, <1>2, <1>3, IdType DEF Here
<1>6. \A q \in Procs \ {p} : elapsed'[q] = elapsed[q] /\ sequence'[q] = sequence[q]
  BY DEF Borrow, FlakeTypeOK
<1>7. \A q \in Procs \ {p} : Napping(q)' <=> Napping(q)
  BY DEF Borrow, Napping, FlakeTypeOK
<1>8. QED
  BY <1>4, <1>5, <1>6, <1>7 DEF Here, Passed

(* A process that starts leaves the other generators alone. *)
LEMMA BootOthers ==
  ASSUME FlakeTypeOK, NEW p \in Procs, Boot(p)
  PROVE  /\ elapsed'[p] = wall /\ sequence'[p] = SeqSize - 1 /\ ~Napping(p)'
         /\ \A q \in Procs \ {p} :
              Here(q)' = Here(q) /\ (Napping(q)' <=> Napping(q))
<1>1. elapsed'[p] = wall /\ sequence'[p] = SeqSize - 1
  BY DEF Boot, FlakeTypeOK, StartSequence
<1>2. \A q \in Procs \ {p} : elapsed'[q] = elapsed[q] /\ sequence'[q] = sequence[q]
  BY DEF Boot, FlakeTypeOK
<1>3. ~Napping(p)' /\ \A q \in Procs \ {p} : Napping(q)' <=> Napping(q)
  BY DEF Boot, Napping, FlakeTypeOK
<1>4. QED
  BY <1>1, <1>2, <1>3 DEF Here

(* The latest id of a process is never ahead of its generator. *)
THEOREM LastIsPassed == Spec => []LastInv
<1>1. Init => LastInv
  <2> SUFFICES ASSUME Init, NEW p \in Procs PROVE Passed(last[p], p)
    BY DEF LastInv
  <2>1. Here(p) \in Nat
    <3>1. SeqSize - 1 \in 0 .. SeqSize - 1 /\ Machine[p] \in 0 .. MachineSize - 1
      BY ConstantsAssumption
    <3>2. elapsed[p] = 0 /\ sequence[p] = SeqSize - 1
      BY DEF Init, StartSequence
    <3>3. QED
      BY <3>1, <3>2, IdType DEF Here
  <2>2. last[p] = -1
    BY DEF Init
  <2>3. QED
    BY <2>1, <2>2 DEF Passed
<1>2. FlakeTypeOK /\ FlakeTypeOK' /\ MutexInv /\ LastInv /\ [Next]_vars => LastInv'
  <2> SUFFICES ASSUME FlakeTypeOK, FlakeTypeOK', MutexInv, LastInv, [Next]_vars,
                      NEW p \in Procs
               PROVE  Passed(last[p], p)'
    BY DEF LastInv
  <2>1. Passed(last[p], p) /\ last[p] \in Int /\ last'[p] \in Int
    BY DEF LastInv, FlakeTypeOK
  <2>2. Here(p)' \in Nat
    <3>1. /\ elapsed'[p] \in Nat /\ sequence'[p] \in 0 .. SeqSize - 1
          /\ Machine[p] \in 0 .. MachineSize - 1
      BY ConstantsAssumption DEF FlakeTypeOK
    <3>2. QED
      BY <3>1, IdType DEF Here
  <2>3. ASSUME NEW t \in Threads, NewTick(t) \/ SameTick(t) \/ Wake(t)
        PROVE  Passed(last[p], p)'
    <3>1. CASE p = Proc[t]
      <4>1. /\ Return(t, elapsed'[p], sequence'[p]) /\ ~Napping(p)'
            /\ last[p] < Here(p)'
        BY <2>1, <2>3, <3>1, Advance
      <4>2. last'[p] = Here(p)' \/ last'[p] = last[p]
        BY <3>1, <4>1 DEF Return, Here, history, FlakeTypeOK
      <4>3. QED
        BY <2>1, <2>2, <4>1, <4>2 DEF Passed
    <3>2. CASE p # Proc[t]
      <4>1. Proc[t] \in Procs
        BY ConstantsAssumption
      <4>2. Here(p)' = Here(p) /\ (Napping(p)' <=> Napping(p))
        BY <2>3, <3>2, <4>1, Advance
      <4>3. last'[p] = last[p]
        BY <2>3, <3>2 DEF NewTick, SameTick, Wake, Return, history, FlakeTypeOK
      <4>4. QED
        BY <2>1, <4>2, <4>3 DEF Passed
    <3>3. QED
      BY <3>1, <3>2
  <2>4. ASSUME NEW t \in Threads, Borrow(t) PROVE Passed(last[p], p)'
    <3>1. last'[p] = last[p]
      BY <2>4 DEF Borrow, history
    <3>2. CASE p = Proc[t]
      <4>1. last[p] < Here(p)'
        BY <2>1, <2>4, <3>2, BorrowAdvances
      <4>2. QED
        BY <2>1, <2>2, <3>1, <4>1 DEF Passed
    <3>3. CASE p # Proc[t]
      <4>1. Proc[t] \in Procs
        BY ConstantsAssumption
      <4>2. Here(p)' = Here(p) /\ (Napping(p)' <=> Napping(p))
        BY <2>4, <3>3, <4>1, BorrowAdvances
      <4>3. QED
        BY <2>1, <3>1, <4>2 DEF Passed
    <3>4. QED
      BY <3>2, <3>3
  <2>5. ASSUME NEW q \in Procs, Boot(q) PROVE Passed(last[p], p)'
    <3>1. CASE p = q
      <4>1. last'[p] = -1
        BY <2>5, <3>1 DEF Boot, FlakeTypeOK
      <4>2. QED
        BY <2>2, <4>1 DEF Passed
    <3>2. CASE p # q
      <4>1. Here(p)' = Here(p) /\ (Napping(p)' <=> Napping(p))
        BY <2>5, <3>2, BootOthers
      <4>2. last'[p] = last[p]
        BY <2>5, <3>2 DEF Boot, FlakeTypeOK
      <4>3. QED
        BY <2>1, <4>1, <4>2 DEF Passed
    <3>3. QED
      BY <3>1, <3>2
  <2>6. CASE (\E t \in Threads : Enter(t)) \/ Tick \/ SetBack \/ UNCHANGED vars
    <3>1. Here(p)' = Here(p) /\ (Napping(p)' <=> Napping(p))
      BY <2>6, Quiet
    <3>2. last' = last
      BY <2>6 DEF Enter, Tick, SetBack, vars, history
    <3>3. QED
      BY <2>1, <3>1, <3>2 DEF Passed
  <2>7. QED
    BY <2>3, <2>4, <2>5, <2>6 DEF Next, NextId
<1>3. QED
  BY <1>1, <1>2, FlakeTypeCorrect, OneThreadInside, PTL DEF Spec

(* The ids of a process increase for as long as it lives, whichever threads *)
(* ask and whatever happens to the clock.                                   *)
THEOREM Increasing == Spec => IdsIncrease
<1>1. ASSUME FlakeTypeOK, MutexInv, LastInv, [Next]_vars
      PROVE  [\A p \in Procs : last'[p] # last[p] => last'[p] > last[p] \/ last'[p] = -1]_vars
  <2> SUFFICES ASSUME NEW p \in Procs, last'[p] # last[p], Next
               PROVE  last'[p] > last[p] \/ last'[p] = -1
    BY <1>1 DEF vars
  <2>1. Passed(last[p], p) /\ last[p] \in Int
    BY <1>1 DEF LastInv, FlakeTypeOK
  <2>2. ASSUME NEW t \in Threads, NewTick(t) \/ SameTick(t) \/ Wake(t)
        PROVE  last'[p] > last[p]
    <3>1. p = Proc[t]
      BY <1>1, <2>2 DEF NewTick, SameTick, Wake, Return, history, FlakeTypeOK
    <3>2. Return(t, elapsed'[p], sequence'[p]) /\ last[p] < Here(p)'
      BY <1>1, <2>1, <2>2, <3>1, Advance
    <3>3. last'[p] = Here(p)'
      BY <1>1, <3>1, <3>2 DEF Return, Here, history, FlakeTypeOK
    <3>4. /\ elapsed'[p] \in Nat /\ sequence'[p] \in 0 .. SeqSize - 1
          /\ Machine[p] \in 0 .. MachineSize - 1
      BY <1>1, <2>2, <3>1, Advance, ConstantsAssumption
    <3>5. Here(p)' \in Nat
      BY <3>4, IdType DEF Here
    <3>6. QED
      BY <2>1, <3>2, <3>3, <3>5
  <2>3. ASSUME NEW q \in Procs, Boot(q) PROVE last'[p] = -1
    BY <1>1, <2>3 DEF Boot, FlakeTypeOK
  <2>4. QED
    BY <2>2, <2>3 DEF Next, NextId, Enter, Borrow, Tick, SetBack, history
<1>2. QED
  BY <1>1, FlakeTypeCorrect, OneThreadInside, LastIsPassed, PTL DEF Spec, IdsIncrease
-----------------------------------------------------------------------------
(* Without set-backs of the clock, only a sleeping generator is ahead of it. *)
THEOREM GeneratorsWait == Spec => []ClockInv
<1>1. Init => ClockInv
  BY ConstantsAssumption DEF Init, ClockInv, InTime
<1>2. FlakeTypeOK /\ MutexInv /\ ClockInv /\ [Next]_vars => ClockInv'
  <2> SUFFICES ASSUME FlakeTypeOK, MutexInv, ClockInv, [Next]_vars, setBacks' = 0
               PROVE  InTime'
    BY DEF ClockInv
  <2> USE ConstantsAssumption
  <2>1. setBacks = 0 /\ ~SetBack
    BY DEF Next, NextId, Enter, NewTick, SameTick, Borrow, Wake, Boot, Tick, SetBack,
           vars, clock, FlakeTypeOK
  <2>2. /\ \A t \in Threads : current[t] <= wall
        /\ \A t \in Threads : pc[t] = "nap" => elapsed[Proc[t]] <= wall + nap[t]
        /\ \A p \in Procs : elapsed[p] <= wall \/ Napping(p)
    BY <2>1 DEF ClockInv, InTime
  <2>3. ASSUME NEW u \in Threads, NewTick(u) \/ SameTick(u) \/ Wake(u)
        PROVE  InTime'
    <3> DEFINE q == Proc[u]
    <3>1. q \in Procs /\ Inside(u) /\ wall' = wall /\ nap' = nap
      BY <2>3 DEF NewTick, SameTick, Wake, Inside, clock
    <3>2. \A t \in Threads : Proc[t] = q /\ pc[t] = "nap" => t = u
      BY <3>1 DEF MutexInv, Inside
    <3>3. /\ ~Napping(q)'
          /\ \A p \in Procs \ {q} : Napping(p)' <=> Napping(p)
      BY <2>3, <3>1, Advance
    <3>4. \A p \in Procs \ {q} : elapsed'[p] = elapsed[p]
      BY <2>3 DEF NewTick, SameTick, Wake, FlakeTypeOK
    <3>5. pc' = [pc EXCEPT ![u] = "out"]
      BY <2>3 DEF NewTick, SameTick, Wake, Return
    <3>6. elapsed'[q] <= wall
      <4>1. CASE NewTick(u)
        BY <2>2, <3>1, <4>1 DEF NewTick, FlakeTypeOK
      <4>2. CASE SameTick(u)
        <5>1. pc[u] = "read" /\ elapsed' = elapsed
          BY <4>2 DEF SameTick
        <5>2. ~Napping(q)
          BY <3>2, <5>1 DEF Napping
        <5>3. QED
          BY <2>2, <3>1, <5>1, <5>2
      <4>3. CASE Wake(u)
        <5>1. pc[u] = "nap" /\ nap[u] = 0 /\ elapsed' = elapsed
          BY <4>3 DEF Wake
        <5>2. elapsed[q] <= wall + nap[u]
          BY <2>2, <5>1
        <5>3. QED
          BY <3>1, <5>1, <5>2 DEF FlakeTypeOK
      <4>4. QED
        BY <2>3, <4>1, <4>2, <4>3
    <3>7. \A t \in Threads : current'[t] <= wall'
      BY <2>2, <2>3, <3>1 DEF NewTick, SameTick, Wake, FlakeTypeOK
    <3>8. ASSUME NEW t \in Threads, pc'[t] = "nap"
          PROVE  elapsed'[Proc[t]] <= wall' + nap'[t]
      <4>1. pc[t] = "nap" /\ t # u
        BY <3>5, <3>8 DEF FlakeTypeOK
      <4>2. Proc[t] \in Procs \ {q}
        BY <3>2, <4>1
      <4>3. QED
        BY <2>2, <3>1, <3>4, <4>1, <4>2
    <3>9. \A p \in Procs : elapsed'[p] <= wall' \/ Napping(p)'
      BY <2>2, <3>1, <3>3, <3>4, <3>6
    <3>10. QED
      BY <3>7, <3>8, <3>9 DEF InTime
  <2>4. ASSUME NEW u \in Threads, Borrow(u)
        PROVE  InTime'
    <3> DEFINE q == Proc[u]
               over == elapsed[q] + 1 - current[u]
    <3>1. q \in Procs /\ Inside(u) /\ wall' = wall /\ pc[u] = "read"
      BY <2>4 DEF Borrow, Inside, clock
    <3>2. \A t \in Threads : Proc[t] = q /\ pc[t] = "nap" => t = u
      BY <3>1 DEF MutexInv, Inside
    <3>3. \A p \in Procs \ {q} : elapsed'[p] = elapsed[p] /\ (Napping(p)' <=> Napping(p))
      BY <2>4, <3>1, BorrowAdvances DEF Borrow, FlakeTypeOK
    <3>4. /\ elapsed'[q] = elapsed[q] + 1 /\ pc' = [pc EXCEPT ![u] = "nap"]
          /\ nap'[u] = over * SleepFactor
          /\ \A t \in Threads \ {u} : nap'[t] = nap[t]
      BY <2>4, <3>1 DEF Borrow, Borrowed, FlakeTypeOK
    <3>5. over \in Nat
      BY <2>4, <3>1 DEF Borrow, FlakeTypeOK
    <3>6. over <= over * SleepFactor
      <4>1. over * (SleepFactor - 1) \in Nat
        BY <3>5
      <4>2. over * SleepFactor = over * (SleepFactor - 1) + over
        BY <3>5
      <4>3. QED
        BY <3>5, <4>1, <4>2
    <3>7. elapsed'[q] <= wall' + nap'[u]
      <4>1. current[u] <= wall /\ current[u] \in Nat /\ wall \in Nat /\ elapsed[q] \in Nat
        BY <2>2, <3>1 DEF FlakeTypeOK
      <4>2. over * SleepFactor \in Nat
        BY <3>5
      <4>3. elapsed[q] + 1 <= wall + over
        BY <4>1
      <4> HIDE DEF over
      <4>4. QED
        BY <3>1, <3>4, <3>5, <3>6, <4>1, <4>2, <4>3
    <3>8. \A t \in Threads : current'[t] <= wall'
      BY <2>2, <2>4, <3>1 DEF Borrow, FlakeTypeOK
    <3>9. ASSUME NEW t \in Threads, pc'[t] = "nap", t # u
          PROVE  elapsed'[Proc[t]] <= wall' + nap'[t]
      <4>1. pc[t] = "nap"
        BY <3>4, <3>9 DEF FlakeTypeOK
      <4>2. Proc[t] \in Procs \ {q}
        BY <3>2, <3>9, <4>1
      <4>3. QED
        BY <2>2, <3>1, <3>3, <3>4, <3>9, <4>1, <4>2
    <3>10. Napping(q)'
      BY <3>4 DEF Napping, FlakeTypeOK
    <3> HIDE DEF over
    <3>11. \A p \in Procs : elapsed'[p] <= wall' \/ Napping(p)'
      BY <2>2, <3>1, <3>3, <3>10
    <3>12. QED
      BY <3>7, <3>8, <3>9, <3>11 DEF InTime
  <2>5. ASSUME NEW u \in Threads, Enter(u)
        PROVE  InTime'
    <3>1. \A p \in Procs : Napping(p)' <=> Napping(p)
      BY <2>5, Quiet
    <3>2. wall' = wall /\ elapsed' = elapsed /\ nap' = nap
      BY <2>5 DEF Enter, clock
    <3>3. \A t \in Threads : current'[t] <= wall /\ (pc'[t] = "nap" => pc[t] = "nap")
      BY <2>2, <2>5 DEF Enter, FlakeTypeOK
    <3>4. QED
      BY <2>2, <3>1, <3>2, <3>3 DEF InTime
  <2>6. ASSUME NEW q \in Procs, Boot(q)
        PROVE  InTime'
    <3>1. \A p \in Procs \ {q} : Napping(p)' <=> Napping(p)
      BY <2>6, BootOthers
    <3>2. QED
      BY <2>2, <2>6, <3>1 DEF Boot, FlakeTypeOK, InTime
  <2>7. ASSUME Tick
        PROVE  InTime'
    <3>1. \A p \in Procs : Napping(p)' <=> Napping(p)
      BY <2>7, Quiet
    <3>2. wall' = wall + 1 /\ current' = current /\ elapsed' = elapsed /\ pc' = pc
      BY <2>7 DEF Tick
    <3>3. \A t \in Threads : nap'[t] \in Nat /\ nap[t] <= nap'[t] + 1
      BY <2>7 DEF Tick, FlakeTypeOK
    <3>4. \A t \in Threads : Proc[t] \in Procs
      OBVIOUS
    <3>5. QED
      BY <2>2, <3>1, <3>2, <3>3, <3>4 DEF FlakeTypeOK, InTime
  <2>8. CASE UNCHANGED vars
    BY <2>2, <2>8 DEF vars, Napping, InTime
  <2>9. QED
    BY <2>1, <2>3, <2>4, <2>5, <2>6, <2>7, <2>8 DEF Next, NextId
<1>3. QED
  BY <1>1, <1>2, FlakeTypeCorrect, OneThreadInside, PTL DEF Spec

(* Without set-backs, every id is behind the clock and behind the generator *)
(* of its machine, also one that has just started.                          *)
THEOREM IssuedIsPassed == Spec => []IssuedInv
<1>1. Init => IssuedInv
  BY DEF Init, IssuedInv
<1>2. ASSUME FlakeTypeOK, FlakeTypeOK', MutexInv, ClockInv, ClockInv', IssuedInv, Next,
             setBacks' = 0, NEW id \in issued'
      PROVE  \E p \in Procs, a \in 0 .. wall', s \in 0 .. SeqSize - 1 :
               id = Id(a, s, Machine[p]) /\ Passed(id, p)'
  <2>1. setBacks = 0 /\ ~SetBack
    BY <1>2 DEF Next, NextId, Enter, NewTick, SameTick, Borrow, Wake, Boot, Tick,
                SetBack, clock, FlakeTypeOK
  <2>2. wall <= wall' /\ wall \in Nat /\ wall' \in Nat
    BY <1>2, <2>1 DEF Next, NextId, Enter, NewTick, SameTick, Borrow, Wake, Boot, Tick,
                      clock, FlakeTypeOK
  <2>3. \A p \in Procs : Here(p)' \in Nat
    <3>1. \A p \in Procs : /\ elapsed'[p] \in Nat
                           /\ sequence'[p] \in 0 .. SeqSize - 1
                           /\ Machine[p] \in 0 .. MachineSize - 1
      BY <1>2, ConstantsAssumption DEF FlakeTypeOK
    <3>2. QED
      BY <3>1, IdType DEF Here
  <2>4. CASE id \in issued
    <3>1. PICK p \in Procs, a \in 0 .. wall, s \in 0 .. SeqSize - 1 :
            id = Id(a, s, Machine[p]) /\ Passed(id, p)
      BY <1>2, <2>1, <2>4 DEF IssuedInv
    <3>2. a \in 0 .. wall' /\ id \in Int
      BY <1>2, <2>2, <2>4 DEF FlakeTypeOK
    <3>3. Passed(id, p)'
      <4>1. ASSUME NEW t \in Threads, NewTick(t) \/ SameTick(t) \/ Wake(t)
            PROVE  Passed(id, p)'
        <5>1. CASE p = Proc[t]
          <6>1. id < Here(p)'
            BY <1>2, <3>1, <3>2, <4>1, <5>1, Advance
          <6>2. QED
            BY <2>3, <3>2, <6>1 DEF Passed
        <5>2. CASE p # Proc[t]
          <6>1. Proc[t] \in Procs
            BY ConstantsAssumption
          <6>2. Here(p)' = Here(p) /\ (Napping(p)' <=> Napping(p))
            BY <1>2, <4>1, <5>2, <6>1, Advance
          <6>3. QED
            BY <3>1, <6>2 DEF Passed
        <5>3. QED
          BY <5>1, <5>2
      <4>2. ASSUME NEW t \in Threads, Borrow(t) PROVE Passed(id, p)'
        <5>1. CASE p = Proc[t]
          <6>1. id < Here(p)'
            BY <1>2, <3>1, <3>2, <4>2, <5>1, BorrowAdvances
          <6>2. QED
            BY <2>3, <3>2, <6>1 DEF Passed
        <5>2. CASE p # Proc[t]
          <6>1. Proc[t] \in Procs
            BY ConstantsAssumption
          <6>2. Here(p)' = Here(p) /\ (Napping(p)' <=> Napping(p))
            BY <1>2, <4>2, <5>2, <6>1, BorrowAdvances
          <6>3. QED
            BY <3>1, <6>2 DEF Passed
        <5>3. QED
          BY <5>1, <5>2
      <4>3. ASSUME NEW q \in Procs, Boot(q) PROVE Passed(id, p)'
        <5>1. CASE p = q
          <6>1. elapsed'[p] = wall /\ sequence'[p] = SeqSize - 1 /\ ~Napping(p)'
            BY <1>2, <4>3, <5>1, BootOthers
          <6>2. Machine[p] \in 0 .. MachineSize - 1 /\ a \in Nat /\ a <= wall
            BY <2>2, ConstantsAssumption
          <6>3. SeqSize - 1 \in 0 .. SeqSize - 1 /\ s <= SeqSize - 1
            BY ConstantsAssumption
          <6>4. CASE a < wall \/ s < SeqSize - 1
            <7>1. a < wall \/ (a = wall /\ s < SeqSize - 1)
              BY <2>2, <6>2, <6>4
            <7>2. id < Here(p)'
              BY <2>2, <3>1, <6>1, <6>2, <6>3, <7>1, IdOrder DEF Here
            <7>3. QED
              BY <2>3, <3>2, <7>2 DEF Passed
          <6>5. CASE a = wall /\ s = SeqSize - 1
            BY <2>3, <3>1, <6>1, <6>5 DEF Here, Passed
          <6>6. QED
            BY <2>2, <6>2, <6>3, <6>4, <6>5, ConstantsAssumption
        <5>2. CASE p # q
          <6>1. Here(p)' = Here(p) /\ (Napping(p)' <=> Napping(p))
            BY <1>2, <4>3, <5>2, BootOthers
          <6>2. QED
            BY <3>1, <6>1 DEF Passed
        <5>3. QED
          BY <5>1, <5>2
      <4>4. CASE (\E t \in Threads : Enter(t)) \/ Tick
        <5>1. Here(p)' = Here(p) /\ (Napping(p)' <=> Napping(p))
          BY <1>2, <4>4, Quiet
        <5>2. QED
          BY <3>1, <5>1 DEF Passed
      <4>5. QED
        BY <1>2, <2>1, <4>1, <4>2, <4>3, <4>4 DEF Next, NextId
    <3>4. QED
      BY <3>1, <3>2, <3>3
  <2>5. CASE id \notin issued
    <3>1. PICK t \in Threads : NewTick(t) \/ SameTick(t) \/ Wake(t)
      BY <1>2, <2>1, <2>5 DEF Next, NextId, Enter, Borrow, Boot, Tick, history
    <3> DEFINE q == Proc[t]
    <3>2. q \in Procs /\ Machine[q] \in 0 .. MachineSize - 1
      BY ConstantsAssumption
    <3>3. /\ elapsed'[q] \in Nat /\ sequence'[q] \in 0 .. SeqSize - 1
          /\ Return(t, elapsed'[q], sequence'[q]) /\ ~Napping(q)'
      BY <1>2, <3>1, <3>2, Advance
    <3>4. id = Id(elapsed'[q], sequence'[q], Machine[q])
      BY <1>2, <2>5, <3>3 DEF Return, history
    <3>5. elapsed'[q] \in 0 .. wall'
      BY <1>2, <2>2, <3>2, <3>3 DEF ClockInv, InTime
    <3>6. Passed(id, q)'
      BY <2>3, <3>2, <3>3, <3>4 DEF Passed, Here
    <3>7. QED
      BY <3>2, <3>3, <3>4, <3>5, <3>6
  <2>6. QED
    BY <2>4, <2>5
<1>3. FlakeTypeOK /\ FlakeTypeOK' /\ MutexInv /\ ClockInv /\ ClockInv' /\ IssuedInv
        /\ [Next]_vars => IssuedInv'
  <2>1. CASE Next
    BY <1>2, <2>1 DEF IssuedInv
  <2>2. CASE UNCHANGED vars
    BY <2>2 DEF vars, IssuedInv, Passed, Here, Napping
  <2>3. QED
    BY <2>1, <2>2
<1>4. QED
  BY <1>1, <1>3, FlakeTypeCorrect, OneThreadInside, GeneratorsWait, PTL DEF Spec

(* On machines with different ids, and with a clock that is never set back, *)
(* no id is ever returned twice, before or after restarts.                  *)
THEOREM Unique == ASSUME DistinctMachines PROVE Spec => []IdsUnique
<1>1. Init => IdsUnique
  BY DEF Init, IdsUnique
<1>2. FlakeTypeOK /\ MutexInv /\ IssuedInv /\ IdsUnique /\ [Next]_vars => IdsUnique'
  <2> SUFFICES ASSUME FlakeTypeOK, MutexInv, IssuedInv, IdsUnique, [Next]_vars,
                      setBacks' = 0
               PROVE  ~repeated'
    BY DEF IdsUnique
  <2>1. setBacks = 0
    BY DEF Next, NextId, Enter, NewTick, SameTick, Borrow, Wake, Boot, Tick, SetBack,
           vars, clock, FlakeTypeOK
  <2>2. ~repeated
    BY <2>1 DEF IdsUnique
  <2>3. ASSUME NEW t \in Threads, NewTick(t) \/ SameTick(t) \/ Wake(t)
        PROVE  ~repeated'
    <3> DEFINE q == Proc[t]
               id == Id(elapsed'[q], sequence'[q], Machine[q])
    <3>1. q \in Procs /\ Machine[q] \in 0 .. MachineSize - 1
      BY ConstantsAssumption
    <3>2. /\ elapsed'[q] \in Nat /\ sequence'[q] \in 0 .. SeqSize - 1
          /\ Return(t, elapsed'[q], sequence'[q])
          /\ \A i \in Int : Passed(i, q) => i < Here(q)'
      BY <2>3, <3>1, Advance
    <3>3. id \in Nat /\ Here(q)' = id
      BY <3>1, <3>2, IdType DEF Here
    <3>4. id \notin issued
      <4> SUFFICES ASSUME id \in issued PROVE FALSE
        OBVIOUS
      <4>1. PICK p \in Procs, a \in 0 .. wall, s \in 0 .. SeqSize - 1 :
              id = Id(a, s, Machine[p]) /\ Passed(id, p)
        BY <2>1 DEF IssuedInv
      <4>2. Machine[p] \in 0 .. MachineSize - 1 /\ a \in Nat
        BY ConstantsAssumption DEF FlakeTypeOK
      <4>3. Machine[p] = Machine[q]
        BY <3>1, <3>2, <4>1, <4>2, IdMachine
      <4>4. p = q
        BY <3>1, <4>3 DEF DistinctMachines
      <4>5. id < Here(q)'
        BY <3>2, <3>3, <4>1, <4>4
      <4>6. QED
        BY <3>3, <4>5
    <3>5. QED
      BY <2>2, <3>2, <3>4 DEF Return, history
  <2>4. CASE repeated' = repeated
    BY <2>2, <2>4
  <2>5. QED
    BY <2>3, <2>4
       DEF Next, NextId, Enter, Borrow, Boot, Tick, SetBack, vars, history
<1>3. QED
  BY <1>1, <1>2, FlakeTypeCorrect, OneThreadInside, IssuedIsPassed, PTL DEF Spec
=============================================================================
