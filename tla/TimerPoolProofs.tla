-------------------------- MODULE TimerPoolProofs ---------------------------
(***************************************************************************)
(* Proofs about TimerPool for any number of workers and tasks and any      *)
(* bound on the list.  TaskOnce speaks of sizes; what a step preserves is  *)
(* that the places a task may be in are pairwise disjoint and cover what   *)
(* main has dealt with, and the sizes follow.                              *)
(***************************************************************************)
EXTENDS TimerPool, CountingLemmas

(* A worker has a task in hand exactly while it processes it; main's loop  *)
(* counter is the task it works on, or past the end.                       *)
Control ==
    /\ \A w \in Workers : task[w] # 0 <=> pc[w] = "process"
    /\ IF main \in {"add", "signal", "test", "cancel"}
       THEN next_task \in TaskIds
       ELSE next_task = NumTasks + 1

TimerInv == TypeOK /\ Control

(* No two places hold the same task.                                       *)
Apart ==
    /\ \A i, j \in DOMAIN task_list : i # j => task_list[i] # task_list[j]
    /\ \A v, w \in Workers : v # w /\ task[v] # 0 => task[v] # task[w]
    /\ \A i \in DOMAIN task_list : /\ task_list[i] \notin dropped \cup processed
                                   /\ \A w \in Workers : task[w] # task_list[i]
    /\ \A w \in Workers : task[w] \notin dropped \cup processed
    /\ dropped \cap processed = {}

(* What main has dealt with is in one of the places, and nothing else is.  *)
Complete ==
    \A i \in TaskIds :
        i \in Added <=> \/ i \in dropped \cup processed
                        \/ \E j \in DOMAIN task_list : task_list[j] = i
                        \/ \E w \in Workers : task[w] = i

PlacesInv == Apart /\ Complete

-----------------------------------------------------------------------------
(* The initial state satisfies the type invariant and the control facts.   *)
LEMMA InitTimerInv == Init => TimerInv
<1> SUFFICES ASSUME Init PROVE TimerInv
  OBVIOUS
<1> USE TimerAssumption
<1>1. task_list \in Seq(TaskIds) /\ task_count <= MaxTasks
  BY DEF Init, task_count
<1>2. TypeOK
  <2>1. task_mutex \in Workers \cup {None} /\ pc \in [Workers -> WorkerPCs]
    BY DEF Init, WorkerPCs
  <2>2. task \in [Workers -> TaskIds \cup {0}] /\ next_task \in 1 .. NumTasks + 1
    BY DEF Init
  <2>3. main \in {"add", "signal", "test", "cancel", "join", "exited"}
    BY DEF Init
  <2>4. /\ timer = "off" /\ sigusr2 = "none" /\ stop_threads = FALSE
        /\ processed = {} /\ dropped = {}
    BY DEF Init
  <2> QED BY <1>1, <2>1, <2>2, <2>3, <2>4 DEF TypeOK
<1>3. Control
  BY DEF Init, Control, TaskIds
<1> QED BY <1>2, <1>3 DEF TimerInv

(* A worker's step keeps them.                                             *)
LEMMA WorkerKeepsTimerInv ==
    ASSUME TimerInv, NEW w \in Workers, WorkerStep(w) PROVE TimerInv'
<1> USE TimerAssumption
    DEF TimerInv, TypeOK, Control, TaskIds, task_count, WorkerPCs, timerVars,
        mainVars
<1>1. CASE Loop(w)
  BY <1>1 DEF Loop, Goto
<1>2. CASE Lock(w)
  BY <1>2 DEF Lock, Goto
<1>3. CASE Wait(w)
  BY <1>3 DEF Wait, Goto
<1>4. CASE StopBeforeTake(w)
  BY <1>4 DEF StopBeforeTake, Goto
<1>5. CASE Take(w)
  BY <1>5 DEF Take, Goto
<1>6. CASE Relock(w)
  BY <1>6 DEF Relock, Goto
<1>7. CASE Process(w)
  BY <1>7 DEF Process, Goto
<1>8. CASE TestEmpty(w)
  BY <1>8 DEF TestEmpty, Goto
<1>9. CASE Arm(w)
  BY <1>9 DEF Arm, Goto
<1> QED BY <1>1, <1>2, <1>3, <1>4, <1>5, <1>6, <1>7, <1>8, <1>9 DEF WorkerStep

(* So does a step of main.                                                 *)
LEMMA MainKeepsTimerInv ==
    ASSUME TimerInv, MainStep PROVE TimerInv'
<1> USE TimerAssumption
    DEF TimerInv, TypeOK, Control, TaskIds, task_count, WorkerPCs, timerVars,
        mainVars
<1>1. CASE Add
  BY <1>1 DEF Add
<1>2. CASE AddFull
  BY <1>2 DEF AddFull, AfterTask
<1>3. CASE Signal
  BY <1>3 DEF Signal, Goto
<1>4. CASE TestNonEmpty
  BY <1>4 DEF TestNonEmpty, AfterTask
<1>5. CASE Cancel
  BY <1>5 DEF Cancel, AfterTask
<1>6. CASE Join
  BY <1>6 DEF Join
<1> QED BY <1>1, <1>2, <1>3, <1>4, <1>5, <1>6 DEF MainStep

(* And so do the timer and the signal handler.                             *)
LEMMA SignalKeepsTimerInv ==
    ASSUME TimerInv, TimerFires \/ SignalStep \/ UNCHANGED vars PROVE TimerInv'
<1> USE TimerAssumption
    DEF TimerInv, TypeOK, Control, TaskIds, task_count, WorkerPCs, timerVars,
        mainVars
<1>1. CASE TimerFires
  BY <1>1 DEF TimerFires
<1>2. CASE SetStop
  BY <1>2 DEF SetStop
<1>3. CASE Broadcast
  BY <1>3 DEF Broadcast
<1>4. CASE UNCHANGED vars
  BY <1>4 DEF vars
<1> QED BY <1>1, <1>2, <1>3, <1>4 DEF SignalStep

(* server.c of timer__ keeps its list within MAX_TASKS, and a worker that  *)
(* has a task is processing it.                                            *)
THEOREM TimerInvariant == Spec => []TimerInv
<1>1. TimerInv /\ [Next]_vars => TimerInv'
  BY WorkerKeepsTimerInv, MainKeepsTimerInv, SignalKeepsTimerInv DEF Next
<1> QED BY InitTimerInv, <1>1, PTL DEF Spec

(* Type correctness, for any number of tasks and workers.                  *)
THEOREM TimerTypeCorrect == Spec => []TypeOK
BY TimerInvariant, PTL DEF TimerInv

-----------------------------------------------------------------------------
(* A worker's step moves at most one task: from the head of the list into  *)
(* its hands, or from its hands to the processed ones.                     *)
LEMMA WorkerKeepsPlaces ==
    ASSUME TimerInv, PlacesInv, NEW w \in Workers, WorkerStep(w)
    PROVE  PlacesInv'
<1> USE TimerAssumption
    DEF TimerInv, TypeOK, Control, TaskIds, task_count, timerVars, mainVars, Added
<1>1. CASE \/ Loop(w) \/ Lock(w) \/ Wait(w) \/ StopBeforeTake(w) \/ Relock(w)
           \/ TestEmpty(w) \/ Arm(w)
  <2>1. UNCHANGED <<task_list, task, main, next_task, dropped, processed>>
    BY <1>1 DEF Loop, Lock, Wait, StopBeforeTake, Relock, TestEmpty, Arm
  <2> QED BY <2>1 DEF PlacesInv, Apart, Complete
<1>2. CASE Take(w)
  <2>1. /\ task_list # <<>> /\ task[w] = 0 /\ task_list \in Seq(TaskIds)
        /\ task' = [task EXCEPT ![w] = task_list[1]]
        /\ task_list' = Tail(task_list)
        /\ UNCHANGED <<main, next_task, dropped, processed>>
    BY <1>2 DEF Take, Goto
  <2>2. /\ Len(task_list) \in Nat /\ Len(task_list) > 0
        /\ DOMAIN task_list = 1 .. Len(task_list)
        /\ DOMAIN task_list' = 1 .. Len(task_list) - 1
        /\ \A i \in DOMAIN task_list' : task_list'[i] = task_list[i + 1]
        /\ \A i \in DOMAIN task_list : task_list[i] \in TaskIds
        /\ 0 \notin TaskIds
        /\ \A u \in Workers : task'[u] = IF u = w THEN task_list[1] ELSE task[u]
    BY <2>1
  <2> HIDE DEF TypeOK, TimerInv, Control, TaskIds
  <2>3. Apart'
    BY <2>1, <2>2 DEF PlacesInv, Apart
  <2>4. \A i : (\E j \in DOMAIN task_list : task_list[j] = i)
               <=> i = task_list[1] \/ \E j \in DOMAIN task_list' : task_list'[j] = i
    <3> SUFFICES ASSUME NEW i, NEW j \in DOMAIN task_list, task_list[j] = i,
                        i # task_list[1]
                 PROVE  \E k \in DOMAIN task_list' : task_list'[k] = i
      BY <2>2
    <3>1. j - 1 \in DOMAIN task_list'
      BY <2>2
    <3> QED BY <3>1, <2>2
  <2>5. \A i \in TaskIds : (\E u \in Workers : task'[u] = i)
               <=> i = task_list[1] \/ \E u \in Workers : task[u] = i
    BY <2>1, <2>2
  <2>6. Complete'
    BY <2>1, <2>4, <2>5 DEF PlacesInv, Complete
  <2> QED BY <2>3, <2>6 DEF PlacesInv
<1>3. CASE Process(w)
  <2>1. /\ task[w] \in TaskIds
        /\ task' = [task EXCEPT ![w] = 0] /\ processed' = processed \cup {task[w]}
        /\ UNCHANGED <<task_list, main, next_task, dropped>>
        /\ \A u \in Workers : task'[u] = IF u = w THEN 0 ELSE task[u]
        /\ 0 \notin TaskIds /\ dropped \subseteq TaskIds /\ processed \subseteq TaskIds
        /\ \A i \in DOMAIN task_list : task_list[i] \in TaskIds
    BY <1>3 DEF Process, Goto
  <2> HIDE DEF TypeOK, TimerInv, Control, TaskIds
  <2>2. Apart'
    BY <2>1 DEF PlacesInv, Apart
  <2>3. Complete'
    BY <2>1 DEF PlacesInv, Complete
  <2> QED BY <2>2, <2>3 DEF PlacesInv
<1> QED BY <1>1, <1>2, <1>3 DEF WorkerStep

(* main puts the task of its loop counter, which is nowhere yet, into the  *)
(* list or among the refused ones.                                         *)
LEMMA MainKeepsPlaces ==
    ASSUME TimerInv, PlacesInv, MainStep PROVE PlacesInv'
<1> USE TimerAssumption
    DEF TimerInv, TypeOK, Control, TaskIds, task_count, timerVars, mainVars, Added
<1>1. CASE Add
  <2>1. /\ main = "add" /\ main' = "signal" /\ next_task \in TaskIds
        /\ task_list' = Append(task_list, next_task)
        /\ UNCHANGED <<task, next_task, dropped, processed>>
    BY <1>1 DEF Add
  <2>2. /\ next_task \notin dropped \cup processed
        /\ \A j \in DOMAIN task_list : task_list[j] # next_task
        /\ \A w \in Workers : task[w] # next_task
    BY <2>1 DEF PlacesInv, Complete
  <2>3. /\ Len(task_list) \in Nat /\ DOMAIN task_list = 1 .. Len(task_list)
        /\ DOMAIN task_list' = 1 .. Len(task_list) + 1
        /\ \A i \in DOMAIN task_list : task_list'[i] = task_list[i]
        /\ task_list'[Len(task_list) + 1] = next_task
    BY <2>1
  <2>4. Apart'
    BY <2>1, <2>2, <2>3 DEF PlacesInv, Apart
  <2>5. \A i : (\E j \in DOMAIN task_list' : task_list'[j] = i)
               <=> i = next_task \/ \E j \in DOMAIN task_list : task_list[j] = i
    <3> SUFFICES ASSUME NEW i
                 PROVE  (\E j \in DOMAIN task_list' : task_list'[j] = i)
                        <=> \/ i = next_task
                            \/ \E j \in DOMAIN task_list : task_list[j] = i
      OBVIOUS
    <3>1. \A j \in DOMAIN task_list' : j = Len(task_list) + 1 \/ j \in DOMAIN task_list
      BY <2>3
    <3>2. /\ Len(task_list) + 1 \in DOMAIN task_list'
          /\ DOMAIN task_list \subseteq DOMAIN task_list'
      BY <2>3
    <3> QED BY <2>3, <3>1, <3>2, Zenon
  <2>6. \A i \in TaskIds : i \in Added' <=> i \in Added \/ i = next_task
    BY <2>1
  <2> HIDE DEF TypeOK, TimerInv, Control, TaskIds, Added
  <2>7. Complete'
    BY <2>1, <2>5, <2>6 DEF PlacesInv, Complete
  <2> QED BY <2>4, <2>7 DEF PlacesInv
<1>2. CASE AddFull
  <2>1. /\ main = "add" /\ next_task \in TaskIds
        /\ dropped' = dropped \cup {next_task}
        /\ next_task' = next_task + 1 /\ main' \in {"add", "join"}
        /\ UNCHANGED <<task_list, task, processed>>
    BY <1>2 DEF AddFull, AfterTask
  <2>2. /\ next_task \notin dropped \cup processed
        /\ \A j \in DOMAIN task_list : task_list[j] # next_task
        /\ \A w \in Workers : task[w] # next_task
    BY <2>1 DEF PlacesInv, Complete
  <2>3. Apart'
    BY <2>1, <2>2 DEF PlacesInv, Apart
  <2>4. Complete'
    BY <2>1, <2>2 DEF PlacesInv, Complete
  <2> QED BY <2>3, <2>4 DEF PlacesInv
<1>3. CASE Signal \/ TestNonEmpty \/ Cancel \/ Join
  <2>1. UNCHANGED <<task_list, task, dropped, processed>>
    BY <1>3 DEF Signal, TestNonEmpty, AfterTask, Cancel, Join
  <2>2. Added' = Added
    BY <1>3 DEF Signal, TestNonEmpty, AfterTask, Cancel, Join
  <2> QED BY <2>1, <2>2 DEF PlacesInv, Apart, Complete
<1> QED BY <1>1, <1>2, <1>3 DEF MainStep

(* Tasks stay where they are when the timer fires or the handler runs.     *)
LEMMA SignalKeepsPlaces ==
    ASSUME PlacesInv, TimerFires \/ SignalStep \/ UNCHANGED vars
    PROVE  PlacesInv'
BY DEF PlacesInv, Apart, Complete, Added, TimerFires, SignalStep, SetStop,
       Broadcast, vars, mainVars

(* The tasks' places stay apart and complete.                              *)
THEOREM PlacesInvariant == Spec => []PlacesInv
<1>1. Init => PlacesInv
  BY TimerAssumption
     DEF Init, PlacesInv, Apart, Complete, Added, TaskIds
<1>2. TimerInv /\ PlacesInv /\ [Next]_vars => PlacesInv'
  BY WorkerKeepsPlaces, MainKeepsPlaces, SignalKeepsPlaces DEF Next
<1> QED BY <1>1, <1>2, TimerInvariant, PTL DEF Spec

-----------------------------------------------------------------------------
(* As many workers have a task as there are tasks in their hands.          *)
LEMMA HandsAndTasks ==
    ASSUME \A v, w \in Workers : v # w /\ task[v] # 0 => task[v] # task[w]
    PROVE  /\ IsFiniteSet(InHand)
           /\ Cardinality({w \in Workers : task[w] # 0}) = Cardinality(InHand)
<1> DEFINE Busy == {w \in Workers : task[w] # 0}
           f == [w \in Busy |-> task[w]]
<1>1. /\ f \in [Busy -> InHand]
      /\ \A x, y \in Busy : f[x] = f[y] => x = y
      /\ \A z \in InHand : \E x \in Busy : f[x] = z
  BY DEF InHand
<1>2. IsFiniteSet(Busy)
  BY TimerAssumption, FS_Subset
<1> HIDE DEF Busy, f
<1>3. IsFiniteSet(InHand) /\ Cardinality(InHand) = Cardinality(Busy)
  BY <1>1, <1>2, BijectionSize
<1> QED BY <1>3 DEF Busy

(* The sizes of the four places add up.                                    *)
LEMMA DisjointSizes ==
    ASSUME NEW A, NEW B, NEW C, NEW D,
           IsFiniteSet(A), IsFiniteSet(B), IsFiniteSet(C), IsFiniteSet(D),
           A \cap B = {}, (A \cup B) \cap C = {}, (A \cup B \cup C) \cap D = {}
    PROVE  Cardinality(A \cup B \cup C \cup D)
             = Cardinality(A) + Cardinality(B) + Cardinality(C) + Cardinality(D)
<1>1. IsFiniteSet(A \cup B) /\ Cardinality(A \cup B) = Cardinality(A) + Cardinality(B)
  BY DisjointSize
<1>2. /\ IsFiniteSet(A \cup B \cup C)
      /\ Cardinality(A \cup B \cup C) = Cardinality(A \cup B) + Cardinality(C)
  BY <1>1, DisjointSize
<1>3. Cardinality(A \cup B \cup C \cup D) = Cardinality(A \cup B \cup C) + Cardinality(D)
  BY <1>2, DisjointSize
<1> QED BY <1>1, <1>2, <1>3

(* The property follows from the places being apart and complete.          *)
LEMMA PlacesImplyTaskOnce ==
    ASSUME TimerInv, PlacesInv PROVE TaskOnce
<1> USE DEF TimerInv, TypeOK, TaskIds, task_count
<1>1. Added = dropped \cup ToSet(task_list) \cup InHand \cup processed
  <2>1. /\ Added \subseteq TaskIds /\ 0 \notin TaskIds
        /\ dropped \subseteq TaskIds /\ processed \subseteq TaskIds
        /\ \A w \in Workers : task[w] \in TaskIds \cup {0}
    BY DEF Added
  <2>2. task_list \in Seq(TaskIds)
    OBVIOUS
  <2> HIDE DEF TypeOK, TaskIds, TimerInv
  <2>3. \A j \in DOMAIN task_list : task_list[j] \in TaskIds
    BY <2>2
  <2>4. \A i : i \in dropped \cup ToSet(task_list) \cup InHand \cup processed
              => i \in TaskIds
    BY <2>1, <2>3 DEF ToSet, InHand
  <2>5. \A i \in TaskIds :
            i \in ToSet(task_list) <=> \E j \in DOMAIN task_list : task_list[j] = i
    BY DEF ToSet
  <2>6. \A i \in TaskIds : i \in InHand <=> \E w \in Workers : task[w] = i
    BY <2>1 DEF InHand
  <2> QED BY <2>1, <2>4, <2>5, <2>6 DEF PlacesInv, Complete
<1>2. IsFiniteSet(dropped) /\ IsFiniteSet(processed)
  <2>1. IsFiniteSet(TaskIds)
    BY TimerAssumption, IntervalSize
  <2> QED BY <2>1, FS_Subset
<1>3. IsFiniteSet(ToSet(task_list)) /\ Cardinality(ToSet(task_list)) = Len(task_list)
  BY DistinctLength DEF PlacesInv, Apart, ToSet
<1>4. /\ IsFiniteSet(InHand)
      /\ Cardinality({w \in Workers : task[w] # 0}) = Cardinality(InHand)
  BY HandsAndTasks DEF PlacesInv, Apart
<1>5. /\ dropped \cap ToSet(task_list) = {}
      /\ (dropped \cup ToSet(task_list)) \cap InHand = {}
      /\ (dropped \cup ToSet(task_list) \cup InHand) \cap processed = {}
  BY DEF PlacesInv, Apart, InHand, ToSet
<1>6. Cardinality(dropped \cup ToSet(task_list) \cup InHand \cup processed)
        = Cardinality(dropped) + Cardinality(ToSet(task_list))
            + Cardinality(InHand) + Cardinality(processed)
  BY <1>2, <1>3, <1>4, <1>5, DisjointSizes
<1> QED BY <1>1, <1>3, <1>4, <1>6 DEF TaskOnce

(* Every task that main has dealt with is in exactly one place.            *)
THEOREM TasksOnce == Spec => []TaskOnce
BY TimerInvariant, PlacesInvariant, PlacesImplyTaskOnce, PTL
=============================================================================
