------------------------------ MODULE TimerPool -----------------------------
(***************************************************************************)
(* practice/timer__/server.c: main adds a fixed number of tasks to a       *)
(* bounded list, worker threads process them, and a one-shot timer that a  *)
(* worker arms when it sees the list empty, and main cancels when it sees  *)
(* it non-empty, sends the process SIGUSR2; the handler of that signal     *)
(* sets stop_threads and wakes the sleeping workers.                       *)
(*                                                                         *)
(* The list changes only under task_mutex, so it is a sequence; what       *)
(* matters is what the code does with task_count after it has unlocked.    *)
(***************************************************************************)
EXTENDS Integers, Sequences, FiniteSets, SequencesExt

CONSTANTS Workers,   \* the threads that run process_task
          NumTasks,  \* how many tasks main adds (10 in the code)
          MaxTasks,  \* MAX_TASKS
          None

ASSUME TimerAssumption == /\ IsFiniteSet(Workers) /\ None \notin Workers
                          /\ NumTasks \in Nat /\ MaxTasks \in Nat \ {0}

VARIABLES task_list,
          task_mutex,     \* its holder, or None
          pc,             \* where each worker is
          task,           \* the task each worker has taken, 0 for none
          main,           \* where main is
          next_task,      \* main's loop counter
          timer,          \* "off" or "armed"
          sigusr2,        \* progress of the signal and its handler
          stop_threads,
          processed,      \* tasks whose processing was reported
          dropped         \* tasks refused because the list was full

vars == <<task_list, task_mutex, pc, task, main, next_task, timer, sigusr2,
          stop_threads, processed, dropped>>
timerVars == <<timer, sigusr2, stop_threads>>
mainVars  == <<main, next_task, dropped>>

task_count == Len(task_list)
TaskIds == 1 .. NumTasks

WorkerPCs == {"loop", "lock", "check", "waiting", "relock", "process", "test",
              "arm", "done"}

Init == /\ task_list = <<>>
        /\ task_mutex = None
        /\ pc = [w \in Workers |-> "loop"]
        /\ task = [w \in Workers |-> 0]
        /\ main = IF NumTasks > 0 THEN "add" ELSE "join"
        /\ next_task = 1
        /\ timer = "off"
        /\ sigusr2 = "none"
        /\ stop_threads = FALSE
        /\ processed = {}
        /\ dropped = {}

-----------------------------------------------------------------------------
(* process_task                                                            *)

Goto(w, from, to) == /\ pc[w] = from
                     /\ pc' = [pc EXCEPT ![w] = to]

Loop(w) == /\ Goto(w, "loop", IF stop_threads THEN "done" ELSE "lock")
           /\ UNCHANGED <<task_list, task_mutex, task, mainVars, timerVars,
                          processed>>

(* The flag is tested again under the mutex, before the wait.              *)
Lock(w) == /\ task_mutex = None
           /\ IF stop_threads
              THEN Goto(w, "lock", "done") /\ UNCHANGED task_mutex
              ELSE Goto(w, "lock", "check") /\ task_mutex' = w
           /\ UNCHANGED <<task_list, task, mainVars, timerVars, processed>>

(* The wait is a loop on task_count alone.                                 *)
Wait(w) == /\ task_list = <<>>
           /\ Goto(w, "check", "waiting")
           /\ task_mutex' = None
           /\ UNCHANGED <<task_list, task, mainVars, timerVars, processed>>

StopBeforeTake(w) == /\ task_list # <<>> /\ stop_threads
                     /\ Goto(w, "check", "done")
                     /\ task_mutex' = None
                     /\ UNCHANGED <<task_list, task, mainVars, timerVars,
                                    processed>>

(* Variant: the first task is taken and the last one removed.              *)
TakeWithoutShift(w) == /\ task_list # <<>> /\ ~stop_threads
                       /\ Goto(w, "check", "process")
                       /\ task' = [task EXCEPT ![w] = Head(task_list)]
                       /\ task_list' = Front(task_list)
                       /\ task_mutex' = None
                       /\ UNCHANGED <<mainVars, timerVars, processed>>

Take(w) == /\ task_list # <<>> /\ ~stop_threads
           /\ Goto(w, "check", "process")
           /\ task' = [task EXCEPT ![w] = Head(task_list)]
           /\ task_list' = Tail(task_list)
           /\ task_mutex' = None
           /\ UNCHANGED <<mainVars, timerVars, processed>>

Relock(w) == /\ task_mutex = None
             /\ Goto(w, "relock", "check")
             /\ task_mutex' = w
             /\ UNCHANGED <<task_list, task, mainVars, timerVars, processed>>

Process(w) == /\ Goto(w, "process", "test")
              /\ processed' = processed \cup {task[w]}
              /\ task' = [task EXCEPT ![w] = 0]
              /\ UNCHANGED <<task_list, task_mutex, mainVars, timerVars>>

(* task_count is read without the mutex, and the timer armed after that.   *)
TestEmpty(w) == /\ Goto(w, "test", IF task_count = 0 THEN "arm" ELSE "loop")
                /\ UNCHANGED <<task_list, task_mutex, task, mainVars, timerVars,
                               processed>>

Arm(w) == /\ Goto(w, "arm", "loop")
          /\ timer' = "armed"
          /\ UNCHANGED <<task_list, task_mutex, task, mainVars, sigusr2,
                         stop_threads, processed>>

-----------------------------------------------------------------------------
(* main and add_task                                                       *)

AfterTask == /\ next_task' = next_task + 1
             /\ main' = IF next_task < NumTasks THEN "add" ELSE "join"

(* Variant: the bound is not tested.                                       *)
AddAnyway == /\ main = "add" /\ task_mutex = None
             /\ task_list' = Append(task_list, next_task)
             /\ main' = "signal"
             /\ UNCHANGED <<task_mutex, pc, task, next_task, dropped, timerVars,
                            processed>>

Add == /\ main = "add" /\ task_mutex = None
       /\ task_count < MaxTasks
       /\ task_list' = Append(task_list, next_task)
       /\ main' = "signal"
       /\ UNCHANGED <<task_mutex, pc, task, next_task, dropped, timerVars,
                      processed>>

AddFull == /\ main = "add" /\ task_mutex = None
           /\ task_count >= MaxTasks
           /\ dropped' = dropped \cup {next_task}
           /\ AfterTask
           /\ UNCHANGED <<task_list, task_mutex, pc, task, timerVars, processed>>

(* Variant: no signal.                                                     *)
SignalForgotten ==
    /\ main = "signal"
    /\ main' = "test"
    /\ UNCHANGED <<task_list, task_mutex, pc, task, next_task, dropped,
                   timerVars, processed>>

(* pthread_cond_signal comes after the unlock.                             *)
Signal == /\ main = "signal"
          /\ IF \A w \in Workers : pc[w] # "waiting"
             THEN UNCHANGED pc
             ELSE \E w \in Workers : Goto(w, "waiting", "relock")
          /\ main' = "test"
          /\ UNCHANGED <<task_list, task_mutex, task, next_task, dropped,
                         timerVars, processed>>

TestNonEmpty == /\ main = "test"
                /\ IF task_count > 0
                   THEN main' = "cancel" /\ UNCHANGED next_task
                   ELSE AfterTask
                /\ UNCHANGED <<task_list, task_mutex, pc, task, dropped,
                               timerVars, processed>>

Cancel == /\ main = "cancel"
          /\ timer' = "off"
          /\ AfterTask
          /\ UNCHANGED <<task_list, task_mutex, pc, task, dropped, sigusr2,
                         stop_threads, processed>>

Join == /\ main = "join"
        /\ \A w \in Workers : pc[w] = "done"
        /\ main' = "exited"
        /\ UNCHANGED <<task_list, task_mutex, pc, task, next_task, dropped,
                       timerVars, processed>>

-----------------------------------------------------------------------------
(* timer_handler sends SIGUSR2; signal_handler sets the flag, then wakes   *)
(* every waiter.                                                           *)

TimerFires == /\ timer = "armed" /\ main # "exited"
              /\ timer' = "off"
              /\ sigusr2' = "pending"
              /\ UNCHANGED <<task_list, task_mutex, pc, task, mainVars,
                             stop_threads, processed>>

SetStop == /\ sigusr2 = "pending"
           /\ stop_threads' = TRUE
           /\ sigusr2' = "flagged"
           /\ UNCHANGED <<task_list, task_mutex, pc, task, mainVars, timer,
                          processed>>

Broadcast == /\ sigusr2 = "flagged"
             /\ pc' = [w \in Workers |-> IF pc[w] = "waiting" THEN "relock"
                                                              ELSE pc[w]]
             /\ sigusr2' = "handled"
             /\ UNCHANGED <<task_list, task_mutex, task, mainVars, timer,
                            stop_threads, processed>>

-----------------------------------------------------------------------------
WorkerStep(w) == \/ Loop(w) \/ Lock(w) \/ Wait(w) \/ StopBeforeTake(w)
                 \/ Take(w) \/ Relock(w) \/ Process(w) \/ TestEmpty(w) \/ Arm(w)

MainStep == Add \/ AddFull \/ Signal \/ TestNonEmpty \/ Cancel \/ Join

SignalStep == main # "exited" /\ (SetStop \/ Broadcast)

Next == \/ \E w \in Workers : WorkerStep(w)
        \/ MainStep
        \/ TimerFires
        \/ SignalStep

Spec == Init /\ [][Next]_vars

(* Threads run, an armed timer expires, a signal sent is handled.          *)
FairSpec == /\ Spec
            /\ \A w \in Workers : WF_vars(WorkerStep(w))
            /\ WF_vars(MainStep) /\ WF_vars(TimerFires) /\ WF_vars(SignalStep)

-----------------------------------------------------------------------------
(* Every variable has its type; the list never holds more than MaxTasks.    *)
TypeOK == /\ task_list \in Seq(TaskIds) /\ task_count <= MaxTasks
          /\ task_mutex \in Workers \cup {None}
          /\ pc \in [Workers -> WorkerPCs]
          /\ task \in [Workers -> TaskIds \cup {0}]
          /\ main \in {"add", "signal", "test", "cancel", "join", "exited"}
          /\ next_task \in 1 .. NumTasks + 1
          /\ timer \in {"off", "armed"}
          /\ sigusr2 \in {"none", "pending", "flagged", "handled"}
          /\ stop_threads \in BOOLEAN
          /\ processed \subseteq TaskIds
          /\ dropped \subseteq TaskIds

(* Every task main has dealt with is in one place only: refused, in the    *)
(* list, in one worker's hands, or processed.                              *)
Added == {i \in TaskIds :
            IF main \in {"signal", "test", "cancel"} THEN i <= next_task
                                                    ELSE i < next_task}
InHand == {task[w] : w \in Workers} \ {0}
TaskOnce ==
    /\ Added = dropped \cup ToSet(task_list) \cup InHand \cup processed
    /\ Cardinality(Added) = Cardinality(dropped) + task_count
                            + Cardinality({w \in Workers : task[w] # 0})
                            + Cardinality(processed)

(* Every task put in the list is processed, unless the stop flag is set,   *)
(* although the signal comes after the unlock, when the task may be gone   *)
(* already.                                                                *)
TaskProcessed ==
    \A i \in TaskIds : i \in ToSet(task_list) ~> (i \in processed \/ stop_threads)

(* With everything added, nothing left in the list and every worker        *)
(* asleep, the timer is running or has gone off: nobody else could end the *)
(* process.                                                                *)
IdleMeansTimer ==
    main = "join" /\ task_list = <<>> /\ (\A w \in Workers : pc[w] = "waiting")
        => timer = "armed" \/ sigusr2 # "none"
=============================================================================
