------------------------------- MODULE Planner -------------------------------
(***************************************************************************)
(* Lab7_threads/practice/PLANNER: a scheduler of threads by priority.      *)
(* main forks one thread, First; each of First's slices forks a thread of  *)
(* a higher priority and joins it.  so_fork unlocks a mutex its caller may *)
(* hold, and First goes on without it, so every access is a step.          *)
(*                                                                         *)
(* A thread is known by its pthread_t, which pthread_create may use again  *)
(* once its thread was joined.                                             *)
(***************************************************************************)
EXTENDS Naturals, Sequences, SequencesExt

CONSTANTS First, Forked,   \* Forked: the threads First forks, in order
          Main, None,
          Slices           \* time_slice / time_quantum of every thread

VARIABLES pc, mutex,
          ready_queues,    \* of First's priority and of the others'
          current,         \* current_thread_in_execution, a pthread_t
          thread_id,       \* the pthread_t of each thread
          slices,          \* what is left of its time_slice
          forked           \* how many threads First has forked

plannerVars == <<pc, mutex, ready_queues, current, thread_id, slices, forked>>

Tasks  == {First} \cup Range(Forked)

(* First forks a thread in each of its slices; all are different.          *)
PlannerParameters ==
    /\ Slices \in Nat \ {0}
    /\ Forked \in Seq(Range(Forked)) /\ IsInjective(Forked)
    /\ Slices <= Len(Forked)
    /\ First \notin Range(Forked) /\ {Main, None} \cap Tasks = {}

Prios  == {"low", "high"}
priority(t) == IF t = First THEN "low" ELSE "high"
LastFork == Forked[forked]

(* main starts behind its call of so_fork, which nobody can disturb.       *)
Start == /\ pc = [t \in Tasks \cup {Main} |->
                     IF t = Main THEN "lock" ELSE IF t = First THEN "loop"
                     ELSE "unborn"]
         /\ mutex = None
         /\ ready_queues = [p \in Prios |-> IF p = "low" THEN <<First>> ELSE <<>>]
         /\ current = None
         /\ thread_id = [t \in Tasks |-> t]
         /\ slices = [t \in Tasks |-> Slices]
         /\ forked = 0

(* Everybody has ended.                                                    *)
PlannerQuiet == /\ pc = [t \in Tasks \cup {Main} |-> "end"]
                /\ mutex = None
                /\ ready_queues = [p \in Prios |-> <<>>]
                /\ current = None
                /\ thread_id = [t \in Tasks |-> t]
                /\ slices = [t \in Tasks |-> 0]
                /\ forked = 0

-----------------------------------------------------------------------------
Goto(t, from, to) == pc[t] = from /\ pc' = [pc EXCEPT ![t] = to]

(* The mutex is free, or whoever unlocks it made it so.                    *)
Acquire(t, from, to) ==
    /\ Goto(t, from, to) /\ mutex = None /\ mutex' = t
    /\ UNCHANGED <<ready_queues, current, thread_id, slices, forked>>
Release(t, from, to) ==
    /\ Goto(t, from, to) /\ mutex' = None
    /\ UNCHANGED <<ready_queues, current, thread_id, slices, forked>>

(* t at the end of the list; if it is in the list already, the list now    *)
(* ends with it.                                                           *)
enqueue(t) == LET q == ready_queues[priority(t)]
              IN  ready_queues' = [ready_queues EXCEPT ![priority(t)] =
                      IF Contains(q, t) THEN SubSeq(q, 1, CHOOSE i \in DOMAIN q : q[i] = t)
                      ELSE Append(q, t)]

(* pthread_cond_signal on NEXT_Thread_FIND__, where only main waits; the   *)
(* caller t goes on to "to".                                               *)
SignalMain(t, to) == pc' = [pc EXCEPT ![t] = to,
                               ![Main] = IF @ = "asleep" THEN "relock" ELSE @]

(* execute_the_thread_with_task                                            *)
Loop(t) == \/ slices[t] > 0 /\ Acquire(t, "loop", "test")
           \/ /\ slices[t] = 0 /\ Goto(t, "loop", "end")
              /\ UNCHANGED <<mutex, ready_queues, current, thread_id, slices, forked>>
NotMyTurn(t) == current # thread_id[t] /\ Release(t, "test", "asleep")
MyTurn(t) == /\ current = thread_id[t]
             /\ Goto(t, "test", IF t = First THEN "fork" ELSE "finish")
             /\ UNCHANGED <<mutex, ready_queues, current, thread_id, slices, forked>>
(* Variant: a woken thread does not look again whose turn it is.           *)
RelockRuns(t) == Acquire(t, "relock", IF t = First THEN "fork" ELSE "finish")

Relock(t) == Acquire(t, "relock", "test")

Finish(t) == /\ pc[t] = "finish"
             /\ slices' = [slices EXCEPT ![t] = @ - 1]
             /\ IF slices[t] > 1 THEN enqueue(t) ELSE UNCHANGED ready_queues
             /\ SignalMain(t, "unlock")
             /\ UNCHANGED <<mutex, current, thread_id, forked>>
Unlock(t) == Release(t, "unlock", "loop")

(* functie_rutina_thread__1_ and so_fork                                   *)
ForkUnlocks == Release(First, "fork", "create")
Create == LET new == Forked[forked + 1]
          IN  /\ pc[First] = "create"
              /\ pc' = [pc EXCEPT ![First] = "queue", ![new] = "loop"]
              /\ \E id \in {new} \cup {thread_id[Forked[i]] : i \in 1 .. forked} :
                    thread_id' = [thread_id EXCEPT ![new] = id]
              /\ forked' = forked + 1
              /\ UNCHANGED <<mutex, ready_queues, current, slices>>
ForkLocks == Acquire(First, "queue", "enqueue")
Enqueue == /\ pc[First] = "enqueue"
           /\ enqueue(LastFork)
           /\ SignalMain(First, "queued")
           /\ UNCHANGED <<mutex, current, thread_id, slices, forked>>
ForkDone == Release(First, "queued", "join")
Join == /\ Goto(First, "join", "finish")
        /\ pc[LastFork] = "end"
        /\ UNCHANGED <<mutex, ready_queues, current, thread_id, slices, forked>>

-----------------------------------------------------------------------------
(* so_runnnn and the end of main                                           *)
RunLocks == \/ Acquire(Main, "lock", "select") \/ Acquire(Main, "relock", "select")

select_next_task(q) == ready_queues[q] # <<>> /\ (q = "low" => ready_queues["high"] = <<>>)
Sleepers == {t \in Tasks : pc[t] = "asleep"}

(* One thread that waits for its turn is woken, whichever it is, and main  *)
(* waits until it is signalled.                                            *)
Select == /\ pc[Main] = "select"
          /\ \E q \in Prios :
                /\ select_next_task(q)
                /\ current' = thread_id[Head(ready_queues[q])]
                /\ ready_queues' = [ready_queues EXCEPT ![q] = Tail(@)]
          /\ IF Sleepers = {} THEN pc' = [pc EXCEPT ![Main] = "asleep"]
             ELSE \E w \in Sleepers :
                     pc' = [pc EXCEPT ![Main] = "asleep", ![w] = "relock"]
          /\ mutex' = None
          /\ UNCHANGED <<thread_id, slices, forked>>
(* Variant: the loop is left with the mutex.                               *)
BreakKeeps == /\ \A q \in Prios : ready_queues[q] = <<>>
              /\ Goto(Main, "select", "join")
              /\ UNCHANGED <<mutex, ready_queues, current, thread_id, slices, forked>>

Break == /\ \A q \in Prios : ready_queues[q] = <<>>
         /\ Release(Main, "select", "join")
JoinFirst == /\ pc[First] = "end"
             /\ Goto(Main, "join", "end")
             /\ UNCHANGED <<mutex, ready_queues, current, thread_id, slices, forked>>

(* POSIX lets a wait return although nobody signalled.                     *)
Spurious(t) == /\ Goto(t, "asleep", "relock")
               /\ UNCHANGED <<mutex, ready_queues, current, thread_id, slices, forked>>

TaskStep(t) == Loop(t) \/ NotMyTurn(t) \/ MyTurn(t) \/ Relock(t) \/ Finish(t) \/ Unlock(t)
ForkStep == ForkUnlocks \/ Create \/ ForkLocks \/ Enqueue \/ ForkDone \/ Join
MainStep == RunLocks \/ Select \/ Break \/ JoinFirst
Step == \/ MainStep \/ ForkStep
        \/ \E t \in Tasks : TaskStep(t)
        \/ \E t \in Tasks \cup {Main} : Spurious(t)

PlannerSpec == Start /\ [][Step]_plannerVars

(* The threads run on, and waits do not return for nothing for ever.       *)
PlannerFairness ==
    /\ WF_plannerVars(MainStep) /\ WF_plannerVars(ForkStep)
    /\ \A t \in Tasks : WF_plannerVars(TaskStep(t))
    /\ <>[][~\E t \in Tasks \cup {Main} : Spurious(t)]_plannerVars

-----------------------------------------------------------------------------
PlannerTypeOK == /\ mutex \in Tasks \cup {Main, None}
                 /\ current \in Tasks \cup {None}
                 /\ ready_queues \in [Prios -> Seq(Tasks)]
                 /\ slices \in [Tasks -> 0 .. Slices]
                 /\ forked \in 0 .. Len(Forked)

(* The handlers nest: a thread that First forked runs its own only as the  *)
(* chosen one, no other forked thread is in its handler then, and First is *)
(* inside its handler, between the moment it queued that very thread and   *)
(* the end of its join.  So the forked handler overlaps with First's, which*)
(* may be printing, but with no other part of a handler or of a queue's    *)
(* update by First, although First unlocks the mutex without having it.    *)
InHandler(t) == IF t = First
                THEN pc[t] \in {"fork", "create", "queue", "enqueue", "queued", "join"}
                ELSE pc[t] = "finish"
HandlersNested == \A t \in Range(Forked) :
    InHandler(t) => /\ current = thread_id[t]
                    /\ \A u \in Tasks : InHandler(u) => u \in {t, First}
                    /\ InHandler(First) /\ t = LastFork
                    /\ pc[First] \in {"queued", "join"}

(* The scheduler comes to its end, or a wakeup is lost: a thread waits for *)
(* its turn and it is another one's, or the last signal came before main   *)
(* waited for it.                                                          *)
Waits(t) == pc[t] \in {"asleep", "relock", "test"}
Lost(t) == Waits(t) /\ IF t = Main THEN \A u \in Tasks : pc[u] \in {"unborn", "end"}
                       ELSE current # thread_id[t]
PlannerFinished == pc[Main] = "end" \/ \E t \in Tasks \cup {Main} : Lost(t)
=============================================================================
