------------------------------ MODULE TaskPool ------------------------------
(***************************************************************************)
(* practice/thread_pool/pool.c: a TCP server whose main thread accepts     *)
(* connections into a small array of tasks and whose worker threads take   *)
(* them out, receive one message, answer it and close the connection.      *)
(*                                                                         *)
(* Every access to the array is a step of its own, so the mutex has work   *)
(* to do; a condition variable's wait set is the set of threads whose pc   *)
(* is "waiting" (main waits only on task_Max_cond, workers only on         *)
(* task_cond).  A message's text is abstracted to "was it sent".           *)
(***************************************************************************)
EXTENDS Naturals, FiniteSets

CONSTANTS Workers,    \* the threads that run start_routine (MAX_THREADS of them)
          Main,       \* the thread that runs main
          Clients,    \* the connections that may arrive
          Rude,       \* clients that may close their end at any moment
          MaxTasks,   \* MAX_TASKS
          None,       \* no client, no holder of the mutex
          Spurious    \* may pthread_cond_wait return without a signal?

ASSUME PoolAssumption ==
    /\ MaxTasks \in Nat \ {0}
    /\ IsFiniteSet(Workers)
    /\ Main \notin Workers
    /\ None \notin Clients
    /\ None \notin Workers \cup {Main}
    /\ Rude \subseteq Clients
    /\ Spurious \in BOOLEAN

VARIABLES taskQueue,   \* the array, MaxTasks slots numbered from 0
          task_count,
          task_mutex,  \* its holder, or None
          pc,          \* where each thread is
          new_task,    \* each thread's local variable: the client in hand
          conn,        \* the server's side of each connection
          sent,        \* clients whose message has arrived
          hung,        \* clients that closed their end
          running      \* FALSE once the process has exited

vars == <<taskQueue, task_count, task_mutex, pc, new_task,
          conn, sent, hung, running>>
queueVars  == <<taskQueue, task_count>>
clientVars == <<sent, hung>>

Threads == Workers \cup {Main}
Slots   == 0 .. MaxTasks - 1

MainPCs   == {"accept", "lock", "store", "incr", "signal", "check",
              "waiting", "relock", "unlock"}
WorkerPCs == {"lock", "check", "waiting", "relock", "take", "shift", "unlock",
              "recv", "send", "wakeMain"}

Init == /\ taskQueue = [i \in Slots |-> None]
        /\ task_count = 0
        /\ task_mutex = None
        /\ pc = [t \in Threads |-> IF t = Main THEN "accept" ELSE "lock"]
        /\ new_task = [t \in Threads |-> None]
        /\ conn = [c \in Clients |-> "fresh"]
        /\ sent = {}
        /\ hung = {}
        /\ running = TRUE

-----------------------------------------------------------------------------
(* The primitives of pthreads.                                             *)

Goto(t, from, to) == /\ pc[t] = from
                     /\ pc' = [pc EXCEPT ![t] = to]

Acquire(t) == /\ task_mutex = None
              /\ task_mutex' = t

Release(t) == task_mutex' = None

(* pthread_cond_signal: one of the waiters in S, if there is any, has to   *)
(* take the mutex again; the caller t goes on to "to".                     *)
Signal(S, t, from, to) ==
    /\ pc[t] = from
    /\ \/ /\ \A u \in S : pc[u] # "waiting"
          /\ pc' = [pc EXCEPT ![t] = to]
       \/ \E u \in S : /\ pc[u] = "waiting"
                       /\ pc' = [pc EXCEPT ![t] = to, ![u] = "relock"]

(* A waiter that returns from pthread_cond_wait without a signal.          *)
SpuriousWakeup(t) == /\ Spurious
                     /\ Goto(t, "waiting", "relock")
                     /\ UNCHANGED <<queueVars, task_mutex, new_task, conn,
                                    clientVars, running>>

Relock(t) == /\ Goto(t, "relock", "check")
             /\ Acquire(t)
             /\ UNCHANGED <<queueVars, new_task, conn, clientVars, running>>

-----------------------------------------------------------------------------
(* main                                                                    *)

MainAccept(c) == /\ Goto(Main, "accept", "lock")
                 /\ conn[c] = "pending"
                 /\ conn' = [conn EXCEPT ![c] = "accepted"]
                 /\ new_task' = [new_task EXCEPT ![Main] = c]
                 /\ UNCHANGED <<queueVars, task_mutex, clientVars, running>>

(* accept returns an error for a connection aborted before it was taken    *)
(* and main returns -1, which ends the process.                            *)
MainAcceptFails(c) == /\ pc[Main] = "accept"
                      /\ conn[c] = "pending" /\ c \in hung
                      /\ running' = FALSE
                      /\ UNCHANGED <<queueVars, task_mutex, pc, new_task, conn,
                                     clientVars>>

MainLock == /\ Goto(Main, "lock", "store")
            /\ Acquire(Main)
            /\ UNCHANGED <<queueVars, new_task, conn, clientVars, running>>

MainStore == /\ Goto(Main, "store", "incr")
             /\ taskQueue' = [taskQueue EXCEPT ![task_count] = new_task[Main]]
             /\ UNCHANGED <<task_count, task_mutex, new_task, conn, clientVars,
                            running>>

MainIncr == /\ Goto(Main, "incr", "signal")
            /\ task_count' = task_count + 1
            /\ new_task' = [new_task EXCEPT ![Main] = None]
            /\ UNCHANGED <<taskQueue, task_mutex, conn, clientVars, running>>

MainSignal == /\ Signal(Workers, Main, "signal", "check")
              /\ UNCHANGED <<queueVars, task_mutex, new_task, conn, clientVars,
                             running>>

MainCheckFull == /\ task_count >= MaxTasks
                 /\ Goto(Main, "check", "waiting")
                 /\ Release(Main)
                 /\ UNCHANGED <<queueVars, new_task, conn, clientVars, running>>

(* Variant: main does not wait for room.                                   *)
MainNeverWaits == /\ Goto(Main, "check", "unlock")
                  /\ UNCHANGED <<queueVars, task_mutex, new_task, conn,
                                 clientVars, running>>

MainCheckRoom == /\ task_count < MaxTasks
                 /\ Goto(Main, "check", "unlock")
                 /\ UNCHANGED <<queueVars, task_mutex, new_task, conn,
                                clientVars, running>>

MainUnlock == /\ Goto(Main, "unlock", "accept")
              /\ Release(Main)
              /\ UNCHANGED <<queueVars, new_task, conn, clientVars, running>>

-----------------------------------------------------------------------------
(* start_routine, handle_request and respond                               *)

(* Variant: the worker looks at the array without the mutex.               *)
WorkerSkipsLock(w) == /\ Goto(w, "lock", "check")
                      /\ UNCHANGED <<queueVars, task_mutex, new_task, conn,
                                     clientVars, running>>

WorkerLock(w) == /\ Goto(w, "lock", "check")
                 /\ Acquire(w)
                 /\ UNCHANGED <<queueVars, new_task, conn, clientVars, running>>

WorkerCheckEmpty(w) == /\ task_count = 0
                       /\ Goto(w, "check", "waiting")
                       /\ Release(w)
                       /\ UNCHANGED <<queueVars, new_task, conn, clientVars,
                                      running>>

WorkerCheckTask(w) == /\ task_count # 0
                      /\ Goto(w, "check", "take")
                      /\ UNCHANGED <<queueVars, task_mutex, new_task, conn,
                                     clientVars, running>>

(* Variant: take the newest task while the shift still drops the oldest.   *)
WorkerTakeNewest(w) ==
    /\ Goto(w, "take", "shift")
    /\ new_task' = [new_task EXCEPT ![w] = taskQueue[task_count - 1]]
    /\ UNCHANGED <<queueVars, task_mutex, conn, clientVars, running>>

WorkerTake(w) == /\ Goto(w, "take", "shift")
                 /\ new_task' = [new_task EXCEPT ![w] = taskQueue[0]]
                 /\ UNCHANGED <<queueVars, task_mutex, conn, clientVars,
                                running>>

(* The shift copies slot i+1 onto slot i for every i below task_count.  The *)
(* slot past the end of a full array holds no task of ours: what is copied  *)
(* from there is any bit pattern, None or a stale client.                   *)
ShiftedQueue(q, n, beyond) ==
    [i \in Slots |-> IF i < n
                     THEN IF i + 1 \in Slots THEN q[i + 1] ELSE beyond
                     ELSE q[i]]

WorkerShift(w) == /\ Goto(w, "shift", "unlock")
                  /\ \E beyond \in Clients \cup {None} :
                        taskQueue' = ShiftedQueue(taskQueue, task_count, beyond)
                  /\ task_count' = task_count - 1
                  /\ UNCHANGED <<task_mutex, new_task, conn, clientVars, running>>

WorkerUnlock(w) == /\ Goto(w, "unlock", "recv")
                   /\ Release(w)
                   /\ UNCHANGED <<queueVars, new_task, conn, clientVars, running>>

(* recv blocks until the message arrives or the client closes its end;     *)
(* with nothing to read it returns 0 and the worker exits the process.     *)
WorkerRecv(w) == /\ new_task[w] \in sent
                 /\ Goto(w, "recv", "send")
                 /\ UNCHANGED <<queueVars, task_mutex, new_task, conn,
                                clientVars, running>>

WorkerRecvFails(w) == /\ pc[w] = "recv"
                      /\ new_task[w] \in hung \ sent
                      /\ running' = FALSE
                      /\ UNCHANGED <<queueVars, task_mutex, pc, new_task, conn,
                                     clientVars>>

WorkerSend(w) == /\ Goto(w, "send", "wakeMain")
                 /\ conn' = [conn EXCEPT ![new_task[w]] = "closed"]
                 /\ new_task' = [new_task EXCEPT ![w] = None]
                 /\ UNCHANGED <<queueVars, task_mutex, clientVars, running>>

WorkerSendFails(w) == /\ pc[w] = "send"
                      /\ new_task[w] \in hung
                      /\ running' = FALSE
                      /\ UNCHANGED <<queueVars, task_mutex, pc, new_task, conn,
                                     clientVars>>

(* Variant: the signal to main is forgotten, or goes to the other          *)
(* condition variable.                                                     *)
WorkerForgetsMain(w) == /\ Goto(w, "wakeMain", "lock")
                        /\ UNCHANGED <<queueVars, task_mutex, new_task, conn,
                                       clientVars, running>>

(* respond signals task_Max_cond without holding task_mutex.               *)
WorkerWakeMain(w) == /\ Signal({Main}, w, "wakeMain", "lock")
                     /\ UNCHANGED <<queueVars, task_mutex, new_task, conn,
                                    clientVars, running>>

-----------------------------------------------------------------------------
(* client.c: connect, send one message, read the answer, close.            *)

ClientConnect(c) == /\ conn[c] = "fresh"
                    /\ conn' = [conn EXCEPT ![c] = "pending"]
                    /\ UNCHANGED <<queueVars, task_mutex, pc, new_task,
                                   clientVars, running>>

ClientSend(c) == /\ conn[c] \in {"pending", "accepted"}
                 /\ c \notin sent \cup hung
                 /\ sent' = sent \cup {c}
                 /\ UNCHANGED <<queueVars, task_mutex, pc, new_task, conn, hung,
                                running>>

ClientHangUp(c) == /\ c \in Rude \ hung
                   /\ conn[c] \in {"pending", "accepted"}
                   /\ hung' = hung \cup {c}
                   /\ UNCHANGED <<queueVars, task_mutex, pc, new_task, conn,
                                  sent, running>>

-----------------------------------------------------------------------------
MainStep == \/ \E c \in Clients : MainAccept(c) \/ MainAcceptFails(c)
            \/ MainLock \/ MainStore \/ MainIncr \/ MainSignal
            \/ MainCheckFull \/ MainCheckRoom \/ MainUnlock
            \/ Relock(Main)

WorkerStep(w) == \/ WorkerLock(w) \/ WorkerCheckEmpty(w) \/ WorkerCheckTask(w)
                 \/ WorkerTake(w) \/ WorkerShift(w) \/ WorkerUnlock(w)
                 \/ WorkerRecv(w) \/ WorkerRecvFails(w)
                 \/ WorkerSend(w) \/ WorkerSendFails(w) \/ WorkerWakeMain(w)
                 \/ Relock(w)

ClientStep(c) == ClientConnect(c) \/ ClientSend(c) \/ ClientHangUp(c)

Next == /\ running
        /\ \/ MainStep
           \/ \E w \in Workers : WorkerStep(w)
           \/ \E t \in Threads : SpuriousWakeup(t)
           \/ \E c \in Clients : ClientStep(c)

Spec == Init /\ [][Next]_vars

(* The scheduler runs every thread that can run, and a client that has     *)
(* connected sends its message; nothing forces one to connect or hang up.  *)
Fairness == /\ WF_vars(running /\ MainStep)
            /\ \A w \in Workers : WF_vars(running /\ WorkerStep(w))
            /\ \A c \in Clients : WF_vars(running /\ ClientSend(c))
            /\ SF_vars(running /\ (MainLock \/ Relock(Main)))
            /\ \A w \in Workers : SF_vars(running /\ (WorkerLock(w) \/ Relock(w)))

FairSpec == Spec /\ Fairness

-----------------------------------------------------------------------------
(* The state a thread's pc stands for.                                     *)

InCriticalSection(t) ==
    IF t = Main THEN pc[t] \in {"store", "incr", "signal", "check", "unlock"}
                ELSE pc[t] \in {"check", "take", "shift", "unlock"}

(* The client t has in hand: between accept and the increment for main,    *)
(* between the end of the shift and the close for a worker.  Before the    *)
(* shift the task still counts as queued.                                  *)
InHand(t) == IF t = Main THEN pc[t] \in {"lock", "store", "incr"}
                         ELSE pc[t] \in {"unlock", "recv", "send"}

Queued(c) == {i \in Slots : i < task_count /\ taskQueue[i] = c}
Holders(c) == {t \in Threads : InHand(t) /\ new_task[t] = c}

-----------------------------------------------------------------------------
(* Every variable has its type; in particular task_count stays an index    *)
(* range of the array, so that main's store at taskQueue[task_count] and a *)
(* worker's read of taskQueue[0] are inside it.                            *)
TypeOK == /\ taskQueue \in [Slots -> Clients \cup {None}]
          /\ task_count \in 0 .. MaxTasks
          /\ task_mutex \in Threads \cup {None}
          /\ pc \in [Threads -> MainPCs \cup WorkerPCs]
          /\ pc[Main] \in MainPCs
          /\ \A w \in Workers : pc[w] \in WorkerPCs
          /\ new_task \in [Threads -> Clients \cup {None}]
          /\ conn \in [Clients -> {"fresh", "pending", "accepted", "closed"}]
          /\ sent \subseteq Clients
          /\ hung \subseteq Clients
          /\ running \in BOOLEAN

(* No accepted client is lost or served twice: until its connection is     *)
(* closed it sits in exactly one live slot of the array or in the hands of *)
(* exactly one thread, whatever the other threads are doing meanwhile.     *)
AcceptedOnce ==
    \A c \in Clients :
        IF conn[c] = "accepted"
        THEN \/ Holders(c) = {} /\ \E i \in Slots : Queued(c) = {i}
             \/ Queued(c) = {} /\ \E t \in Threads : Holders(c) = {t}
        ELSE Queued(c) = {} /\ Holders(c) = {}

(* Main never sleeps on task_Max_cond with nobody left to wake it: a task  *)
(* is queued, or a worker is still to signal for one it has taken.  The    *)
(* signal is sent without the mutex, so this is not obvious.               *)
MainHasWaker ==
    pc[Main] = "waiting" =>
        \/ task_count > 0
        \/ \E w \in Workers : pc[w] \in {"unlock", "recv", "send", "wakeMain"}

(* The pool implements the abstract dispatcher: the live part of the array *)
(* is the waiting line, oldest first, and a worker serves the client it    *)
(* has shifted out.                                                        *)
Abstract == INSTANCE FifoDispatch WITH
    Servers <- Workers, Capacity <- MaxTasks,
    waitingLine <- [i \in 1 .. task_count |-> taskQueue[i - 1]],
    serving <- [w \in Workers |-> IF InHand(w) THEN new_task[w] ELSE None],
    served <- {c \in Clients : conn[c] = "closed"}
ImplementsDispatch == Abstract!Spec

(* Every connection made by a client that behaves as client.c does is      *)
(* answered and closed in the end, however many of them queue up: no task  *)
(* is left behind by workers that sleep on task_cond, and main does not    *)
(* sleep for ever.                                                         *)
EveryClientAnswered ==
    \A c \in Clients : conn[c] = "pending" ~> conn[c] = "closed" \/ ~running
=============================================================================
