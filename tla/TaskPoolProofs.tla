--------------------------- MODULE TaskPoolProofs ---------------------------
(***************************************************************************)
(* Proofs about TaskPool for any number of workers, any set of clients and *)
(* any capacity.  The argument: the mutex owner is the only thread in a    *)
(* critical section, so a test of task_count made there still holds at the *)
(* next step; and main, the only thread that adds tasks, goes back to      *)
(* accept only when there is room.                                         *)
(***************************************************************************)
EXTENDS TaskPool, FiniteSetTheorems, SequenceTheorems, TLAPS

(* Whoever is in a critical section holds the mutex.                       *)
MutexHeld == \A t \in Threads : InCriticalSection(t) => task_mutex = t

(* Main found room before it came where it is now, and only main adds.     *)
RoomForMain ==
    pc[Main] \in {"accept", "lock", "store", "incr", "unlock"}
        => task_count < MaxTasks

(* A worker about to take a task has seen one.                             *)
TaskForWorker ==
    \A w \in Workers : pc[w] \in {"take", "shift"} => task_count > 0

PoolInv == TypeOK /\ MutexHeld /\ RoomForMain /\ TaskForWorker

(* The initial state of pool.c satisfies the inductive invariant.          *)
LEMMA InitPoolInv == Init => PoolInv
BY PoolAssumption
   DEF Init, PoolInv, TypeOK, MutexHeld, RoomForMain, TaskForWorker, Threads,
       Slots, InCriticalSection, MainPCs, WorkerPCs

(* Every step of main preserves the inductive invariant.                   *)
LEMMA MainKeepsPoolInv ==
    ASSUME PoolInv, MainStep PROVE PoolInv'
<1> USE PoolAssumption
    DEF queueVars, clientVars, PoolInv, TypeOK, MutexHeld, RoomForMain,
        TaskForWorker, Threads, Slots, MainPCs, WorkerPCs, InCriticalSection
<1>1. ASSUME NEW c \in Clients, MainAccept(c) \/ MainAcceptFails(c)
      PROVE  PoolInv'
  <2>1. CASE MainAccept(c)
    BY <2>1 DEF MainAccept, Goto
  <2>2. CASE MainAcceptFails(c)
    BY <2>2 DEF MainAcceptFails
  <2> QED BY <1>1, <2>1, <2>2
<1>2. CASE MainLock
  BY <1>2 DEF MainLock, Goto, Acquire
<1>3. CASE MainStore
  BY <1>3 DEF MainStore, Goto
<1>4. CASE MainIncr
  BY <1>4 DEF MainIncr, Goto
<1>5. CASE MainSignal
  BY <1>5 DEF MainSignal, Signal
<1>6. CASE MainCheckFull
  BY <1>6 DEF MainCheckFull, Goto, Release
<1>7. CASE MainCheckRoom
  BY <1>7 DEF MainCheckRoom, Goto
<1>8. CASE MainUnlock
  BY <1>8 DEF MainUnlock, Goto, Release
<1>9. CASE Relock(Main)
  BY <1>9 DEF Relock, Goto, Acquire
<1> QED BY <1>1, <1>2, <1>3, <1>4, <1>5, <1>6, <1>7, <1>8, <1>9 DEF MainStep

(* Every step of a worker preserves the inductive invariant.               *)
LEMMA WorkerKeepsPoolInv ==
    ASSUME PoolInv, NEW w \in Workers, WorkerStep(w) PROVE PoolInv'
<1> USE PoolAssumption
    DEF queueVars, clientVars, PoolInv, TypeOK, MutexHeld, RoomForMain,
        TaskForWorker, Threads, Slots, MainPCs, WorkerPCs, InCriticalSection
<1>1. CASE WorkerLock(w)
  BY <1>1 DEF WorkerLock, Goto, Acquire
<1>2. CASE WorkerCheckEmpty(w)
  BY <1>2 DEF WorkerCheckEmpty, Goto, Release
<1>3. CASE WorkerCheckTask(w)
  BY <1>3 DEF WorkerCheckTask, Goto
<1>4. CASE WorkerTake(w)
  BY <1>4 DEF WorkerTake, Goto
<1>5. CASE WorkerShift(w)
  BY <1>5 DEF WorkerShift, Goto, ShiftedQueue
<1>6. CASE WorkerUnlock(w)
  BY <1>6 DEF WorkerUnlock, Goto, Release
<1>7. CASE WorkerRecv(w)
  BY <1>7 DEF WorkerRecv, Goto
<1>8. CASE WorkerRecvFails(w)
  BY <1>8 DEF WorkerRecvFails
<1>9. CASE WorkerSend(w)
  BY <1>9 DEF WorkerSend, Goto
<1>10. CASE WorkerSendFails(w)
  BY <1>10 DEF WorkerSendFails
<1>11. CASE WorkerWakeMain(w)
  BY <1>11 DEF WorkerWakeMain, Signal
<1>12. CASE Relock(w)
  BY <1>12 DEF Relock, Goto, Acquire
<1> QED BY <1>1, <1>2, <1>3, <1>4, <1>5, <1>6, <1>7, <1>8, <1>9, <1>10, <1>11,
           <1>12 DEF WorkerStep

(* Clients and spurious wakeups do not touch what the invariant is about.  *)
LEMMA EnvironmentKeepsPoolInv ==
    ASSUME PoolInv,
           \/ \E t \in Threads : SpuriousWakeup(t)
           \/ \E c \in Clients : ClientStep(c)
    PROVE  PoolInv'
<1> USE PoolAssumption
<1>1. ASSUME NEW t \in Threads, SpuriousWakeup(t) PROVE PoolInv'
  BY <1>1 DEF SpuriousWakeup, Goto, queueVars, clientVars, PoolInv,
         TypeOK, MutexHeld, RoomForMain, TaskForWorker, Threads, Slots,
         InCriticalSection, MainPCs, WorkerPCs
<1>2. ASSUME NEW c \in Clients, ClientStep(c) PROVE PoolInv'
  BY <1>2 DEF ClientStep, ClientConnect, ClientSend, ClientHangUp, queueVars, clientVars, PoolInv,
         TypeOK, MutexHeld, RoomForMain, TaskForWorker, Threads, Slots,
         InCriticalSection, MainPCs, WorkerPCs
<1> QED BY <1>1, <1>2

LEMMA NextKeepsPoolInv == PoolInv /\ [Next]_vars => PoolInv'
<1> SUFFICES ASSUME PoolInv, [Next]_vars PROVE PoolInv'
  OBVIOUS
<1>1. CASE Next
  BY <1>1, MainKeepsPoolInv, WorkerKeepsPoolInv, EnvironmentKeepsPoolInv DEF Next
<1>2. CASE UNCHANGED vars
  BY <1>2 DEF vars, queueVars, clientVars, PoolInv,
         TypeOK, MutexHeld, RoomForMain, TaskForWorker, Threads, Slots,
         InCriticalSection, MainPCs, WorkerPCs
<1> QED BY <1>1, <1>2

(* pool.c keeps task_count an index range of taskQueue and its mutex       *)
(* exclusive, for any number of workers and any MAX_TASKS.                 *)
THEOREM PoolInvariant == Spec => []PoolInv
BY InitPoolInv, NextKeepsPoolInv, PTL DEF Spec

(* Type correctness, with task_count between 0 and MAX_TASKS.              *)
THEOREM PoolTypeCorrect == Spec => []TypeOK
BY PoolInvariant, PTL DEF PoolInv

-----------------------------------------------------------------------------
(* No wakeup of main is lost, although respond signals without the mutex:  *)
(* the worker that empties the queue is itself still to signal.            *)
LEMMA NextKeepsMainHasWaker ==
    ASSUME PoolInv, MainHasWaker, [Next]_vars PROVE MainHasWaker'
<1> USE PoolAssumption
    DEF queueVars, clientVars, PoolInv, TypeOK, MutexHeld, RoomForMain,
        TaskForWorker, Threads, Slots, MainPCs, WorkerPCs, InCriticalSection,
        MainHasWaker
<1>1. ASSUME NEW c \in Clients, MainAccept(c) PROVE MainHasWaker'
  BY <1>1 DEF MainAccept, Goto
<1>2. ASSUME NEW c \in Clients, MainAcceptFails(c) PROVE MainHasWaker'
  BY <1>2 DEF MainAcceptFails
<1>3. CASE MainLock
  BY <1>3 DEF MainLock, Goto, Acquire
<1>4. CASE MainStore
  BY <1>4 DEF MainStore, Goto
<1>5. CASE MainIncr
  BY <1>5 DEF MainIncr, Goto
<1>6. CASE MainSignal
  BY <1>6 DEF MainSignal, Signal
<1>7. CASE MainCheckFull
  BY <1>7 DEF MainCheckFull, Goto, Release
<1>8. CASE MainCheckRoom
  BY <1>8 DEF MainCheckRoom, Goto
<1>9. CASE MainUnlock
  BY <1>9 DEF MainUnlock, Goto, Release
<1>10. CASE Relock(Main)
  BY <1>10 DEF Relock, Goto, Acquire
<1>11. ASSUME NEW w \in Workers, WorkerStep(w) PROVE MainHasWaker'
  <2>1. CASE WorkerLock(w)
    BY <2>1 DEF WorkerLock, Goto, Acquire
  <2>2. CASE WorkerCheckEmpty(w)
    BY <2>2 DEF WorkerCheckEmpty, Goto, Release
  <2>3. CASE WorkerCheckTask(w)
    BY <2>3 DEF WorkerCheckTask, Goto
  <2>4. CASE WorkerTake(w)
    BY <2>4 DEF WorkerTake, Goto
  <2>5. CASE WorkerShift(w)
    BY <2>5 DEF WorkerShift, Goto, ShiftedQueue
  <2>6. CASE WorkerUnlock(w)
    BY <2>6 DEF WorkerUnlock, Goto, Release
  <2>7. CASE WorkerRecv(w)
    BY <2>7 DEF WorkerRecv, Goto
  <2>8. CASE WorkerRecvFails(w)
    BY <2>8 DEF WorkerRecvFails
  <2>9. CASE WorkerSend(w)
    BY <2>9 DEF WorkerSend, Goto
  <2>10. CASE WorkerSendFails(w)
    BY <2>10 DEF WorkerSendFails
  <2>11. CASE WorkerWakeMain(w)
    BY <2>11 DEF WorkerWakeMain, Signal
  <2>12. CASE Relock(w)
    BY <2>12 DEF Relock, Goto, Acquire
  <2> QED BY <1>11, <2>1, <2>2, <2>3, <2>4, <2>5, <2>6, <2>7, <2>8, <2>9, <2>10, <2>11, <2>12 DEF
      WorkerStep
<1>12. ASSUME NEW t \in Threads, SpuriousWakeup(t) PROVE MainHasWaker'
  BY <1>12 DEF SpuriousWakeup, Goto
<1>13. ASSUME NEW c \in Clients, ClientStep(c) PROVE MainHasWaker'
  BY <1>13 DEF ClientStep, ClientConnect, ClientSend, ClientHangUp
<1>14. CASE UNCHANGED vars
  BY <1>14 DEF vars
<1> QED BY <1>1, <1>2, <1>3, <1>4, <1>5, <1>6, <1>7, <1>8, <1>9, <1>10, <1>11, <1>12, <1>13, <1>14 DEF
    Next, MainStep

(* Main never sleeps with nobody left to wake it.                          *)
THEOREM MainAlwaysHasWaker == Spec => []MainHasWaker
<1>1. Init => MainHasWaker
  BY DEF Init, MainHasWaker, Threads
<1>2. PoolInv /\ MainHasWaker /\ [Next]_vars => MainHasWaker'
  BY NextKeepsMainHasWaker
<1> QED BY <1>1, <1>2, PoolInvariant, PTL DEF Spec

-----------------------------------------------------------------------------
(* Conservation of clients.  AcceptedOnce speaks of sets of places; what a *)
(* step preserves is the same fact place by place, together with what the  *)
(* two half-done transfers (main's store, a worker's shift) have in hand.  *)
Live == {i \in Slots : i < task_count}

PlacesHoldAccepted ==
    /\ \A i \in Live : /\ taskQueue[i] \in Clients
                       /\ conn[taskQueue[i]] = "accepted"
    /\ \A t \in Threads : InHand(t) => /\ new_task[t] \in Clients
                                       /\ conn[new_task[t]] = "accepted"

PlacesDiffer ==
    /\ \A i, j \in Live : i # j => taskQueue[i] # taskQueue[j]
    /\ \A t, u \in Threads :
          t # u /\ InHand(t) /\ InHand(u) => new_task[t] # new_task[u]
    /\ \A i \in Live, t \in Threads : InHand(t) => taskQueue[i] # new_task[t]

AcceptedHasPlace ==
    \A c \in Clients :
        conn[c] = "accepted" => \/ \E i \in Live : taskQueue[i] = c
                                \/ \E t \in Threads : InHand(t) /\ new_task[t] = c

Transfers ==
    /\ pc[Main] = "incr" => taskQueue[task_count] = new_task[Main]
    /\ \A w \in Workers : pc[w] = "shift" => new_task[w] = taskQueue[0]

ConservationInv == /\ PlacesHoldAccepted /\ PlacesDiffer
                   /\ AcceptedHasPlace /\ Transfers

LEMMA NextKeepsConservation ==
    ASSUME PoolInv, ConservationInv, [Next]_vars PROVE ConservationInv'
<1> USE PoolAssumption
    DEF queueVars, clientVars, PoolInv, TypeOK, MutexHeld, RoomForMain,
        TaskForWorker, Threads, Slots, MainPCs, WorkerPCs, InCriticalSection
<1>1. ASSUME NEW c \in Clients, MainAccept(c) PROVE ConservationInv'
  BY <1>1 DEF MainAccept, Goto, InHand, ConservationInv, Live,
      PlacesHoldAccepted, PlacesDiffer, AcceptedHasPlace, Transfers
<1>2. ASSUME NEW c \in Clients, MainAcceptFails(c) PROVE ConservationInv'
  BY <1>2 DEF MainAcceptFails, InHand, ConservationInv, Live,
      PlacesHoldAccepted, PlacesDiffer, AcceptedHasPlace, Transfers
<1>3. CASE MainLock
  BY <1>3 DEF MainLock, Goto, Acquire, InHand, ConservationInv, Live,
      PlacesHoldAccepted, PlacesDiffer, AcceptedHasPlace, Transfers
<1>4. CASE MainStore
  BY <1>4 DEF MainStore, Goto, InHand, ConservationInv, Live,
      PlacesHoldAccepted, PlacesDiffer, AcceptedHasPlace, Transfers
<1>5. CASE MainIncr
  BY <1>5 DEF MainIncr, Goto, InHand, ConservationInv, Live,
      PlacesHoldAccepted, PlacesDiffer, AcceptedHasPlace, Transfers
<1>6. CASE MainSignal
  BY <1>6 DEF MainSignal, Signal, InHand, ConservationInv, Live,
      PlacesHoldAccepted, PlacesDiffer, AcceptedHasPlace, Transfers
<1>7. CASE MainCheckFull
  BY <1>7 DEF MainCheckFull, Goto, Release, InHand, ConservationInv, Live,
      PlacesHoldAccepted, PlacesDiffer, AcceptedHasPlace, Transfers
<1>8. CASE MainCheckRoom
  BY <1>8 DEF MainCheckRoom, Goto, InHand, ConservationInv, Live,
      PlacesHoldAccepted, PlacesDiffer, AcceptedHasPlace, Transfers
<1>9. CASE MainUnlock
  BY <1>9 DEF MainUnlock, Goto, Release, InHand, ConservationInv, Live,
      PlacesHoldAccepted, PlacesDiffer, AcceptedHasPlace, Transfers
<1>10. CASE Relock(Main)
  BY <1>10 DEF Relock, Goto, Acquire, InHand, ConservationInv, Live,
      PlacesHoldAccepted, PlacesDiffer, AcceptedHasPlace, Transfers
<1>11. ASSUME NEW w \in Workers, WorkerStep(w) PROVE ConservationInv'
  <2>1. CASE WorkerLock(w)
    BY <2>1 DEF WorkerLock, Goto, Acquire, InHand, ConservationInv, Live,
        PlacesHoldAccepted, PlacesDiffer, AcceptedHasPlace, Transfers
  <2>2. CASE WorkerCheckEmpty(w)
    BY <2>2 DEF WorkerCheckEmpty, Goto, Release, InHand, ConservationInv,
        Live, PlacesHoldAccepted, PlacesDiffer, AcceptedHasPlace, Transfers
  <2>3. CASE WorkerCheckTask(w)
    <3>1. \A t \in Threads : InHand(t)' = InHand(t)
      BY <2>3 DEF WorkerCheckTask, Goto, InHand
    <3>2. \A u \in Workers : pc'[u] = "shift" => pc[u] = "shift"
      BY <2>3 DEF WorkerCheckTask, Goto, InHand
    <3>3. pc'[Main] = pc[Main]
      BY <2>3 DEF WorkerCheckTask, Goto, InHand
    <3> QED BY <2>3, <3>1, <3>2, <3>3 DEF WorkerCheckTask, ConservationInv,
        PlacesHoldAccepted, PlacesDiffer, AcceptedHasPlace, Transfers, Live
  <2>4. CASE WorkerTake(w)
    <3>1. \A t \in Threads : InHand(t)' = InHand(t) /\ (t # w => new_task'[t] = new_task[t])
      BY <2>4 DEF WorkerTake, Goto, InHand
    <3>2. \A u \in Workers : u # w /\ pc'[u] = "shift" => pc[u] = "shift"
      BY <2>4 DEF WorkerTake, Goto, InHand
    <3>3. pc'[Main] = pc[Main] /\ new_task'[w] = taskQueue[0] /\ ~InHand(w) /\ w # Main
      BY <2>4 DEF WorkerTake, Goto, InHand
    <3> QED BY <2>4, <3>1, <3>2, <3>3 DEF WorkerTake, ConservationInv,
        PlacesHoldAccepted, PlacesDiffer, AcceptedHasPlace, Transfers, Live
  <2>5. CASE WorkerShift(w)
    <3>1. /\ task_count > 0 /\ task_count' = task_count - 1
          /\ task_count \in Nat /\ 0 \in Live
      BY <2>5 DEF WorkerShift, Goto, Live, InHand
    <3>2. \A i \in Live' : /\ i + 1 \in Live /\ i \in Nat
                          /\ taskQueue'[i] = taskQueue[i + 1]
      BY <2>5 DEF WorkerShift, Goto, ShiftedQueue, Live, InHand
    <3>3. /\ new_task' = new_task /\ conn' = conn
          /\ new_task[w] = taskQueue[0]
          /\ InHand(w)' /\ ~InHand(w)
      BY <2>5 DEF WorkerShift, Goto, ConservationInv, Transfers, InHand
    <3>4. \A t \in Threads \ {w} : InHand(t)' = InHand(t)
      BY <2>5 DEF WorkerShift, Goto, InHand
    <3>5. PlacesHoldAccepted'
      BY <3>1, <3>2, <3>3, <3>4 DEF ConservationInv, PlacesHoldAccepted
    <3>6. PlacesDiffer'
      BY <3>1, <3>2, <3>3, <3>4 DEF ConservationInv, PlacesDiffer, Live
    <3>7. AcceptedHasPlace'
      <4> SUFFICES ASSUME NEW d \in Clients, conn[d] = "accepted"
                   PROVE  \/ \E i \in Live' : taskQueue'[i] = d
                          \/ \E t \in Threads : InHand(t)' /\ new_task[t] = d
        BY <3>3 DEF AcceptedHasPlace
      <4>1. CASE \E t \in Threads : InHand(t) /\ new_task[t] = d
        BY <4>1, <3>3, <3>4
      <4>2. CASE \E i \in Live : taskQueue[i] = d
        <5>1. PICK i \in Live : taskQueue[i] = d
          BY <4>2
        <5>2. CASE i = 0
          BY <5>1, <5>2, <3>3
        <5>3. CASE i # 0
          <6>1. i - 1 \in Live'
            BY <5>3, <3>1 DEF Live
          <6>2. taskQueue'[i - 1] = d
            BY <6>1, <5>1, <3>2 DEF Live
          <6> QED BY <6>1, <6>2
        <5> QED BY <5>2, <5>3
      <4> QED BY <4>1, <4>2 DEF ConservationInv, AcceptedHasPlace
    <3>8. Transfers'
      BY <2>5 DEF WorkerShift, Goto, Transfers, InHand
    <3> QED BY <3>5, <3>6, <3>7, <3>8 DEF ConservationInv
  <2>6. CASE WorkerUnlock(w)
    BY <2>6 DEF WorkerUnlock, Goto, Release, InHand, ConservationInv, Live,
        PlacesHoldAccepted, PlacesDiffer, AcceptedHasPlace, Transfers
  <2>7. CASE WorkerRecv(w)
    BY <2>7 DEF WorkerRecv, Goto, InHand, ConservationInv, Live,
        PlacesHoldAccepted, PlacesDiffer, AcceptedHasPlace, Transfers
  <2>8. CASE WorkerRecvFails(w)
    BY <2>8 DEF WorkerRecvFails, InHand, ConservationInv, Live,
        PlacesHoldAccepted, PlacesDiffer, AcceptedHasPlace, Transfers
  <2>9. CASE WorkerSend(w)
    BY <2>9 DEF WorkerSend, Goto, InHand, ConservationInv, Live,
        PlacesHoldAccepted, PlacesDiffer, AcceptedHasPlace, Transfers
  <2>10. CASE WorkerSendFails(w)
    BY <2>10 DEF WorkerSendFails, InHand, ConservationInv, Live,
        PlacesHoldAccepted, PlacesDiffer, AcceptedHasPlace, Transfers
  <2>11. CASE WorkerWakeMain(w)
    BY <2>11 DEF WorkerWakeMain, Signal, InHand, ConservationInv, Live,
        PlacesHoldAccepted, PlacesDiffer, AcceptedHasPlace, Transfers
  <2>12. CASE Relock(w)
    BY <2>12 DEF Relock, Goto, Acquire, InHand, ConservationInv, Live,
        PlacesHoldAccepted, PlacesDiffer, AcceptedHasPlace, Transfers
  <2> QED BY <1>11, <2>1, <2>2, <2>3, <2>4, <2>5, <2>6, <2>7, <2>8, <2>9, <2>10, <2>11, <2>12 DEF
      WorkerStep
<1>12. ASSUME NEW t \in Threads, SpuriousWakeup(t) PROVE ConservationInv'
  BY <1>12 DEF SpuriousWakeup, Goto, InHand, ConservationInv, Live,
      PlacesHoldAccepted, PlacesDiffer, AcceptedHasPlace, Transfers
<1>13. ASSUME NEW c \in Clients, ClientStep(c) PROVE ConservationInv'
  BY <1>13 DEF ClientStep, ClientConnect, ClientSend, ClientHangUp, InHand,
      ConservationInv, Live, PlacesHoldAccepted, PlacesDiffer,
      AcceptedHasPlace, Transfers
<1>14. CASE UNCHANGED vars
  BY <1>14 DEF vars, InHand, ConservationInv, Live, PlacesHoldAccepted,
      PlacesDiffer, AcceptedHasPlace, Transfers
<1> QED BY <1>1, <1>2, <1>3, <1>4, <1>5, <1>6, <1>7, <1>8, <1>9, <1>10, <1>11, <1>12, <1>13, <1>14 DEF
    Next, MainStep

LEMMA ConservationImpliesAcceptedOnce ==
    ASSUME PoolInv, ConservationInv PROVE AcceptedOnce
BY PoolAssumption
   DEF ConservationInv, PlacesHoldAccepted, PlacesDiffer, AcceptedHasPlace,
       AcceptedOnce, Queued, Holders, Live, PoolInv, TypeOK, Slots

(* The conservation of clients, place by place.                           *)
THEOREM ConservationInvariant == Spec => []ConservationInv
<1>1. Init => ConservationInv
  BY PoolAssumption
     DEF Init, ConservationInv, PlacesHoldAccepted, PlacesDiffer,
         AcceptedHasPlace, Transfers, InHand, Live, Threads, Slots
<1>2. PoolInv /\ ConservationInv /\ [Next]_vars => ConservationInv'
  BY NextKeepsConservation
<1> QED BY <1>1, <1>2, PoolInvariant, PTL DEF Spec

(* No accepted client is lost or handed to two threads.                    *)
THEOREM ClientsConserved == Spec => []AcceptedOnce
<1>1. PoolInv /\ ConservationInv => AcceptedOnce
  BY ConservationImpliesAcceptedOnce
<1> QED BY <1>1, PoolInvariant, ConservationInvariant, PTL

-----------------------------------------------------------------------------
(* The refinement.  Three steps of pool.c are seen by the abstract         *)
(* dispatcher, all of them inside a critical section or at a close: the    *)
(* increment of task_count submits, the shift dispatches, the close        *)
(* answers.  All the others change nothing of what it speaks of.           *)
Line    == [i \in 1 .. task_count |-> taskQueue[i - 1]]
Serving == [w \in Workers |-> IF InHand(w) THEN new_task[w] ELSE None]
Served  == {c \in Clients : conn[c] = "closed"}

(* A step that keeps the live slots, what the workers have in hand and the *)
(* closed connections is a stuttering step of the dispatcher.              *)
LEMMA StutterIsUnseen ==
    ASSUME TypeOK,
           task_count' = task_count,
           \A i \in Slots : i < task_count => taskQueue'[i] = taskQueue[i],
           \A w \in Workers : /\ InHand(w)' <=> InHand(w)
                              /\ InHand(w) => new_task'[w] = new_task[w],
           \A c \in Clients : conn'[c] = "closed" <=> conn[c] = "closed"
    PROVE  UNCHANGED Abstract!dispatchVars
<1>1. Line' = Line
  BY PoolAssumption DEF Line, TypeOK, Slots
<1>2. Serving' = Serving
  BY DEF Serving
<1>3. Served' = Served
  BY DEF Served
<1> QED BY <1>1, <1>2, <1>3 DEF Line, Serving, Served, Abstract!dispatchVars

(* The pool starts with an empty line, idle servers and nobody served.     *)
LEMMA InitImplements == Init => Abstract!Init
<1> SUFFICES ASSUME Init PROVE Abstract!Init
  OBVIOUS
<1>1. Line = <<>>
  BY DEF Init, Line
<1>2. Serving = [w \in Workers |-> None]
  BY PoolAssumption DEF Init, Serving, InHand, Threads
<1>3. Served = {}
  BY DEF Init, Served
<1> QED BY <1>1, <1>2, <1>3 DEF Abstract!Init, Line, Serving, Served

(* The mapped line is a sequence, whatever the capacity.                   *)
LEMMA LineIsSeq ==
    ASSUME TypeOK, ConservationInv
    PROVE  Line \in Seq(Clients) /\ Len(Line) = task_count
<1>1. task_count \in Nat
  BY PoolAssumption DEF TypeOK
<1>2. \A i \in 1 .. task_count : taskQueue[i - 1] \in Clients
  BY <1>1, PoolAssumption
     DEF TypeOK, ConservationInv, PlacesHoldAccepted, Live, Slots
<1> QED BY <1>1, <1>2, IsASeq, LenProperties DEF Line

(* main's increment submits the client it has stored.                      *)
LEMMA IncrSubmits ==
    ASSUME PoolInv, ConservationInv, MainIncr
    PROVE  \E c \in Clients : Abstract!Submit(c)
<1> DEFINE c == new_task[Main]
<1>1. /\ pc[Main] = "incr" /\ task_count \in Nat /\ task_count < MaxTasks
      /\ task_count' = task_count + 1 /\ taskQueue' = taskQueue /\ conn' = conn
      /\ InHand(Main) /\ Main \in Threads /\ taskQueue[task_count] = c
      /\ c \in Clients /\ conn[c] = "accepted"
  BY PoolAssumption
     DEF MainIncr, Goto, PoolInv, TypeOK, RoomForMain, InHand, Threads,
         ConservationInv, PlacesHoldAccepted, Transfers
<1>2. Line \in Seq(Clients) /\ Len(Line) = task_count
  BY LineIsSeq DEF PoolInv
<1>3. Line' = Append(Line, c)
  BY <1>1, <1>2 DEF Line
<1>4. Serving' = Serving
  BY PoolAssumption DEF MainIncr, Goto, Serving, InHand, PoolInv, TypeOK, Threads
<1>5. Served' = Served
  BY <1>1 DEF Served
<1>6. c \notin Abstract!Seen
  <2>1. \A i \in DOMAIN Line : Line[i] # c
    BY <1>1, PoolAssumption
       DEF Line, ConservationInv, PlacesDiffer, Live, Slots
  <2>2. \A w \in Workers : Serving[w] # c
    BY <1>1, PoolAssumption DEF Serving, ConservationInv, PlacesDiffer, Threads
  <2>3. c \notin Served
    BY <1>1 DEF Served
  <2> QED BY <2>1, <2>2, <2>3 DEF Abstract!Seen, Line, Serving, Served
<1> QED BY <1>1, <1>2, <1>3, <1>4, <1>5, <1>6
        DEF Abstract!Submit, Line, Serving, Served

(* A worker's shift dispatches the oldest client to it.                    *)
LEMMA ShiftDispatches ==
    ASSUME PoolInv, ConservationInv, NEW w \in Workers, WorkerShift(w)
    PROVE  Abstract!Dispatch(w)
<1>1. /\ task_count \in Nat /\ task_count > 0 /\ task_count <= MaxTasks
      /\ task_count' = task_count - 1
      /\ conn' = conn /\ new_task' = new_task
      /\ w # Main /\ ~InHand(w) /\ InHand(w)'
      /\ new_task[w] = taskQueue[0]
  BY PoolAssumption
     DEF WorkerShift, Goto, PoolInv, TypeOK, TaskForWorker, InHand, Threads,
         ConservationInv, Transfers
<1>2. Line \in Seq(Clients) /\ Len(Line) = task_count /\ Line # <<>>
  BY <1>1, LineIsSeq DEF PoolInv
<1>3. Head(Line) = taskQueue[0]
  BY <1>1, <1>2 DEF Line
<1>4. Line' = Tail(Line)
  <2>1. \A i \in 1 .. task_count - 1 : taskQueue'[i - 1] = taskQueue[i]
    BY <1>1, PoolAssumption DEF WorkerShift, ShiftedQueue, Slots
  <2>2. Line' = [i \in 1 .. task_count - 1 |-> taskQueue[i]]
    BY <2>1, <1>1 DEF Line
  <2>3. /\ Tail(Line) = [i \in 1 .. task_count - 1 |-> Tail(Line)[i]]
        /\ \A i \in 1 .. task_count - 1 : Tail(Line)[i] = Line[i + 1]
    BY <1>1, <1>2, HeadTailProperties, LenProperties
  <2>4. \A i \in 1 .. task_count - 1 : Line[i + 1] = taskQueue[i]
    BY <1>1 DEF Line
  <2> QED BY <2>2, <2>3, <2>4
<1>5. Serving[w] = None
  BY <1>1 DEF Serving
<1>6. Serving' = [Serving EXCEPT ![w] = taskQueue[0]]
  BY <1>1, PoolAssumption
     DEF WorkerShift, Goto, Serving, InHand, PoolInv, TypeOK, Threads
<1>7. Served' = Served
  BY <1>1 DEF Served
<1> QED BY <1>2, <1>3, <1>4, <1>5, <1>6, <1>7
        DEF Abstract!Dispatch, Line, Serving, Served

(* A worker's close answers the client it serves.                          *)
LEMMA SendAnswers ==
    ASSUME PoolInv, ConservationInv, NEW w \in Workers, WorkerSend(w)
    PROVE  Abstract!Answer(w)
<1>1. /\ w # Main /\ InHand(w) /\ ~InHand(w)'
      /\ new_task[w] \in Clients /\ taskQueue' = taskQueue
      /\ task_count' = task_count
      /\ conn' = [conn EXCEPT ![new_task[w]] = "closed"]
  BY PoolAssumption
     DEF WorkerSend, Goto, queueVars, PoolInv, TypeOK, InHand, Threads,
         ConservationInv, PlacesHoldAccepted
<1>2. Line' = Line
  BY <1>1 DEF Line
<1>3. Serving[w] = new_task[w] /\ Serving[w] # None
  BY <1>1, PoolAssumption DEF Serving
<1>4. Serving' = [Serving EXCEPT ![w] = None]
  BY <1>1, PoolAssumption
     DEF WorkerSend, Goto, Serving, InHand, PoolInv, TypeOK, Threads
<1>5. Served' = Served \cup {new_task[w]}
  BY <1>1 DEF Served, PoolInv, TypeOK
<1> QED BY <1>2, <1>3, <1>4, <1>5 DEF Abstract!Answer, Line, Serving, Served

(* Every other step of the workers is unseen.                              *)
LEMMA WorkerStutters ==
    ASSUME PoolInv, ConservationInv, NEW w \in Workers, WorkerStep(w),
           ~WorkerShift(w), ~WorkerSend(w)
    PROVE  UNCHANGED Abstract!dispatchVars
<1> USE PoolAssumption
    DEF queueVars, clientVars, PoolInv, TypeOK, Threads, InHand
<1>1. CASE WorkerLock(w) \/ WorkerCheckEmpty(w) \/ WorkerCheckTask(w) \/ WorkerTake(w)
  BY <1>1, StutterIsUnseen
     DEF WorkerLock, WorkerCheckEmpty, WorkerCheckTask, WorkerTake, Goto
<1>2. CASE WorkerUnlock(w) \/ WorkerRecv(w) \/ WorkerRecvFails(w) \/ WorkerSendFails(w)
  BY <1>2, StutterIsUnseen
     DEF WorkerUnlock, WorkerRecv, WorkerRecvFails, WorkerSendFails, Goto
<1>3. CASE WorkerWakeMain(w) \/ Relock(w)
  BY <1>3, StutterIsUnseen DEF WorkerWakeMain, Signal, Relock, Goto
<1> QED BY <1>1, <1>2, <1>3 DEF WorkerStep

(* Every other step of main is unseen, and so are clients and spurious     *)
(* wakeups.                                                                *)
LEMMA OthersStutter ==
    ASSUME PoolInv, ConservationInv,
           \/ MainStep /\ ~MainIncr
           \/ \E t \in Threads : SpuriousWakeup(t)
           \/ \E c \in Clients : ClientStep(c)
           \/ UNCHANGED vars
    PROVE  UNCHANGED Abstract!dispatchVars
<1> USE PoolAssumption
    DEF queueVars, clientVars, PoolInv, TypeOK, Threads, InHand
<1>1. CASE \E c \in Clients : MainAccept(c) \/ MainAcceptFails(c)
  BY <1>1, StutterIsUnseen DEF MainAccept, MainAcceptFails, Goto
<1>2. CASE MainLock \/ MainCheckFull \/ MainCheckRoom \/ MainUnlock \/ Relock(Main)
  BY <1>2, StutterIsUnseen
     DEF MainLock, MainCheckFull, MainCheckRoom, MainUnlock, Relock, Goto
<1>3. CASE MainStore
  BY <1>3, StutterIsUnseen DEF MainStore, Goto, Slots
<1>4. CASE MainSignal
  BY <1>4, StutterIsUnseen DEF MainSignal, Signal
<1>5. CASE \E t \in Threads : SpuriousWakeup(t)
  BY <1>5, StutterIsUnseen DEF SpuriousWakeup, Goto
<1>6. CASE \E c \in Clients : ClientStep(c)
  BY <1>6, StutterIsUnseen DEF ClientStep, ClientConnect, ClientSend, ClientHangUp
<1>7. CASE UNCHANGED vars
  BY <1>7, StutterIsUnseen DEF vars
<1> QED BY <1>1, <1>2, <1>3, <1>4, <1>5, <1>6, <1>7 DEF MainStep

(* pool.c is a first-in first-out dispatcher: each accepted client is      *)
(* queued once and handed to one thread, oldest first, however the threads *)
(* interleave, for any number of them and any MAX_TASKS.                   *)
THEOREM PoolImplementsDispatch == Spec => ImplementsDispatch
<1>1. Init => Abstract!Init
  BY InitImplements
<1>2. PoolInv /\ ConservationInv /\ [Next]_vars
        => [Abstract!Next]_(Abstract!dispatchVars)
  <2> SUFFICES ASSUME PoolInv, ConservationInv, [Next]_vars
               PROVE  [Abstract!Next]_(Abstract!dispatchVars)
    OBVIOUS
  <2>1. CASE MainIncr
    BY <2>1, IncrSubmits DEF Abstract!Next
  <2>2. ASSUME NEW w \in Workers, WorkerStep(w)
        PROVE  [Abstract!Next]_(Abstract!dispatchVars)
    BY <2>2, ShiftDispatches, SendAnswers, WorkerStutters DEF Abstract!Next
  <2>3. CASE \/ MainStep /\ ~MainIncr
             \/ \E t \in Threads : SpuriousWakeup(t)
             \/ \E c \in Clients : ClientStep(c)
             \/ UNCHANGED vars
    BY <2>3, OthersStutter
  <2> QED BY <2>1, <2>2, <2>3 DEF Next
<1> QED BY <1>1, <1>2, PoolInvariant, ConservationInvariant, PTL
        DEF Spec, ImplementsDispatch, Abstract!Spec
=============================================================================
