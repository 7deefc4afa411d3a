---------------------------- MODULE ThreadProofs -----------------------------
(***************************************************************************)
(* Proofs about the smaller programs of threads: the select servers, the   *)
(* server of lab14_DAv, the planner, the pattern counter, the file cache   *)
(* and the counting scripts, for any number of clients, slices, chunks,    *)
(* slots and rounds.                                                       *)
(*                                                                         *)
(* Both servers count threads: the children and posts of a select server   *)
(* are never more than the client threads that have ended, and the jobs of *)
(* lab14_DAv are those of the threads between, or past, two sections.  The *)
(* parallel counter finds what the serial one does, chunk by chunk.  Who   *)
(* looks at the cache without the mutex has stored its block before.  What *)
(* a script counts is at each moment the sum of what its threads have      *)
(* stored, which their instruction numbers tell.  Programs whose names     *)
(* clash come by way of PlannerBeside, CacheBeside and ProgramsBeside.     *)
(***************************************************************************)
EXTENDS SelectServer, ForkServer, PlannerBeside, PatternCount, CacheBeside,
        ProgramsBeside, CountingLemmas

MainPlace   == {"test", "select", "accept", "relock", "join", "end"}
ThreadState == {"none", "serving", "receiving", "table", "stuck", "record",
                "ended"}
WaiterPlace == {"absent", "relock", "test", "sem", "wait", "mark", "ended"}
Posted      == {c \in Clients : thread[c] = "ended" /\ childOf[c] # "none"}

LoopTypes ==
    /\ program \in {"pipe", "plain", "jobs"}
    /\ main \in MainPlace
    /\ mutex \in Threads \cup {None}
    /\ finished \in {0, 1}
    /\ notified \in BOOLEAN
    /\ handler \in [Threads -> {"idle", "lock", "write"}]
    /\ signals \in 0 .. MaxSignals
    /\ running \in BOOLEAN

ClientTypes ==
    /\ conn \in [Clients -> {"fresh", "pending", "accepted"}]
    /\ thread \in [Clients -> ThreadState]
    /\ \A c \in Clients : thread[c] # "none" <=> conn[c] = "accepted"
    /\ said \in [Clients -> Messages \cup {"nothing"}]

JobTypes ==
    /\ waiter \in WaiterPlace
    /\ childOf \in [Clients -> {"none", "running", "zombie", "reaped"}]
    /\ \A c \in Clients :
          /\ childOf[c] # "none" => thread[c] \in {"record", "ended"}
          /\ thread[c] = "record" => childOf[c] # "none"
    /\ sem \in Nat
    /\ sem <= Cardinality(Posted)

(* Where only main tests the flag, main has the mutex exactly when it is   *)
(* about to test and from the end of its loop on.                          *)
MainHolds == program # "jobs" =>
                /\ waiter = "absent"
                /\ mutex \in {None, Main}
                /\ mutex = Main <=> main \in {"test", "join", "end"}

SelectInv == LoopTypes /\ ClientTypes /\ JobTypes

(* The names of the threads.                                               *)
LEMMA ThreadNames ==
    /\ Main \notin Clients /\ Waiter \notin Clients /\ None \notin Threads
    /\ Main # Waiter /\ Main # None
    /\ IsFiniteSet(Clients) /\ Cardinality(Clients) \in Nat /\ MaxSignals \in Nat
<1>1. \A x, y : Cardinality({x, y}) \in {1, 2}
  <2> TAKE x, y
  <2>1. Cardinality({x}) = 1 /\ IsFiniteSet({x})
    BY FS_Singleton
  <2>2. CASE x = y
    BY <2>1, <2>2
  <2>3. CASE x # y
    <3>1. Cardinality({x} \cup {y}) = 2
      BY <2>1, <2>3, FS_AddElement
    <3>2. {x} \cup {y} = {x, y}
      OBVIOUS
    <3> QED BY <3>1, <3>2
  <2> QED BY <2>2, <2>3
<1>2. Main # Waiter /\ Main # None /\ Waiter # None
  <2>1. ASSUME Main = Waiter \/ Main = None \/ Waiter = None PROVE FALSE
    <3>1. \E x, y : {Main, Waiter, None} = {x, y}
      BY <2>1
    <3> QED BY <1>1, <3>1, SelectAssumption
  <2> QED BY <2>1
<1> QED BY <1>2, SelectAssumption, FS_CardinalityType DEF Threads

(* What the thread of a client of "jobs" does for its request.             *)
JobStep(c) == \/ ServeNothing(c) \/ AskTable(c) \/ UseTable(c)
              \/ StartChild(c) \/ RecordPid(c)

(* Every step is one of these.                                             *)
LEMMA SelectSteps ==
    ASSUME [Next]_vars
    PROVE  \/ MainTest \/ MainSelect \/ MainTimeout \/ MainRelock \/ MainEnd
           \/ \E c \in Clients : MainAccept(c)
           \/ \E c \in Clients : \/ LeaveOnByte(c) \/ SelectClient(c)
                                 \/ Receive(c) \/ Answer(c) \/ AnswerFails(c)
                                 \/ JobStep(c)
           \/ WaiterTest \/ WaiterSem \/ WaiterNoChild \/ WaiterMark
           \/ WaiterRelock \/ SignalKills
           \/ \E c \in Clients : WaiterWait(c) \/ ChildEnds(c)
           \/ \E t \in Threads : Signal(t) \/ SetFinished(t) \/ WriteByte(t)
           \/ \E c \in Clients : Connect(c) \/ Say(c)
           \/ UNCHANGED vars
BY DEF Next, MainStep, ThreadStep, WaiterStep, HandlerStep, JobStep

(* Every step keeps the types of the loops and the handlers.               *)
LEMMA NextKeepsLoopTypes ==
    ASSUME SelectInv, [Next]_vars PROVE LoopTypes'
<1>0. LoopTypes
  BY DEF SelectInv
<1>1. ASSUME MainTest \/ MainSelect \/ MainTimeout \/ MainRelock \/ MainEnd
             \/ \E c \in Clients : MainAccept(c)
      PROVE  LoopTypes'
  BY <1>0, <1>1 DEF MainTest, MainSelect, MainTimeout, MainRelock, MainEnd,
       MainAccept, MainGoto, NoConnection, LoopTypes, MainPlace, flag, signal,
       Threads
<1>2. ASSUME NEW c \in Clients,
             \/ LeaveOnByte(c) \/ SelectClient(c) \/ Receive(c) \/ Answer(c)
             \/ AnswerFails(c) \/ JobStep(c) \/ Connect(c) \/ Say(c)
      PROVE  LoopTypes'
  BY <1>0, <1>2 DEF LeaveOnByte, SelectClient, Receive, Answer, AnswerFails,
       JobStep, ServeNothing, AskTable, UseTable, StartChild, RecordPid,
       ThreadGoto, Connect, Say, EndThread, ExitProcess, LoopTypes, flag, signal
<1>3. ASSUME \/ WaiterTest \/ WaiterSem \/ WaiterNoChild \/ WaiterMark
             \/ WaiterRelock \/ \E c \in Clients : WaiterWait(c) \/ ChildEnds(c)
      PROVE  LoopTypes'
  <2>1. /\ UNCHANGED <<program, main, finished, notified, handler, signals, running>>
        /\ mutex' \in {mutex, None, Waiter}
    BY <1>3 DEF WaiterTest, WaiterSem, WaiterWait, WaiterNoChild, WaiterMark,
                WaiterRelock, ChildEnds, flag, signal
  <2>2. mutex' \in Threads \cup {None}
    BY <1>0, <2>1 DEF LoopTypes, Threads
  <2> QED BY <1>0, <2>1, <2>2 DEF LoopTypes
<1>4. CASE SignalKills
  <2>1. /\ UNCHANGED <<program, main, mutex, finished, notified, handler>>
        /\ signals' = signals + 1 /\ signals \in 1 .. MaxSignals - 1
        /\ running' = FALSE
    BY <1>4 DEF SignalKills, flag
  <2>2. signals' \in 0 .. MaxSignals
    BY <2>1, ThreadNames
  <2> QED BY <1>0, <2>1, <2>2 DEF LoopTypes
<1>5. ASSUME NEW t \in Threads, Signal(t) PROVE LoopTypes'
  BY <1>0, <1>5, ThreadNames DEF Signal, LoopTypes, flag
<1>6. ASSUME NEW t \in Threads, SetFinished(t) \/ WriteByte(t)
      PROVE  LoopTypes'
  <2>1. handler' \in [Threads -> {"idle", "lock", "write"}]
    BY <1>0, <1>6 DEF SetFinished, WriteByte, Return, LoopTypes
  <2>2. main' \in MainPlace
    BY <1>0, <1>6 DEF SetFinished, WriteByte, Return, NoConnection, LoopTypes,
                      MainPlace
  <2>3. /\ UNCHANGED <<program, mutex, signals, running>>
        /\ finished' \in {0, 1} /\ notified' \in BOOLEAN
    BY <1>0, <1>6 DEF SetFinished, WriteByte, LoopTypes
  <2> QED BY <1>0, <2>1, <2>2, <2>3 DEF LoopTypes
<1>7. CASE UNCHANGED vars
  BY <1>0, <1>7 DEF vars, flag, signal, LoopTypes
<1> QED BY <1>1, <1>2, <1>3, <1>4, <1>5, <1>6, <1>7, SelectSteps

(* Every step keeps the types of the connections and their threads.        *)
LEMMA NextKeepsClientTypes ==
    ASSUME SelectInv, [Next]_vars PROVE ClientTypes'
<1>0. ClientTypes
  BY DEF SelectInv
<1>1. CASE UNCHANGED clients
  BY <1>0, <1>1 DEF clients, ClientTypes
<1>2. ASSUME NEW c \in Clients, MainAccept(c) PROVE ClientTypes'
  BY <1>0, <1>2 DEF MainAccept, ClientTypes, ThreadState
<1>3. ASSUME NEW c \in Clients, NEW q \in ThreadState \ {"none"},
             thread[c] # "none", thread' = [thread EXCEPT ![c] = q],
             UNCHANGED <<conn, said>>
      PROVE  ClientTypes'
  BY <1>0, <1>3 DEF ClientTypes
<1>4. ASSUME NEW c \in Clients,
             \/ LeaveOnByte(c) \/ SelectClient(c) \/ Receive(c) \/ Answer(c)
             \/ AnswerFails(c) \/ JobStep(c)
      PROVE  ClientTypes'
  <2>1. \/ UNCHANGED clients
        \/ /\ thread[c] # "none" /\ UNCHANGED <<conn, said>>
           /\ \E q \in ThreadState \ {"none"} : thread' = [thread EXCEPT ![c] = q]
    BY <1>4 DEF LeaveOnByte, SelectClient, Receive, Answer, AnswerFails, JobStep,
                ServeNothing, AskTable, UseTable, StartChild, RecordPid,
                GotRequest, ThreadGoto, Serving, EndThread, ExitProcess,
                ThreadState
  <2> QED BY <1>1, <1>3, <2>1
<1>5. ASSUME NEW c \in Clients, Connect(c) \/ Say(c) PROVE ClientTypes'
  BY <1>0, <1>5 DEF Connect, Say, ClientTypes
<1>6. ASSUME NEW t \in Threads, SetFinished(t) \/ WriteByte(t)
      PROVE  ClientTypes'
  <2>1. /\ UNCHANGED <<conn, said>>
        /\ \/ thread' = thread
           \/ /\ t \in Clients /\ thread[t] = "serving"
              /\ thread' = [thread EXCEPT ![t] = "receiving"]
    BY <1>6 DEF SetFinished, WriteByte, Return
  <2> QED BY <1>1, <1>3, <2>1 DEF clients, ThreadState
<1>7. ASSUME \/ MainTest \/ MainSelect \/ MainTimeout \/ MainRelock \/ MainEnd
             \/ WaiterTest \/ WaiterSem \/ WaiterNoChild \/ WaiterMark
             \/ WaiterRelock \/ SignalKills \/ UNCHANGED vars
             \/ \E c \in Clients : WaiterWait(c) \/ ChildEnds(c)
             \/ \E t \in Threads : Signal(t)
      PROVE  UNCHANGED clients
  BY <1>7 DEF MainTest, MainSelect, MainTimeout, MainRelock, MainEnd,
       WaiterTest, WaiterSem, WaiterWait, WaiterNoChild, WaiterMark, WaiterRelock,
       ChildEnds, SignalKills, Signal, vars
<1> QED BY <1>1, <1>2, <1>4, <1>5, <1>6, <1>7, SelectSteps

(* Every step keeps what is known of the children and of their posts.      *)
LEMMA NextKeepsJobTypes ==
    ASSUME SelectInv, [Next]_vars PROVE JobTypes'
<1>0. JobTypes /\ ClientTypes
  BY DEF SelectInv
<1>1. /\ IsFiniteSet(Posted) /\ Cardinality(Posted) \in Nat
      /\ IsFiniteSet(Posted') /\ Cardinality(Posted') \in Nat
  BY ThreadNames, FS_Subset, FS_CardinalityType DEF Posted
<1>2. ASSUME UNCHANGED childOf, waiter' \in WaiterPlace,
             sem' \in Nat, sem' <= sem,
             \A c \in Clients : \/ thread'[c] = thread[c]
                                \/ childOf[c] = "none" /\ thread'[c] # "record"
      PROVE  JobTypes'
  <2>1. Posted' = Posted
    BY <1>2 DEF Posted
  <2>2. sem' <= Cardinality(Posted')
    BY <1>0, <1>1, <1>2, <2>1 DEF JobTypes
  <2> QED BY <1>0, <1>2, <2>2 DEF JobTypes
<1>3. waiter \in WaiterPlace /\ sem \in Nat
  BY <1>0 DEF JobTypes
<1>4. ASSUME \/ MainTest \/ MainSelect \/ MainTimeout \/ MainRelock \/ MainEnd
             \/ SignalKills \/ UNCHANGED vars
             \/ \E t \in Threads : Signal(t)
             \/ \E c \in Clients : Connect(c) \/ Say(c)
      PROVE  JobTypes'
  <2>1. UNCHANGED <<waiter, sem, childOf, thread>>
    BY <1>4 DEF MainTest, MainSelect, MainTimeout, MainRelock, MainEnd,
         SignalKills, Signal, Connect, Say, vars, jobs, clients
  <2> QED BY <1>2, <1>3, <2>1
<1>5. ASSUME NEW c \in Clients,
             \/ MainAccept(c) \/ LeaveOnByte(c) \/ SelectClient(c) \/ Receive(c)
             \/ Answer(c) \/ AnswerFails(c) \/ ServeNothing(c) \/ AskTable(c)
             \/ UseTable(c)
      PROVE  JobTypes'
  <2>1. /\ UNCHANGED <<waiter, sem, childOf>>
        /\ \/ thread' = thread
           \/ /\ \/ conn[c] = "pending"
                 \/ thread[c] \in {"serving", "receiving", "table"}
              /\ \E q \in ThreadState \ {"record"} :
                    thread' = [thread EXCEPT ![c] = q]
    BY <1>5 DEF MainAccept, LeaveOnByte, SelectClient, Receive, Answer,
                AnswerFails, ServeNothing, AskTable, UseTable, GotRequest,
                ThreadGoto, Serving, EndThread, ExitProcess, jobs, clients,
                ThreadState
  <2>2. conn[c] = "pending" => thread[c] = "none"
    BY <1>0 DEF ClientTypes
  <2>3. thread' = thread \/ childOf[c] = "none"
    BY <1>0, <2>1, <2>2 DEF JobTypes
  <2>4. \A d \in Clients : \/ thread'[d] = thread[d]
                           \/ childOf[d] = "none" /\ thread'[d] # "record"
    BY <1>0, <2>1, <2>3 DEF ClientTypes
  <2> QED BY <1>2, <1>3, <2>1, <2>4
<1>6. ASSUME NEW c \in Clients, StartChild(c) PROVE JobTypes'
  <2>1. /\ UNCHANGED <<waiter, sem>>
        /\ thread[c] \in {"serving", "receiving"}
        /\ thread' = [thread EXCEPT ![c] = "record"]
        /\ childOf' = [childOf EXCEPT ![c] = "running"]
    BY <1>6 DEF StartChild, GotRequest, ThreadGoto
  <2>2. childOf' \in [Clients -> {"none", "running", "zombie", "reaped"}]
    BY <1>0, <2>1 DEF JobTypes
  <2>3. \A d \in Clients :
           /\ childOf'[d] # "none" => thread'[d] \in {"record", "ended"}
           /\ thread'[d] = "record" => childOf'[d] # "none"
    BY <1>0, <2>1 DEF JobTypes, ClientTypes
  <2>4. Posted' = Posted
    BY <1>0, <2>1 DEF Posted, JobTypes, ClientTypes
  <2> QED BY <1>0, <2>1, <2>2, <2>3, <2>4 DEF JobTypes
<1>7. ASSUME NEW c \in Clients, RecordPid(c) PROVE JobTypes'
  <2>1. /\ UNCHANGED <<waiter, childOf>> /\ sem' = sem + 1
        /\ thread[c] = "record" /\ thread' = [thread EXCEPT ![c] = "ended"]
    BY <1>7 DEF RecordPid, ThreadGoto
  <2>2. \A d \in Clients :
           /\ childOf'[d] # "none" => thread'[d] \in {"record", "ended"}
           /\ thread'[d] = "record" => childOf'[d] # "none"
    BY <1>0, <2>1 DEF JobTypes, ClientTypes
  <2>3. childOf[c] # "none"
    BY <1>0, <2>1 DEF JobTypes
  <2>4. Cardinality(Posted') = Cardinality(Posted) + 1
    <3>1. c \notin Posted /\ Posted' = Posted \cup {c}
      BY <1>0, <2>1, <2>3 DEF Posted, ClientTypes
    <3> QED BY <1>1, <3>1, FS_AddElement
  <2> QED BY <1>0, <1>1, <2>1, <2>2, <2>4 DEF JobTypes
<1>8. ASSUME \/ WaiterTest \/ WaiterSem \/ WaiterNoChild \/ WaiterMark
             \/ WaiterRelock
      PROVE  JobTypes'
  <2>1. UNCHANGED <<thread, childOf>>
    BY <1>8 DEF WaiterTest, WaiterSem, WaiterNoChild, WaiterMark, WaiterRelock,
                clients
  <2>2. waiter' \in WaiterPlace
    BY <1>8 DEF WaiterTest, WaiterSem, WaiterNoChild, WaiterMark, WaiterRelock,
                WaiterGoto, WaiterPlace
  <2>3. sem' = sem \/ (sem > 0 /\ sem' = sem - 1)
    BY <1>8 DEF WaiterTest, WaiterSem, WaiterNoChild, WaiterMark, WaiterRelock
  <2>4. sem' \in Nat /\ sem' <= sem
    BY <1>3, <2>3
  <2> QED BY <1>2, <2>1, <2>2, <2>4
<1>9. ASSUME NEW c \in Clients, WaiterWait(c) \/ ChildEnds(c) PROVE JobTypes'
  <2>1. /\ UNCHANGED <<thread, sem>> /\ waiter' \in WaiterPlace
        /\ childOf[c] # "none"
        /\ \E q \in {"zombie", "reaped"} : childOf' = [childOf EXCEPT ![c] = q]
    BY <1>3, <1>9 DEF WaiterWait, ChildEnds, WaiterGoto, WaiterPlace, clients
  <2>2. childOf' \in [Clients -> {"none", "running", "zombie", "reaped"}]
    BY <1>0, <2>1 DEF JobTypes
  <2>3. \A d \in Clients : childOf'[d] # "none" <=> childOf[d] # "none"
    BY <1>0, <2>1 DEF JobTypes
  <2>4. Posted' = Posted
    BY <2>1, <2>3 DEF Posted
  <2> QED BY <1>0, <2>1, <2>2, <2>3, <2>4 DEF JobTypes
<1>10. ASSUME NEW t \in Threads, SetFinished(t) \/ WriteByte(t)
       PROVE  JobTypes'
  <2>1. UNCHANGED <<sem, childOf>> /\ waiter' \in WaiterPlace
    BY <1>3, <1>10 DEF SetFinished, WriteByte, Return, WaiterPlace
  <2>2. \/ thread' = thread
        \/ /\ t \in Clients /\ thread[t] = "serving"
           /\ thread' = [thread EXCEPT ![t] = "receiving"]
    BY <1>10 DEF SetFinished, WriteByte, Return
  <2>3. \A c \in Clients : \/ thread'[c] = thread[c]
                           \/ childOf[c] = "none" /\ thread'[c] # "record"
    BY <1>0, <2>2 DEF JobTypes, ClientTypes
  <2> QED BY <1>2, <1>3, <2>1, <2>3
<1> QED BY <1>4, <1>5, <1>6, <1>7, <1>8, <1>9, <1>10, SelectSteps DEF JobStep

(* A child is started before its thread tells of it: every post of the     *)
(* semaphore that is not taken belongs to a thread that has started a      *)
(* child, recorded its pid and ended, and no thread in another place has a *)
(* child.                                                                  *)
THEOREM SelectInvariant == Spec => []SelectInv
<1>1. Init => SelectInv
  <2> SUFFICES ASSUME Init PROVE SelectInv
    OBVIOUS
  <2>1. Cardinality(Posted) = 0
    <3>1. Posted = {}
      BY DEF Init, Posted
    <3> QED BY <3>1, FS_EmptySet
  <2>2. LoopTypes
    <3>1. 0 \in 0 .. MaxSignals
      BY ThreadNames
    <3>2. handler \in [Threads -> {"idle", "lock", "write"}]
      BY DEF Init
    <3> QED BY <3>1, <3>2 DEF Init, LoopTypes, MainPlace
  <2>3. ClientTypes
    BY DEF Init, ClientTypes, ThreadState
  <2>4. JobTypes
    BY <2>1 DEF Init, JobTypes, WaiterPlace
  <2> QED BY <2>2, <2>3, <2>4 DEF SelectInv
<1>2. SelectInv /\ [Next]_vars => SelectInv'
  BY NextKeepsLoopTypes, NextKeepsClientTypes, NextKeepsJobTypes DEF SelectInv
<1> QED BY <1>1, <1>2, PTL DEF Spec

(* Type correctness of the select servers, for any number of clients.      *)
THEOREM SelectTypeCorrect == Spec => []TypeOK
<1>1. ASSUME SelectInv PROVE TypeOK
  <2>1. Cardinality(Posted) <= Cardinality(Clients) /\ Cardinality(Posted) \in Nat
    BY ThreadNames, FS_Subset, FS_CardinalityType DEF Posted
  <2>2. sem \in 0 .. Cardinality(Clients)
    BY <1>1, <2>1, ThreadNames DEF SelectInv, JobTypes
  <2> QED BY <1>1, <2>2 DEF TypeOK, SelectInv, LoopTypes, ClientTypes, JobTypes,
                            MainPlace, ThreadState, WaiterPlace
<1> QED BY SelectInvariant, <1>1, PTL

(* In the servers whose waiting thread is absent nothing but main's own    *)
(* steps give or take its mutex: a signal's handler finds it locked only by*)
(* main, at the test or after the loop, where main keeps it.               *)
THEOREM MainAloneHolds == Spec => []MainHolds
<1>1. Init => MainHolds
  BY ThreadNames DEF Init, MainHolds
<1>2. ASSUME MainHolds, [Next]_vars PROVE MainHolds'
  <2>1. ASSUME MainTest \/ MainSelect \/ MainTimeout \/ MainRelock \/ MainEnd
        PROVE  MainHolds'
    BY <1>2, <2>1, ThreadNames DEF MainTest, MainSelect, MainTimeout, MainRelock,
         MainEnd, MainGoto, NoConnection, MainHolds, flag, jobs
  <2>2. ASSUME UNCHANGED <<program, main, mutex, waiter>> PROVE MainHolds'
    BY <1>2, <2>2 DEF MainHolds
  <2>3. ASSUME NEW c \in Clients,
               \/ LeaveOnByte(c) \/ SelectClient(c) \/ Receive(c) \/ Answer(c)
               \/ AnswerFails(c) \/ JobStep(c) \/ Connect(c) \/ Say(c)
        PROVE  UNCHANGED <<program, main, mutex, waiter>>
    BY <2>3 DEF LeaveOnByte, SelectClient, Receive, Answer, AnswerFails, JobStep,
                ServeNothing, AskTable, UseTable, StartChild, RecordPid,
                ThreadGoto, Connect, Say, flag, jobs
  <2>4. ASSUME \/ WaiterTest \/ WaiterSem \/ WaiterNoChild \/ WaiterMark
               \/ WaiterRelock \/ \E c \in Clients : WaiterWait(c)
        PROVE  MainHolds'
    BY <1>2, <2>4 DEF WaiterTest, WaiterSem, WaiterWait, WaiterNoChild,
                      WaiterMark, WaiterRelock, WaiterGoto, MainHolds, flag
  <2>5. ASSUME \/ SignalKills \/ UNCHANGED vars
               \/ \E c \in Clients : ChildEnds(c)
        PROVE  UNCHANGED <<program, main, mutex, waiter>>
    BY <2>5 DEF ChildEnds, SignalKills, vars, flag, jobs
  <2>6. ASSUME NEW t \in Threads, Signal(t)
        PROVE  UNCHANGED <<program, main, mutex, waiter>>
    BY <2>6 DEF Signal, flag, jobs
  <2>7. ASSUME NEW t \in Threads, SetFinished(t) \/ WriteByte(t)
        PROVE  MainHolds'
    <3>1. /\ UNCHANGED <<program, mutex>>
          /\ main' = main \/ (main = "select" /\ main' = NoConnection)
          /\ waiter' = waiter \/ waiter # "absent"
      BY <2>7 DEF SetFinished, WriteByte, Return
    <3> QED BY <1>2, <3>1 DEF MainHolds, NoConnection
  <2>8. ASSUME NEW c \in Clients, MainAccept(c) PROVE MainHolds'
    BY <1>2, <2>8, ThreadNames DEF MainAccept, MainGoto, MainHolds, flag, jobs
  <2> QED BY <1>2, <2>1, <2>2, <2>3, <2>4, <2>5, <2>6, <2>7, <2>8, SelectSteps
<1> QED BY <1>1, <1>2, PTL DEF Spec

-----------------------------------------------------------------------------
(* lab14_DAv: the table of jobs.  The invariant counts the threads past    *)
(* their second section as well, and follows the child of each thread,     *)
(* which tells a thread that has served a job from one that has not.       *)

StepName == {"none", "seed", "recv", "run", "wordless", "get_status",
             "get_stdout", "record", "write", "waitpid", "terminated", "end"}
Statuses == {"empty", "RUNNING", "TERMINATED"}
Answers  == Statuses \cup {Nothing, "limit", "id", "JOB NOT EXIST", "output",
                           "garbage"}
Done     == {c \in Conns : step[c] = "end" /\ child[c] = "reaped"}

ThreadTypes ==
    /\ step \in [Conns -> StepName]
    /\ command \in [Conns -> Commands]
    /\ answer \in [Conns -> Answers]
    /\ child \in [Conns -> {"none", "running", "exec", "zombie", "reaped"}]

TableTypes ==
    /\ id_seed \in Int
    /\ job_id \in [Conns -> Int]
    /\ \A c \in Conns : FirstId <= job_id[c] /\ job_id[c] <= id_seed
    /\ status \in [Ids -> Statuses]

ChildAgrees == \A c \in Conns :
    \/ step[c] \in {"none", "seed", "recv", "run", "wordless", "get_status",
                    "get_stdout"} /\ child[c] = "none"
    \/ step[c] \in {"record", "write", "waitpid"}
       /\ child[c] \in {"running", "exec", "zombie"}
    \/ step[c] = "terminated" /\ child[c] = "reaped"
    \/ step[c] = "end" /\ child[c] \in {"none", "reaped"}

JobsCounted == /\ running_jobs = Cardinality(BetweenSections)
               /\ job_index = Cardinality(Done)
               /\ id_seed = FirstId + running_jobs + job_index

Recorded == \A c \in Conns :
    /\ step[c] \in {"none", "seed"} => answer[c] = Nothing
    /\ answer[c] = "id" \/ step[c] = "write"
          => status[job_id[c]] \in {"RUNNING", "TERMINATED"}

ForkInv == ThreadTypes /\ TableTypes /\ ChildAgrees /\ JobsCounted /\ Recorded

(* All but whether the server is there: a server that a write has ended    *)
(* leaves the rest as it was.                                              *)
forkData == <<step, command, job_id, answer, status, files, id_seed,
              running_jobs, job_index, child>>

LEMMA ForkSteps ==
    ASSUME [ForkNext]_forkVars
    PROVE  \/ \E c \in Conns : \/ Accept(c) \/ ReadSeed(c) \/ RecvCommand(c)
                               \/ Refuse(c) \/ Fork(c) \/ ForkFails(c)
                               \/ Record(c) \/ WriteId(c) \/ WaitPid(c)
                               \/ Terminated(c) \/ GetStatus(c) \/ GetStdout(c)
                               \/ ChildOpens(c) \/ ChildExits(c)
           \/ UNCHANGED forkData
BY DEF ForkNext, ThreadHandle, ServesOn, WriteFails, ChildStep, forkVars,
       forkData, jobVars

(* What a client asks for.                                                 *)
LEMMA CommandParts ==
    ASSUME NEW m \in Commands
    PROVE  /\ Reached(m) \in {"run", "wordless", "get_status", "get_stdout", "end"}
           /\ m.of \in Ids
<1>1. Cardinality(Conns) \in Nat /\ FirstId \in Int
  BY ForkAssumption, FS_CardinalityType
<1>2. FirstId \in Ids
  BY <1>1 DEF Ids
<1> QED BY <1>2 DEF Commands, Reached

(* The two sets that are counted do not meet, so that the ids given out    *)
(* are never more than the connections and every one has its place in the  *)
(* table.                                                                  *)
LEMMA SeedInTable ==
    ASSUME ThreadTypes, TableTypes, JobsCounted
    PROVE  /\ running_jobs \in 0 .. Cardinality(Conns) /\ job_index \in Nat
           /\ id_seed \in Ids
           /\ \A c \in Conns : job_id[c] \in Ids
<1>1. /\ BetweenSections \subseteq Conns /\ Done \subseteq Conns
      /\ BetweenSections \cap Done = {}
  BY DEF BetweenSections, Done
<1>2. IsFiniteSet(Conns) /\ FirstId \in Int
  BY ForkAssumption
<1>3. /\ IsFiniteSet(BetweenSections) /\ IsFiniteSet(Done)
      /\ Cardinality(BetweenSections) \in Nat /\ Cardinality(Done) \in Nat
      /\ Cardinality(Conns) \in Nat
  BY <1>1, <1>2, FS_Subset, FS_CardinalityType
<1>4. Cardinality(BetweenSections \cup Done)
         = Cardinality(BetweenSections) + Cardinality(Done)
  BY <1>1, <1>3, DisjointSize
<1>5. Cardinality(BetweenSections \cup Done) <= Cardinality(Conns)
  BY <1>1, <1>2, FS_Subset
<1>6. id_seed \in Ids /\ running_jobs \in 0 .. Cardinality(Conns)
      /\ job_index \in Nat
  BY <1>2, <1>3, <1>4, <1>5 DEF JobsCounted, Ids
<1>7. ASSUME NEW c \in Conns PROVE job_id[c] \in Ids
  <2>1. /\ job_id[c] \in Int /\ id_seed \in Int
        /\ FirstId <= job_id[c] /\ job_id[c] <= id_seed
    BY DEF TableTypes
  <2> QED BY <1>2, <1>3, <1>6, <2>1 DEF Ids
<1> QED BY <1>6, <1>7

LEMMA KeepsThreadTypes ==
    ASSUME ForkInv, [ForkNext]_forkVars PROVE ThreadTypes'
<1>0. ThreadTypes /\ TableTypes
  BY DEF ForkInv
<1>1. ASSUME NEW c \in Conns, RecvCommand(c) PROVE ThreadTypes'
  <2>1. Reached(command[c]) \in StepName
    BY <1>0, CommandParts DEF ThreadTypes, StepName
  <2> QED BY <1>0, <1>1, <2>1 DEF RecvCommand, Go, ThreadTypes
<1>2. ASSUME NEW c \in Conns, GetStatus(c) PROVE ThreadTypes'
  <2>1. command[c].of \in Ids
    BY <1>0, CommandParts DEF ThreadTypes
  <2>2. PICK i \in Ids : command[c].of = i
    BY <2>1
  <2>3. status[i] \in Statuses
    BY <1>0 DEF TableTypes
  <2>4. PICK a \in Answers : answer' = [answer EXCEPT ![c] = a]
    BY <1>2, <2>2, <2>3 DEF GetStatus, Tell, Answers
  <2> QED BY <1>0, <1>2, <2>4 DEF GetStatus, Go, ThreadTypes, StepName
<1>3. ASSUME NEW c \in Conns,
             \/ Refuse(c) \/ WriteId(c) \/ GetStdout(c)
      PROVE  ThreadTypes'
  <2>1. PICK a \in Answers : answer' = [answer EXCEPT ![c] = a]
    BY <1>3 DEF Refuse, WriteId, GetStdout, Tell, Answers
  <2> QED BY <1>0, <1>3, <2>1 DEF Refuse, WriteId, GetStdout, Go, ThreadTypes, StepName
<1>4. ASSUME NEW c \in Conns,
             \/ Accept(c) \/ ReadSeed(c) \/ Fork(c) \/ ForkFails(c) \/ Record(c)
             \/ WaitPid(c) \/ Terminated(c) \/ ChildOpens(c) \/ ChildExits(c)
      PROVE  ThreadTypes'
  BY <1>0, <1>4 DEF Accept, ReadSeed, Fork, ForkFails, Record, WaitPid, Terminated,
       ChildOpens, ChildExits, Go, ThreadTypes, StepName
<1>5. CASE UNCHANGED forkData
  BY <1>0, <1>5 DEF ThreadTypes, forkData
<1> QED BY <1>1, <1>2, <1>3, <1>4, <1>5, ForkSteps

LEMMA KeepsTableTypes ==
    ASSUME ForkInv, [ForkNext]_forkVars PROVE TableTypes'
<1>0. ThreadTypes /\ TableTypes /\ JobsCounted
  BY DEF ForkInv
<1>i. /\ \A c \in Conns : job_id[c] \in Ids
      /\ FirstId \in Int /\ FirstId <= id_seed
  <2>1. FirstId \in Int
    BY ForkAssumption
  <2>2. id_seed \in Ids /\ \A c \in Conns : job_id[c] \in Ids
    BY <1>0, SeedInTable
  <2> QED BY <1>0, <2>1, <2>2 DEF Ids
<1>1. ASSUME NEW c \in Conns, ReadSeed(c) PROVE TableTypes'
  BY <1>0, <1>i, <1>1 DEF ReadSeed, jobVars, TableTypes, Ids
<1>2. ASSUME NEW c \in Conns, Record(c) \/ Terminated(c) PROVE TableTypes'
  <2>1. PICK i \in Ids : job_id[c] = i
    BY <1>i
  <2>2. PICK w \in Statuses : status' = [status EXCEPT ![i] = w]
    BY <1>2, <2>1 DEF Record, Terminated, Statuses
  <2>3. status' \in [Ids -> Statuses]
    BY <1>0, <2>2 DEF TableTypes
  <2>4. UNCHANGED job_id /\ id_seed' \in {id_seed, id_seed + 1}
    BY <1>2 DEF Record, Terminated
  <2>5. /\ id_seed' \in Int
        /\ \A d \in Conns : FirstId <= job_id[d] /\ job_id[d] <= id_seed'
    BY <1>0, <2>4 DEF TableTypes
  <2> QED BY <1>0, <2>3, <2>4, <2>5 DEF TableTypes
<1>3. ASSUME NEW c \in Conns,
             \/ Accept(c) \/ RecvCommand(c) \/ Refuse(c) \/ Fork(c) \/ ForkFails(c)
             \/ WriteId(c) \/ WaitPid(c) \/ GetStatus(c) \/ GetStdout(c)
             \/ ChildOpens(c) \/ ChildExits(c)
      PROVE  TableTypes'
  BY <1>0, <1>3 DEF Accept, RecvCommand, Refuse, Fork, ForkFails, WriteId, WaitPid,
       GetStatus, GetStdout, ChildOpens, ChildExits, jobVars, TableTypes
<1>4. CASE UNCHANGED forkData
  BY <1>0, <1>4 DEF TableTypes, forkData
<1> QED BY <1>1, <1>2, <1>3, <1>4, ForkSteps

LEMMA KeepsChildAgrees ==
    ASSUME ForkInv, [ForkNext]_forkVars PROVE ChildAgrees'
<1>0. ThreadTypes /\ ChildAgrees
  BY DEF ForkInv
<1>1. ASSUME NEW c \in Conns, RecvCommand(c) PROVE ChildAgrees'
  <2>1. PICK o \in {"run", "wordless", "get_status", "get_stdout", "end"} :
            Reached(command[c]) = o
    BY <1>0, CommandParts DEF ThreadTypes
  <2>2. /\ step[c] = "recv" /\ step' = [step EXCEPT ![c] = o]
        /\ UNCHANGED child
    BY <1>1, <2>1 DEF RecvCommand, Go
  <2> QED BY <1>0, <2>2 DEF ThreadTypes, ChildAgrees
<1>2. ASSUME NEW c \in Conns,
             \/ Accept(c) \/ ReadSeed(c) \/ Refuse(c) \/ Fork(c) \/ ForkFails(c)
             \/ GetStatus(c) \/ GetStdout(c)
      PROVE  ChildAgrees'
  BY <1>0, <1>2 DEF Accept, ReadSeed, Refuse, Fork, ForkFails, GetStatus, GetStdout,
       Go, ThreadTypes, ChildAgrees
<1>3. ASSUME NEW c \in Conns,
             \/ Record(c) \/ WriteId(c) \/ WaitPid(c) \/ Terminated(c)
             \/ ChildOpens(c) \/ ChildExits(c)
      PROVE  ChildAgrees'
  BY <1>0, <1>3 DEF Record, WriteId, WaitPid, Terminated, ChildOpens, ChildExits,
       Go, ThreadTypes, ChildAgrees
<1>4. CASE UNCHANGED forkData
  BY <1>0, <1>4 DEF ChildAgrees, forkData
<1> QED BY <1>1, <1>2, <1>3, <1>4, ForkSteps

(* A thread enters the first set with its first section, and leaves it for *)
(* the second with its second section.                                     *)
LEMMA KeepsJobsCounted ==
    ASSUME ForkInv, [ForkNext]_forkVars PROVE JobsCounted'
<1>0. ThreadTypes /\ TableTypes /\ ChildAgrees /\ JobsCounted
  BY DEF ForkInv
<1>f. /\ IsFiniteSet(Conns) /\ FirstId \in Int
      /\ BetweenSections \in SUBSET Conns /\ Done \in SUBSET Conns
      /\ BetweenSections' \in SUBSET Conns /\ Done' \in SUBSET Conns
  BY ForkAssumption DEF BetweenSections, Done
<1>1. ASSUME NEW c \in Conns, Record(c) PROVE JobsCounted'
  <2>1. /\ \A u \in Conns : u # c => (u \in BetweenSections <=> u \in BetweenSections')
        /\ c \notin BetweenSections /\ c \in BetweenSections'
        /\ Done' = Done
    BY <1>0, <1>1 DEF Record, Go, ThreadTypes, BetweenSections, Done
  <2>2. /\ Cardinality(BetweenSections) \in Nat
        /\ Cardinality(BetweenSections') = Cardinality(BetweenSections) + 1
    <3> HIDE DEF BetweenSections
    <3>1. /\ Cardinality(BetweenSections) \in Nat
          /\ Cardinality(BetweenSections') \in Nat
          /\ Cardinality(BetweenSections') = Cardinality(BetweenSections)
                 + (IF c \in BetweenSections' THEN 1 ELSE 0)
                 - (IF c \in BetweenSections THEN 1 ELSE 0)
      BY <1>f, <2>1, MovedSize
    <3> QED BY <2>1, <3>1
  <2>3. Cardinality(Done) \in Nat
    BY <1>f, FS_Subset, FS_CardinalityType
  <2> QED BY <1>0, <1>1, <1>f, <2>1, <2>2, <2>3 DEF Record, JobsCounted
<1>2. ASSUME NEW c \in Conns, Terminated(c) PROVE JobsCounted'
  <2>1. step[c] = "terminated" /\ child[c] = "reaped"
        /\ step' = [step EXCEPT ![c] = "end"] /\ UNCHANGED child
    BY <1>0, <1>2 DEF Terminated, Go, ChildAgrees
  <2>2. /\ \A u \in Conns : u # c => (u \in BetweenSections <=> u \in BetweenSections')
        /\ c \in BetweenSections /\ c \notin BetweenSections'
        /\ \A u \in Conns : u # c => (u \in Done <=> u \in Done')
        /\ c \notin Done /\ c \in Done'
    BY <1>0, <2>1 DEF ThreadTypes, BetweenSections, Done
  <2>3. /\ Cardinality(BetweenSections) \in Nat
        /\ Cardinality(BetweenSections') = Cardinality(BetweenSections) - 1
    <3>1. /\ Cardinality(BetweenSections) \in Nat
          /\ Cardinality(BetweenSections') \in Nat
          /\ Cardinality(BetweenSections') = Cardinality(BetweenSections)
                 + (IF c \in BetweenSections' THEN 1 ELSE 0)
                 - (IF c \in BetweenSections THEN 1 ELSE 0)
      BY <1>f, <2>2, MovedSize
    <3> QED BY <2>2, <3>1
  <2>4. /\ Cardinality(Done) \in Nat
        /\ Cardinality(Done') = Cardinality(Done) + 1
    <3>1. /\ Cardinality(Done) \in Nat /\ Cardinality(Done') \in Nat
          /\ Cardinality(Done') = Cardinality(Done)
                 + (IF c \in Done' THEN 1 ELSE 0) - (IF c \in Done THEN 1 ELSE 0)
      BY <1>f, <2>2, MovedSize
    <3> QED BY <2>2, <3>1
  <2> QED BY <1>0, <1>2, <1>f, <2>3, <2>4 DEF Terminated, JobsCounted
<1>3. ASSUME NEW c \in Conns,
             \/ Accept(c) \/ ReadSeed(c) \/ RecvCommand(c) \/ Refuse(c) \/ Fork(c)
             \/ ForkFails(c) \/ WriteId(c) \/ WaitPid(c) \/ GetStatus(c)
             \/ GetStdout(c) \/ ChildOpens(c) \/ ChildExits(c)
      PROVE  JobsCounted'
  <2>1. UNCHANGED <<running_jobs, job_index, id_seed>>
    BY <1>3 DEF Accept, ReadSeed, RecvCommand, Refuse, Fork, ForkFails, WriteId,
         WaitPid, GetStatus, GetStdout, ChildOpens, ChildExits, jobVars
  <2>2. ASSUME RecvCommand(c)
        PROVE  BetweenSections' = BetweenSections /\ Done' = Done
    <3>1. PICK o \in {"run", "wordless", "get_status", "get_stdout", "end"} :
              Reached(command[c]) = o
      BY <1>0, CommandParts DEF ThreadTypes
    <3>2. /\ step[c] = "recv" /\ step' = [step EXCEPT ![c] = o]
          /\ UNCHANGED child
      BY <2>2, <3>1 DEF RecvCommand, Go
    <3> QED BY <1>0, <3>2 DEF ThreadTypes, ChildAgrees, BetweenSections, Done
  <2>3. ASSUME \/ Accept(c) \/ ReadSeed(c) \/ Refuse(c) \/ Fork(c) \/ ForkFails(c)
               \/ WriteId(c) \/ WaitPid(c) \/ GetStatus(c) \/ GetStdout(c)
        PROVE  BetweenSections' = BetweenSections /\ Done' = Done
    BY <1>0, <2>3 DEF Accept, ReadSeed, Refuse, Fork, ForkFails, WriteId, WaitPid,
         GetStatus, GetStdout, Go, ThreadTypes, ChildAgrees, BetweenSections, Done
  <2>4. ASSUME ChildOpens(c) \/ ChildExits(c)
        PROVE  BetweenSections' = BetweenSections /\ Done' = Done
    BY <1>0, <2>4 DEF ChildOpens, ChildExits, ThreadTypes, BetweenSections, Done
  <2>5. BetweenSections' = BetweenSections /\ Done' = Done
    BY <1>3, <2>2, <2>3, <2>4
  <2> QED BY <1>0, <2>1, <2>5 DEF JobsCounted
<1>4. CASE UNCHANGED forkData
  <2>1. BetweenSections' = BetweenSections /\ Done' = Done
    BY <1>4 DEF forkData, BetweenSections, Done
  <2> QED BY <1>0, <1>4, <2>1 DEF JobsCounted, forkData
<1> QED BY <1>1, <1>2, <1>3, <1>4, ForkSteps

(* A recorded job stays recorded, though another thread may write over it. *)
LEMMA KeepsRecorded ==
    ASSUME ForkInv, [ForkNext]_forkVars PROVE Recorded'
<1>0. ThreadTypes /\ TableTypes /\ Recorded
  BY DEF ForkInv
<1>i. \A c \in Conns : job_id[c] \in Ids
  BY SeedInTable DEF ForkInv
<1>1. ASSUME NEW c \in Conns, ReadSeed(c) PROVE Recorded'
  BY <1>0, <1>1 DEF ReadSeed, Go, jobVars, ThreadTypes, TableTypes, Recorded, Nothing
<1>2. ASSUME NEW c \in Conns, Record(c) \/ Terminated(c) PROVE Recorded'
  <2>1. PICK i \in Ids : job_id[c] = i
    BY <1>i
  <2>2. PICK w \in {"RUNNING", "TERMINATED"} : status' = [status EXCEPT ![i] = w]
    BY <1>2, <2>1 DEF Record, Terminated
  <2>3. \A j \in Ids : status'[j] = status[j] \/ status'[j] = w
    BY <1>0, <2>2 DEF TableTypes
  <2>4. status'[i] = w
    BY <1>0, <2>2 DEF TableTypes
  <2>5. /\ UNCHANGED <<job_id, answer>>
        /\ step' = [step EXCEPT ![c] = step'[c]] /\ step'[c] \in {"write", "end"}
    BY <1>0, <1>2 DEF Record, Terminated, Go, ThreadTypes
  <2>6. ASSUME NEW d \in Conns
        PROVE  /\ step'[d] \in {"none", "seed"} => answer'[d] = Nothing
               /\ answer'[d] = "id" \/ step'[d] = "write"
                     => status'[job_id'[d]] \in {"RUNNING", "TERMINATED"}
    <3>1. PICK j \in Ids : job_id[d] = j
      BY <1>i
    <3>2. job_id'[d] = j /\ answer'[d] = answer[d]
      BY <2>5, <3>1
    <3>3. CASE d = c
      <4>1. j = i
        BY <2>1, <3>1, <3>3
      <4> QED BY <2>4, <2>5, <3>2, <3>3, <4>1
    <3>4. CASE d # c
      <4>1. step'[d] = step[d]
        BY <1>0, <2>5, <3>4 DEF ThreadTypes
      <4> QED BY <1>0, <2>3, <3>1, <3>2, <4>1 DEF Recorded
    <3> QED BY <3>3, <3>4
  <2> QED BY <2>6 DEF Recorded
<1>3. ASSUME NEW c \in Conns, GetStatus(c) PROVE Recorded'
  <2>1. PICK i \in Ids : command[c].of = i
    BY <1>0, CommandParts DEF ThreadTypes
  <2>2. status[i] \in Statuses
    BY <1>0 DEF TableTypes
  <2>3. PICK a \in Answers : a # "id" /\ answer' = [answer EXCEPT ![c] = a]
    BY <1>3, <2>1, <2>2 DEF GetStatus, Tell, Answers, Statuses
  <2> QED BY <1>0, <1>3, <2>3 DEF GetStatus, Go, jobVars, ThreadTypes, Recorded
<1>4. ASSUME NEW c \in Conns,
             \/ Refuse(c) \/ WriteId(c) \/ GetStdout(c)
      PROVE  Recorded'
  <2>1. PICK a \in Answers : /\ answer' = [answer EXCEPT ![c] = a]
                             /\ a = "id" => step[c] = "write"
    BY <1>4 DEF Refuse, WriteId, GetStdout, Tell, Go, Answers
  <2>2. /\ UNCHANGED <<job_id, status>>
        /\ step' = [step EXCEPT ![c] = step'[c]] /\ step'[c] \in {"waitpid", "end"}
    BY <1>0, <1>4 DEF Refuse, WriteId, GetStdout, Go, jobVars, ThreadTypes
  <2> QED BY <1>0, <2>1, <2>2 DEF ThreadTypes, Recorded
<1>5. ASSUME NEW c \in Conns, RecvCommand(c) PROVE Recorded'
  <2>1. PICK o \in {"run", "wordless", "get_status", "get_stdout", "end"} :
            Reached(command[c]) = o
    BY <1>0, CommandParts DEF ThreadTypes
  <2> QED BY <1>0, <1>5, <2>1 DEF RecvCommand, Go, jobVars, ThreadTypes, Recorded
<1>6. ASSUME NEW c \in Conns,
             \/ Accept(c) \/ Fork(c) \/ ForkFails(c) \/ WaitPid(c)
             \/ ChildOpens(c) \/ ChildExits(c)
      PROVE  Recorded'
  BY <1>0, <1>6 DEF Accept, Fork, ForkFails, WaitPid, ChildOpens, ChildExits, Go,
       jobVars, ThreadTypes, Recorded
<1>7. CASE UNCHANGED forkData
  BY <1>0, <1>7 DEF Recorded, forkData
<1> QED BY <1>1, <1>2, <1>3, <1>4, <1>5, <1>6, <1>7, ForkSteps

(* The invariant of lab14_DAv holds in every state it reaches, for any     *)
(* number of connections, any limit and whatever the clients may ask.      *)
THEOREM ForkInvariant == ForkSpec => []ForkInv
<1>1. ASSUME Start PROVE ForkInv
  <2>1. BetweenSections = {} /\ Done = {} /\ Cardinality({}) = 0
    BY <1>1, FS_EmptySet DEF Start, BetweenSections, Done
  <2>2. FirstId \in Int
    BY ForkAssumption
  <2>3. ThreadTypes
    BY <1>1 DEF Start, ThreadTypes, StepName, Answers
  <2>4. TableTypes
    BY <1>1, <2>2 DEF Start, TableTypes, Statuses
  <2>5. ChildAgrees /\ Recorded
    BY <1>1 DEF Start, ChildAgrees, Recorded, Nothing
  <2>6. JobsCounted
    BY <1>1, <2>1, <2>2 DEF Start, JobsCounted
  <2> QED BY <2>3, <2>4, <2>5, <2>6 DEF ForkInv
<1>2. ForkInv /\ [ForkNext]_forkVars => ForkInv'
  BY KeepsThreadTypes, KeepsTableTypes, KeepsChildAgrees, KeepsJobsCounted,
     KeepsRecorded DEF ForkInv
<1> QED BY <1>1, <1>2, PTL DEF ForkSpec

(* running_jobs stays between zero and the number of connections, although *)
(* it is tested without the mutex, and every id fits the table.            *)
THEOREM ForkTypeCorrect == ForkSpec => []ForkTypeOK
<1>1. ForkInv => ForkTypeOK
  BY SeedInTable DEF ForkInv, ForkTypeOK
<1> QED BY ForkInvariant, <1>1, PTL

(* The counters of lab14_DAv agree with its threads, and a job whose id a  *)
(* client was told is in the table, although threads may share an id.      *)
THEOREM TableIsRight == ForkSpec => []TableAgrees
<1>1. ASSUME ForkInv PROVE TableAgrees
  <2>1. CountersAgree
    <3>1. /\ running_jobs \in Int /\ job_index \in Int /\ FirstId \in Int
          /\ id_seed = FirstId + running_jobs + job_index
      BY <1>1, SeedInTable, ForkAssumption DEF ForkInv, JobsCounted
    <3>2. id_seed - FirstId = running_jobs + job_index
      BY <3>1
    <3> QED BY <1>1, <3>2 DEF ForkInv, JobsCounted, CountersAgree
  <2>2. ToldExists
    BY <1>1 DEF ForkInv, TableTypes, Recorded, ToldExists
  <2> QED BY <2>1, <2>2 DEF TableAgrees
<1> QED BY ForkInvariant, <1>1, PTL

-----------------------------------------------------------------------------
(* The planner: the handlers of forked threads run one at a time, inside   *)
(* First's, although First unlocks the mutex without having it.  The mutex *)
(* has no part in the argument.  It is whose turn it is: while a thread    *)
(* that First forked has not ended, First waits to join it and is in no    *)
(* queue, so that main can only choose that thread, even when its wait     *)
(* returns for nothing.                                                    *)

Places == {"unborn", "lock", "select", "loop", "test", "asleep", "relock", "fork",
           "create", "queue", "enqueue", "queued", "join", "finish", "unlock", "end"}
Latest   == Forked[forked]
Starting == {"fork", "create", "queue", "enqueue"}
Joining  == {"queued", "join"}
Waiting  == {"unlock", "loop", "test", "asleep", "relock"}

InSlice  == {"test", "asleep", "relock", "finish"}

PlanTypes ==
    /\ place \in [Plan!Tasks \cup {Scheduler} -> Places]
    /\ place[First] \in Waiting \cup Starting \cup Joining \cup {"finish", "end"}
    /\ forked \in 0 .. Len(Forked)
    /\ slices \in [Plan!Tasks -> 0 .. Slices]
    /\ thread_id \in [Plan!Tasks -> Plan!Tasks]
    /\ thread_id[First] = First
    /\ \A i \in 1 .. Len(Forked) : thread_id[Forked[i]] # First
    /\ ready_queues \in [Plan!Prios -> Seq(Plan!Tasks)]
    /\ ready_queues["low"] \in {<<>>, <<First>>}
    /\ \/ ready_queues["high"] = <<>>
       \/ forked > 0 /\ ready_queues["high"] = <<Latest>>
    /\ current \in Plan!Tasks \cup {Nobody}

(* The threads are forked in order, one at a time, one in each slice.      *)
OneAtATimeForked ==
    /\ \A i \in 1 .. Len(Forked) :
          /\ i > forked => place[Forked[i]] = "unborn" /\ slices[Forked[i]] = Slices
          /\ i < forked => place[Forked[i]] = "end"
    /\ forked > 0 =>
          /\ place[Latest] # "unborn"
          /\ place[Latest] = "end" => slices[Latest] = 0
          /\ place[First] \in Waiting \cup {"fork", "create", "finish", "end"}
                => place[Latest] = "end"
    /\ forked + slices[First]
          = IF place[First] \in {"queue", "enqueue", "finish"} \cup Joining
            THEN Slices + 1 ELSE Slices
    /\ place[First] \notin {"unlock", "loop", "end"} => slices[First] > 0
    /\ forked > 0 /\ place[Latest] \in InSlice => slices[Latest] > 0

(* Whose turn it is.                                                       *)
Turns ==
    /\ place[First] \notin Waiting => ready_queues["low"] = <<>>
    /\ ready_queues["low"] # <<>> => slices[First] > 0
    /\ current = First => ready_queues["low"] = <<>>
    /\ current = First /\ place[First] \in Waiting => ready_queues["high"] = <<>>
    /\ place[First] \in Starting => current = First /\ ready_queues["high"] = <<>>
    /\ place[First] \in {"queue", "enqueue"} => slices[Latest] = Slices
    /\ place[First] \in Joining /\ slices[Latest] < Slices => current # First
    /\ place[First] = "finish" => current # First
    /\ forked > 0 /\ place[Latest] = "finish" => current = thread_id[Latest]

PlanInv == PlanTypes /\ OneAtATimeForked /\ Turns

(* What the parameters say, in the form the proofs use.                    *)
LEMMA PlanNames ==
    ASSUME Plan!PlannerParameters
    PROVE  /\ Len(Forked) \in Nat /\ Slices \in Nat /\ Slices > 0
           /\ Slices <= Len(Forked)
           /\ First \in Plan!Tasks /\ First # Scheduler /\ First # Nobody
           /\ \A i \in 1 .. Len(Forked) :
                 Forked[i] \in Plan!Tasks /\ Forked[i] # First /\ Forked[i] # Scheduler
           /\ \A i, j \in 1 .. Len(Forked) : Forked[i] = Forked[j] => i = j
           /\ \A t \in Plan!Tasks :
                 /\ t # Scheduler
                 /\ t # First => \E i \in 1 .. Len(Forked) : t = Forked[i]
<1>1. /\ Len(Forked) \in Nat /\ DOMAIN Forked = 1 .. Len(Forked)
      /\ Slices \in Nat /\ Slices > 0 /\ Slices <= Len(Forked)
  BY DEF Plan!PlannerParameters
<1>2. \A i \in 1 .. Len(Forked) : Forked[i] \in Plan!Range(Forked)
  BY <1>1 DEF Plan!Range
<1>3. \A t \in Plan!Range(Forked) : \E i \in 1 .. Len(Forked) : t = Forked[i]
  BY <1>1 DEF Plan!Range
<1>4. \A i, j \in 1 .. Len(Forked) : Forked[i] = Forked[j] => i = j
  BY <1>1 DEF Plan!PlannerParameters, Plan!IsInjective
<1> QED BY <1>1, <1>2, <1>3, <1>4 DEF Plan!PlannerParameters, Plan!Tasks

(* A thread that First forked and that has not ended is the latest.        *)
LEMMA LatestRuns ==
    ASSUME Plan!PlannerParameters, PlanInv, NEW t \in Plan!Tasks, t # First,
           place[t] \notin {"unborn", "end"}
    PROVE  /\ forked > 0 /\ t = Latest
           /\ place[First] \in {"queue", "enqueue"} \cup Joining
<1>1. PICK i \in 1 .. Len(Forked) : t = Forked[i]
  BY PlanNames
<1>2. forked \in 0 .. Len(Forked) /\ Len(Forked) \in Nat
  BY PlanNames DEF PlanInv, PlanTypes
<1>3. ~(i > forked) /\ ~(i < forked)
  BY <1>1 DEF PlanInv, OneAtATimeForked
<1>4. i = forked /\ forked > 0
  BY <1>2, <1>3
<1> QED BY <1>1, <1>4 DEF PlanInv, PlanTypes, OneAtATimeForked, Latest, Waiting,
                          Starting, Joining

(* While First forks, and until it has joined, there is a latest thread.   *)
LEMMA LatestExists ==
    ASSUME Plan!PlannerParameters, PlanInv
    PROVE  /\ forked \in Nat /\ forked <= Len(Forked)
           /\ slices[First] \in 0 .. Slices
           /\ place[First] \in {"queue", "enqueue", "finish"} \cup Joining
                => forked > 0
           /\ forked > 0 => /\ forked \in 1 .. Len(Forked)
                            /\ Latest \in Plan!Tasks /\ Latest # First
                            /\ Latest # Scheduler
                            /\ thread_id[Latest] \in Plan!Tasks
                            /\ thread_id[Latest] # First
                            /\ slices[Latest] \in 0 .. Slices
<1>1. /\ forked \in Nat /\ forked <= Len(Forked) /\ Len(Forked) \in Nat
      /\ slices[First] \in 0 .. Slices /\ Slices \in Nat
  BY PlanNames DEF PlanInv, PlanTypes
<1>2. place[First] \in {"queue", "enqueue", "finish"} \cup Joining => forked > 0
  BY <1>1 DEF PlanInv, OneAtATimeForked
<1>3. ASSUME forked > 0
      PROVE  /\ forked \in 1 .. Len(Forked)
             /\ Latest \in Plan!Tasks /\ Latest # First /\ Latest # Scheduler
  BY <1>1, <1>3, PlanNames DEF Latest
<1>4. ASSUME forked > 0
      PROVE  /\ thread_id[Latest] \in Plan!Tasks /\ thread_id[Latest] # First
             /\ slices[Latest] \in 0 .. Slices
  BY <1>3, <1>4 DEF PlanInv, PlanTypes, Latest
<1> QED BY <1>1, <1>2, <1>3, <1>4

(* Steps that change where one task is, and main perhaps.                  *)
Rest == <<ready_queues, current, thread_id, slices, forked>>

(* Steps of main, or that change nothing but the mutex.                    *)
LEMMA MainMoves ==
    ASSUME PlanInv, UNCHANGED Rest,
           place' \in [Plan!Tasks \cup {Scheduler} -> Places],
           \A u \in Plan!Tasks : place'[u] = place[u],
           Plan!PlannerParameters
    PROVE  PlanInv'
<1>1. /\ place'[First] = place[First]
      /\ \A i \in 1 .. Len(Forked) : place'[Forked[i]] = place[Forked[i]]
      /\ forked > 0 => place'[Latest] = place[Latest]
      /\ Latest' = Latest
  BY PlanNames, LatestExists DEF Rest, Latest
<1>2. PlanTypes'
  BY <1>1 DEF PlanInv, PlanTypes, Rest
<1>3. OneAtATimeForked'
  BY <1>1 DEF PlanInv, OneAtATimeForked, Rest
<1>4. Turns'
  BY <1>1, LatestExists DEF PlanInv, Turns, Rest
<1> QED BY <1>2, <1>3, <1>4 DEF PlanInv

(* Steps of a thread that First forked.                                    *)
LEMMA ForkedMoves ==
    ASSUME Plan!PlannerParameters, PlanInv, UNCHANGED Rest,
           NEW t \in Plan!Tasks, t # First,
           place[t] \notin {"unborn", "end"}, place'[t] # "unborn",
           place' \in [Plan!Tasks \cup {Scheduler} -> Places],
           \A u \in Plan!Tasks : u # t => place'[u] = place[u],
           place'[t] = "end" => slices[t] = 0,
           place'[t] \in InSlice => slices[t] > 0,
           place'[t] = "finish" => current = thread_id[t]
    PROVE  PlanInv'
<1>1. /\ forked > 0 /\ t = Latest
      /\ place[First] \in {"queue", "enqueue"} \cup Joining
  BY LatestRuns
<1>2. /\ place'[First] = place[First]
      /\ forked \in 1 .. Len(Forked)
      /\ \A i \in 1 .. Len(Forked) :
            i # forked => place'[Forked[i]] = place[Forked[i]]
      /\ Latest' = Latest
  BY <1>1, PlanNames, LatestExists DEF Rest, Latest
<1>3. PlanTypes'
  BY <1>2 DEF PlanInv, PlanTypes, Rest
<1>4. OneAtATimeForked'
  <2>1. \A i \in 1 .. Len(Forked) :
           /\ i > forked => place'[Forked[i]] = "unborn" /\ slices[Forked[i]] = Slices
           /\ i < forked => place'[Forked[i]] = "end"
    BY <1>2, LatestExists DEF PlanInv, OneAtATimeForked
  <2> QED BY <1>1, <1>2, <2>1 DEF PlanInv, OneAtATimeForked, Rest, Joining, Waiting
<1>5. Turns'
  BY <1>1, <1>2 DEF PlanInv, Turns, Rest, Joining, Waiting, Starting
<1> QED BY <1>3, <1>4, <1>5 DEF PlanInv

(* Steps of First that change nothing but where it is.                     *)
LEMMA FirstMoves ==
    ASSUME Plan!PlannerParameters, PlanInv, UNCHANGED Rest,
           place' \in [Plan!Tasks \cup {Scheduler} -> Places],
           \A u \in Plan!Tasks : u # First => place'[u] = place[u],
           \/ /\ place[First] = "loop" /\ place'[First] = "test"
              /\ slices[First] > 0
           \/ /\ place[First] = "loop" /\ place'[First] = "end"
              /\ slices[First] = 0
           \/ place[First] = "test" /\ place'[First] = "asleep"
           \/ place[First] = "asleep" /\ place'[First] = "relock"
           \/ place[First] = "relock" /\ place'[First] = "test"
           \/ place[First] = "unlock" /\ place'[First] = "loop"
           \/ /\ place[First] = "test" /\ place'[First] = "fork"
              /\ current = First
           \/ place[First] = "fork" /\ place'[First] = "create"
           \/ place[First] = "queue" /\ place'[First] = "enqueue"
           \/ place[First] = "queued" /\ place'[First] = "join"
           \/ /\ place[First] = "join" /\ place'[First] = "finish"
              /\ place[Latest] = "end"
    PROVE  PlanInv'
<1>1. /\ forked \in Nat
      /\ \A i \in 1 .. Len(Forked) : place'[Forked[i]] = place[Forked[i]]
      /\ forked > 0 => place'[Latest] = place[Latest]
      /\ Latest' = Latest
  BY PlanNames, LatestExists DEF Rest, Latest
<1>2. PlanTypes'
  BY <1>1 DEF PlanInv, PlanTypes, Rest, Waiting, Starting, Joining
<1>3. OneAtATimeForked'
  BY <1>1, LatestExists DEF PlanInv, OneAtATimeForked, Rest, Waiting, Joining
<1>4. Turns'
  <2>1. place[First] = "join" /\ place[Latest] = "end" => current # First
    BY LatestExists, PlanNames DEF PlanInv, OneAtATimeForked, Turns, Joining
  <2> QED BY <1>1, <2>1 DEF PlanInv, Turns, Rest, Waiting, Starting, Joining
<1> QED BY <1>2, <1>3, <1>4 DEF PlanInv

(* enqueue leaves a task once in its queue.                                *)
LEMMA Enqueued ==
    ASSUME NEW t \in Plan!Tasks, Plan!enqueue(t),
           ready_queues[Plan!priority(t)] \in {<<>>, <<t>>},
           ready_queues \in [Plan!Prios -> Seq(Plan!Tasks)]
    PROVE  ready_queues' = [ready_queues EXCEPT ![Plan!priority(t)] = <<t>>]
<1> DEFINE q == ready_queues[Plan!priority(t)]
<1>1. CASE q = <<>>
  <2>1. ~ Plan!Contains(q, t)
    BY <1>1 DEF Plan!Contains
  <2>2. Append(q, t) = <<t>>
    BY <1>1
  <2> QED BY <2>1, <2>2 DEF Plan!enqueue
<1>2. CASE q = <<t>>
  <2>1. Plan!Contains(q, t)
    BY <1>2 DEF Plan!Contains
  <2>2. (CHOOSE i \in DOMAIN q : q[i] = t) = 1
    BY <1>2
  <2>3. SubSeq(q, 1, 1) = <<t>>
    <3>1. q \in Seq({t}) /\ Len(q) = 1 /\ q[1] = t
      BY <1>2
    <3> HIDE DEF q
    <3>2. /\ SubSeq(q, 1, 1) \in Seq({t}) /\ Len(SubSeq(q, 1, 1)) = 1
      BY <3>1, SubSeqProperties
    <3>3. <<t>> \in Seq({t}) /\ Len(<<t>>) = 1
      OBVIOUS
    <3>4. \A i \in 1 .. 1 : SubSeq(q, 1, 1)[i] = <<t>>[i]
      BY <3>1, SubSeqProperties
    <3> QED BY <3>2, <3>3, <3>4, SeqEqual
  <2> QED BY <2>1, <2>2, <2>3 DEF Plan!enqueue
<1> QED BY <1>1, <1>2

LEMMA FinishKeeps ==
    ASSUME Plan!PlannerParameters, PlanInv, NEW t \in Plan!Tasks, Plan!Finish(t)
    PROVE  PlanInv'
<1>1. /\ place[t] = "finish" /\ slices' = [slices EXCEPT ![t] = slices[t] - 1]
      /\ UNCHANGED <<current, thread_id, forked>> /\ Latest' = Latest
  BY DEF Plan!Finish, Latest
<1>2. /\ place' \in [Plan!Tasks \cup {Scheduler} -> Places]
      /\ place'[t] = "unlock"
      /\ \A u \in Plan!Tasks : u # t => place'[u] = place[u]
  BY PlanNames DEF Plan!Finish, Plan!SignalMain, PlanInv, PlanTypes, Places
<1>3. CASE t = First
  <2>1. /\ Plan!priority(t) = "low" /\ ready_queues["low"] = <<>>
        /\ forked > 0 /\ slices[First] \in 0 .. Slices /\ slices[First] > 0
        /\ forked \in 1 .. Len(Forked) /\ Latest \in Plan!Tasks /\ Latest # First
    BY <1>1, <1>3, LatestExists DEF Plan!priority, PlanInv, Turns, Waiting,
         OneAtATimeForked
  <2>2. IF slices[First] > 1
        THEN ready_queues' = [ready_queues EXCEPT !["low"] = <<First>>]
        ELSE UNCHANGED ready_queues
    BY <1>3, <2>1, Enqueued DEF Plan!Finish, PlanInv, PlanTypes
  <2>3. /\ \A i \in 1 .. Len(Forked) : /\ place'[Forked[i]] = place[Forked[i]]
                                       /\ slices'[Forked[i]] = slices[Forked[i]]
        /\ place'[Latest] = place[Latest] /\ slices'[Latest] = slices[Latest]
        /\ slices'[First] = slices[First] - 1
        /\ slices' \in [Plan!Tasks -> 0 .. Slices]
    BY <1>1, <1>2, <1>3, <2>1, PlanNames DEF PlanInv, PlanTypes
  <2>4. /\ ready_queues' \in [Plan!Prios -> Seq(Plan!Tasks)]
        /\ ready_queues'["low"] = IF slices[First] > 1 THEN <<First>> ELSE <<>>
        /\ ready_queues'["high"] = ready_queues["high"]
    <3>1. <<First>> \in Seq(Plan!Tasks) /\ Plan!Prios = {"low", "high"}
      BY PlanNames DEF Plan!Prios
    <3>2. ready_queues \in [{"low", "high"} -> Seq(Plan!Tasks)]
      BY <3>1 DEF PlanInv, PlanTypes
    <3> QED BY <2>1, <2>2, <3>1, <3>2
  <2>5. PlanTypes'
    BY <1>1, <1>2, <1>3, <2>3, <2>4 DEF PlanInv, PlanTypes, Waiting
  <2>6. OneAtATimeForked'
    <3>1. /\ forked + slices[First] = Slices + 1
          /\ place[Latest] = "end" /\ slices[Latest] = 0
      BY <1>1, <1>3, <2>1 DEF PlanInv, OneAtATimeForked
    <3>2. forked + slices'[First] = Slices
      <4>1. PICK n \in Nat : slices[First] = n
        BY <2>1
      <4>2. forked \in Nat /\ Slices \in Nat
        BY <2>1, PlanNames
      <4>3. slices'[First] = n - 1 /\ forked + n = Slices + 1
        BY <2>3, <3>1, <4>1
      <4> QED BY <4>2, <4>3
    <3>3. \A i \in 1 .. Len(Forked) :
             /\ i > forked => place'[Forked[i]] = "unborn" /\ slices'[Forked[i]] = Slices
             /\ i < forked => place'[Forked[i]] = "end"
      BY <2>3 DEF PlanInv, OneAtATimeForked
    <3>4. place'[First] = "unlock" /\ place'[Latest] = "end" /\ slices'[Latest] = 0
      BY <1>2, <1>3, <2>3, <3>1
    <3> QED BY <1>1, <3>2, <3>3, <3>4 DEF OneAtATimeForked, Waiting, Joining, InSlice
  <2>7. Turns'
    BY <1>1, <1>2, <1>3, <2>1, <2>3, <2>4 DEF PlanInv, Turns, Waiting, Starting,
         Joining
  <2> QED BY <2>5, <2>6, <2>7 DEF PlanInv
<1>4. CASE t # First
  <2>1. /\ forked > 0 /\ t = Latest
        /\ place[First] \in {"queue", "enqueue"} \cup Joining
    BY <1>1, <1>4, LatestRuns
  <2>2. /\ place[First] \in Joining /\ current # First
        /\ slices[t] \in 0 .. Slices /\ slices[t] > 0
        /\ forked \in 1 .. Len(Forked) /\ thread_id[t] # First
        /\ current = thread_id[t]
    BY <1>1, <2>1, LatestExists DEF PlanInv, Turns, OneAtATimeForked, InSlice,
         Starting
  <2>3. Plan!priority(t) = "high" /\ ready_queues["high"] \in {<<>>, <<t>>}
    BY <1>4, <2>1 DEF Plan!priority, PlanInv, PlanTypes
  <2>4. \/ ready_queues' = [ready_queues EXCEPT !["high"] = <<t>>]
        \/ UNCHANGED ready_queues
    BY <2>3, Enqueued DEF Plan!Finish, PlanInv, PlanTypes
  <2>5. /\ ready_queues' \in [Plan!Prios -> Seq(Plan!Tasks)]
        /\ ready_queues'["low"] = ready_queues["low"]
        /\ ready_queues'["high"] \in {<<>>, <<t>>}
    <3>1. <<t>> \in Seq(Plan!Tasks) /\ Plan!Prios = {"low", "high"}
      BY DEF Plan!Prios
    <3>2. ready_queues \in [{"low", "high"} -> Seq(Plan!Tasks)]
      BY <3>1 DEF PlanInv, PlanTypes
    <3> QED BY <2>3, <2>4, <3>1, <3>2
  <2>6. /\ \A i \in 1 .. Len(Forked) : i # forked =>
              /\ place'[Forked[i]] = place[Forked[i]]
              /\ slices'[Forked[i]] = slices[Forked[i]]
        /\ slices'[t] = slices[t] - 1
        /\ slices' \in [Plan!Tasks -> 0 .. Slices]
        /\ place'[First] = place[First] /\ slices'[First] = slices[First]
    <3>1. \A i \in 1 .. Len(Forked) : i # forked => Forked[i] # t
      BY <2>1, <2>2, PlanNames DEF Latest
    <3>2. \A i \in 1 .. Len(Forked) : Forked[i] \in Plan!Tasks
      BY PlanNames
    <3>3. /\ place \in [Plan!Tasks \cup {Scheduler} -> Places]
          /\ slices \in [Plan!Tasks -> 0 .. Slices] /\ First \in Plan!Tasks
      BY PlanNames DEF PlanInv, PlanTypes
    <3>4. /\ \A u \in Plan!Tasks : u # t => place'[u] = place[u] /\ slices'[u] = slices[u]
          /\ slices'[t] = slices[t] - 1
          /\ slices' \in [Plan!Tasks -> 0 .. Slices]
      <4>1. slices[t] - 1 \in 0 .. Slices
        BY <2>2, PlanNames
      <4>2. \A u \in Plan!Tasks : u # t => place'[u] = place[u]
        BY <1>2
      <4> QED BY <1>1, <3>3, <4>1, <4>2
    <3> QED BY <1>4, <3>1, <3>2, <3>3, <3>4
  <2>7. PlanTypes'
    BY <1>1, <1>2, <2>1, <2>5, <2>6 DEF PlanInv, PlanTypes
  <2>8. OneAtATimeForked'
    <3>1. \A i \in 1 .. Len(Forked) :
             /\ i > forked => place'[Forked[i]] = "unborn" /\ slices'[Forked[i]] = Slices
             /\ i < forked => place'[Forked[i]] = "end"
      BY <2>2, <2>6 DEF PlanInv, OneAtATimeForked
    <3> QED BY <1>1, <1>2, <2>1, <2>2, <2>6, <3>1 DEF PlanInv, OneAtATimeForked,
              Joining, Waiting, InSlice
  <2>9. Turns'
    BY <1>1, <1>2, <2>1, <2>2, <2>5, <2>6 DEF PlanInv, Turns, Waiting, Starting,
         Joining
  <2> QED BY <2>7, <2>8, <2>9 DEF PlanInv
<1> QED BY <1>3, <1>4

LEMMA CreateKeeps ==
    ASSUME Plan!PlannerParameters, PlanInv, Plan!Create PROVE PlanInv'
<1> DEFINE new == Forked[forked + 1]
<1>1. /\ place[First] = "create" /\ forked' = forked + 1
      /\ place' = [place EXCEPT ![First] = "queue", ![new] = "loop"]
      /\ UNCHANGED <<ready_queues, current, slices>> /\ Latest' = new
  BY DEF Plan!Create, Latest
<1>2. /\ forked \in Nat /\ forked + 1 \in 1 .. Len(Forked)
      /\ slices[First] \in 0 .. Slices /\ slices[First] > 0
      /\ forked + slices[First] = Slices
  BY <1>1, LatestExists, PlanNames DEF PlanInv, OneAtATimeForked, Joining
<1>3. /\ new \in Plan!Tasks /\ new # First /\ new # Scheduler
      /\ place[new] = "unborn" /\ slices[new] = Slices
      /\ \A i \in 1 .. Len(Forked) : i # forked + 1 => Forked[i] # new
  BY <1>2, PlanNames DEF PlanInv, OneAtATimeForked
<1>4. \A i \in 1 .. forked : place[Forked[i]] = "end"
  <2>1. forked > 0 => place[Latest] = "end"
    BY <1>1 DEF PlanInv, OneAtATimeForked
  <2>2. ASSUME NEW i \in 1 .. forked, i # forked PROVE place[Forked[i]] = "end"
    <3>1. i \in 1 .. Len(Forked) /\ i < forked
      BY <1>2, <2>2, PlanNames
    <3> QED BY <3>1 DEF PlanInv, OneAtATimeForked
  <2> QED BY <1>2, <2>1, <2>2 DEF Latest
<1>5. PICK id \in Plan!Tasks : id # First /\ thread_id' = [thread_id EXCEPT ![new] = id]
  <2>1. PICK id \in {new} \cup {thread_id[Forked[i]] : i \in 1 .. forked} :
            thread_id' = [thread_id EXCEPT ![new] = id]
    BY DEF Plan!Create
  <2>2. ASSUME NEW i \in 1 .. forked
        PROVE  thread_id[Forked[i]] \in Plan!Tasks /\ thread_id[Forked[i]] # First
    <3>1. i \in 1 .. Len(Forked)
      BY <1>2, PlanNames
    <3> QED BY <3>1, PlanNames DEF PlanInv, PlanTypes
  <2> QED BY <1>3, <2>1, <2>2
<1>6. /\ place' \in [Plan!Tasks \cup {Scheduler} -> Places]
      /\ place'[First] = "queue" /\ place'[new] = "loop"
      /\ \A i \in 1 .. Len(Forked) : i # forked + 1 => place'[Forked[i]] = place[Forked[i]]
  BY <1>1, <1>3, PlanNames DEF PlanInv, PlanTypes, Places
<1>7. /\ ready_queues["low"] = <<>> /\ ready_queues["high"] = <<>>
      /\ current = First
  BY <1>1 DEF PlanInv, Turns, Waiting, Starting
<1>8. /\ thread_id' \in [Plan!Tasks -> Plan!Tasks] /\ thread_id'[First] = First
      /\ \A i \in 1 .. Len(Forked) : thread_id'[Forked[i]] # First
  BY <1>3, <1>5, PlanNames DEF PlanInv, PlanTypes
<1> HIDE DEF new
<1>9. PlanTypes'
  <2>1. forked' \in 0 .. Len(Forked)
    BY <1>1, <1>2, PlanNames
  <2> QED BY <1>1, <1>6, <1>7, <1>8, <2>1 DEF PlanInv, PlanTypes, Starting
<1>10. OneAtATimeForked'
  <2>1. \A i \in 1 .. Len(Forked) :
           /\ i > forked + 1 => place'[Forked[i]] = "unborn" /\ slices[Forked[i]] = Slices
           /\ i < forked + 1 => place'[Forked[i]] = "end"
    BY <1>2, <1>4, <1>6 DEF PlanInv, OneAtATimeForked
  <2>2. forked + 1 + slices[First] = Slices + 1
    <3>1. PICK n \in Nat : slices[First] = n
      BY <1>2
    <3>2. forked \in Nat /\ forked + n = Slices
      BY <1>2, <3>1
    <3> QED BY <3>1, <3>2
  <2>3. /\ slices' = slices /\ forked' = forked + 1 /\ Latest' = new
        /\ place'[First] = "queue" /\ place'[new] = "loop"
    BY <1>1, <1>6
  <2> QED BY <1>2, <2>1, <2>2, <2>3 DEF OneAtATimeForked, Joining, Waiting, InSlice
<1>11. Turns'
  BY <1>1, <1>3, <1>6, <1>7 DEF Turns, Waiting, Starting, Joining
<1> QED BY <1>9, <1>10, <1>11 DEF PlanInv

LEMMA EnqueueKeeps ==
    ASSUME Plan!PlannerParameters, PlanInv, Plan!Enqueue PROVE PlanInv'
<1>1. /\ place[First] = "enqueue" /\ Plan!enqueue(Latest)
      /\ UNCHANGED <<current, thread_id, slices, forked>> /\ Latest' = Latest
  BY DEF Plan!Enqueue, Plan!LastFork, Latest
<1>2. /\ place' \in [Plan!Tasks \cup {Scheduler} -> Places]
      /\ place'[First] = "queued"
      /\ \A u \in Plan!Tasks : u # First => place'[u] = place[u]
  BY PlanNames DEF Plan!Enqueue, Plan!SignalMain, PlanInv, PlanTypes, Places
<1>3. /\ forked > 0 /\ forked \in 1 .. Len(Forked)
      /\ Latest \in Plan!Tasks /\ Latest # First
      /\ ready_queues["high"] = <<>> /\ ready_queues["low"] = <<>>
      /\ current = First /\ thread_id[Latest] # First
      /\ slices[Latest] = Slices
  BY <1>1, LatestExists DEF PlanInv, Turns, Starting, Waiting
<1>4. ready_queues' = [ready_queues EXCEPT !["high"] = <<Latest>>]
  <2>1. Plan!priority(Latest) = "high"
    BY <1>3 DEF Plan!priority
  <2> QED BY <1>1, <1>3, <2>1, Enqueued DEF PlanInv, PlanTypes
<1>5. /\ ready_queues' \in [Plan!Prios -> Seq(Plan!Tasks)]
      /\ ready_queues'["low"] = <<>> /\ ready_queues'["high"] = <<Latest>>
  BY <1>3, <1>4 DEF PlanInv, PlanTypes, Plan!Prios
<1>6. /\ \A i \in 1 .. Len(Forked) : place'[Forked[i]] = place[Forked[i]]
      /\ place'[Latest] = place[Latest]
  BY <1>2, <1>3, PlanNames
<1>7. PlanTypes'
  BY <1>1, <1>2, <1>3, <1>5 DEF PlanInv, PlanTypes, Joining
<1>8. OneAtATimeForked'
  BY <1>1, <1>2, <1>6 DEF PlanInv, OneAtATimeForked, Joining, Waiting
<1>9. Turns'
  BY <1>1, <1>2, <1>3, <1>5, <1>6, PlanNames DEF PlanInv, Turns, Joining, Waiting,
     Starting
<1> QED BY <1>7, <1>8, <1>9 DEF PlanInv

(* main chooses the first thread of the queue that is not empty: the latest*)
(* one, or First, which it finds between two slices only.                  *)
LEMMA SelectKeeps ==
    ASSUME Plan!PlannerParameters, PlanInv, Plan!Select PROVE PlanInv'
<1>1. UNCHANGED <<thread_id, slices, forked>> /\ Latest' = Latest
  BY DEF Plan!Select, Latest
<1>2. PICK q \in Plan!Prios :
          /\ Plan!select_next_task(q)
          /\ current' = thread_id[Head(ready_queues[q])]
          /\ ready_queues' = [ready_queues EXCEPT ![q] = Tail(ready_queues[q])]
  BY DEF Plan!Select
<1>3. /\ place' \in [Plan!Tasks \cup {Scheduler} -> Places]
      /\ \A u \in Plan!Tasks :
            place'[u] = place[u] \/ (place[u] = "asleep" /\ place'[u] = "relock")
  BY PlanNames DEF Plan!Select, Plan!Sleepers, PlanInv, PlanTypes, Places
<1>4. /\ place'[First] = place[First]
            \/ (place[First] = "asleep" /\ place'[First] = "relock")
      /\ \A i \in 1 .. Len(Forked) : place'[Forked[i]] = place[Forked[i]]
            \/ (place[Forked[i]] = "asleep" /\ place'[Forked[i]] = "relock")
      /\ forked > 0 => place'[Latest] = place[Latest]
            \/ (place[Latest] = "asleep" /\ place'[Latest] = "relock")
  BY <1>3, PlanNames, LatestExists
<1>5. OneAtATimeForked'
  <2>1. place'[First] \in {"queue", "enqueue", "finish"} \cup Joining
           <=> place[First] \in {"queue", "enqueue", "finish"} \cup Joining
    BY <1>4 DEF Joining
  <2>2. \A i \in 1 .. Len(Forked) :
           /\ i > forked => place'[Forked[i]] = "unborn" /\ slices[Forked[i]] = Slices
           /\ i < forked => place'[Forked[i]] = "end"
    BY <1>4 DEF PlanInv, OneAtATimeForked
  <2>3. forked > 0 =>
           /\ place'[Latest] # "unborn"
           /\ place'[Latest] = "end" => slices[Latest] = 0
           /\ place'[First] \in Waiting \cup {"fork", "create", "finish", "end"}
                => place'[Latest] = "end"
           /\ place'[Latest] \in InSlice => slices[Latest] > 0
    BY <1>4 DEF PlanInv, OneAtATimeForked, Waiting, InSlice
  <2>4. place'[First] \notin {"unlock", "loop", "end"} => slices[First] > 0
    BY <1>4 DEF PlanInv, OneAtATimeForked
  <2> QED BY <1>1, <2>1, <2>2, <2>3, <2>4 DEF PlanInv, OneAtATimeForked
<1>q. /\ ready_queues \in [{"low", "high"} -> Seq(Plan!Tasks)]
      /\ q \in {"low", "high"} /\ Plan!Prios = {"low", "high"}
  BY <1>2 DEF PlanInv, PlanTypes, Plan!Prios
<1>6. CASE q = "low"
  <2>1. /\ ready_queues["low"] = <<First>> /\ ready_queues["high"] = <<>>
        /\ place[First] \in Waiting /\ slices[First] > 0
    BY <1>2, <1>6 DEF Plan!select_next_task, PlanInv, PlanTypes, Turns
  <2>2. Head(<<First>>) = First /\ Tail(<<First>>) = <<>>
    OBVIOUS
  <2>3. /\ current' = First
        /\ ready_queues' = [ready_queues EXCEPT !["low"] = <<>>]
    BY <1>2, <1>6, <2>1, <2>2 DEF PlanInv, PlanTypes
  <2>4. /\ ready_queues' \in [Plan!Prios -> Seq(Plan!Tasks)]
        /\ ready_queues'["low"] = <<>> /\ ready_queues'["high"] = <<>>
    BY <1>q, <2>1, <2>3
  <2>5. place'[First] \in Waiting
    BY <1>4, <2>1 DEF Waiting
  <2>6. PlanTypes'
    BY <1>1, <1>3, <2>3, <2>4, <2>5, PlanNames DEF PlanInv, PlanTypes
  <2>7. forked > 0 => place'[Latest] # "finish"
    BY <1>4, <2>1 DEF PlanInv, OneAtATimeForked
  <2>8. Turns'
    BY <1>1, <2>3, <2>4, <2>5, <2>7 DEF Turns, Waiting, Starting, Joining
  <2> QED BY <1>5, <2>6, <2>8 DEF PlanInv
<1>7. CASE q = "high"
  <2>1. /\ ready_queues["high"] = <<Latest>> /\ forked > 0
        /\ Latest \in Plan!Tasks /\ thread_id[Latest] \in Plan!Tasks
        /\ thread_id[Latest] # First
        /\ place[First] \notin Starting
    BY <1>2, <1>7, LatestExists DEF Plan!select_next_task, PlanInv, PlanTypes, Turns
  <2>2. Head(<<Latest>>) = Latest /\ Tail(<<Latest>>) = <<>>
    OBVIOUS
  <2>3. /\ current' = thread_id[Latest]
        /\ ready_queues' = [ready_queues EXCEPT !["high"] = <<>>]
    BY <1>2, <1>7, <2>1, <2>2
  <2>4. /\ ready_queues' \in [Plan!Prios -> Seq(Plan!Tasks)]
        /\ ready_queues'["low"] = ready_queues["low"]
        /\ ready_queues'["high"] = <<>>
    BY <1>q, <2>1, <2>3
  <2>5. place'[First] \in Waiting \cup Starting \cup Joining \cup {"finish", "end"}
    BY <1>4 DEF PlanInv, PlanTypes, Waiting
  <2>6. PlanTypes'
    BY <1>1, <1>3, <2>1, <2>3, <2>4, <2>5 DEF PlanInv, PlanTypes
  <2>7. /\ place'[First] \notin Waiting => ready_queues["low"] = <<>>
        /\ place'[First] \notin Starting
    BY <1>4, <2>1 DEF PlanInv, Turns, Waiting, Starting
  <2>8. Turns'
    BY <1>1, <2>1, <2>3, <2>4, <2>7 DEF PlanInv, Turns, Starting
  <2> QED BY <1>5, <2>6, <2>8 DEF PlanInv
<1> QED BY <1>q, <1>6, <1>7

LEMMA PlannerKeeps ==
    ASSUME Plan!PlannerParameters, PlanInv, [Plan!Step]_(Plan!plannerVars)
    PROVE  PlanInv'
<1>f. /\ First \in Plan!Tasks /\ First # Scheduler /\ \A t \in Plan!Tasks : t # Scheduler
      /\ thread_id[First] = First
      /\ place \in [Plan!Tasks \cup {Scheduler} -> Places]
  BY PlanNames DEF PlanInv, PlanTypes
<1>1. ASSUME \/ Plan!RunLocks \/ Plan!Break \/ Plan!JoinFirst
             \/ Plan!Spurious(Scheduler) \/ UNCHANGED Plan!plannerVars
      PROVE  PlanInv'
  <2>1. /\ UNCHANGED Rest
        /\ place' \in [Plan!Tasks \cup {Scheduler} -> Places]
        /\ \A u \in Plan!Tasks : place'[u] = place[u]
    BY <1>f, <1>1 DEF Plan!RunLocks, Plan!Break, Plan!JoinFirst, Plan!Spurious,
         Plan!Acquire, Plan!Release, Plan!Goto, Plan!plannerVars, Rest, Places
  <2> QED BY <2>1, MainMoves
<1>2. ASSUME NEW t \in Plan!Tasks, t # First,
             \/ Plan!Loop(t) \/ Plan!NotMyTurn(t) \/ Plan!MyTurn(t)
             \/ Plan!Relock(t) \/ Plan!Unlock(t) \/ Plan!Spurious(t)
      PROVE  PlanInv'
  <2>1. /\ UNCHANGED Rest
        /\ place' \in [Plan!Tasks \cup {Scheduler} -> Places]
        /\ \A u \in Plan!Tasks : u # t => place'[u] = place[u]
    BY <1>f, <1>2 DEF Plan!Loop, Plan!NotMyTurn, Plan!MyTurn, Plan!Relock,
         Plan!Unlock, Plan!Spurious, Plan!Acquire, Plan!Release, Plan!Goto, Rest,
         Places
  <2>2. /\ place[t] \notin {"unborn", "end"} /\ place'[t] # "unborn"
        /\ place'[t] = "end" => slices[t] = 0
        /\ place'[t] \in InSlice => slices[t] > 0 \/ place[t] \in InSlice
        /\ place'[t] = "finish" => current = thread_id[t]
    BY <1>f, <1>2 DEF Plan!Loop, Plan!NotMyTurn, Plan!MyTurn, Plan!Relock,
         Plan!Unlock, Plan!Spurious, Plan!Acquire, Plan!Release, Plan!Goto, InSlice
  <2>3. place[t] \in InSlice => slices[t] > 0
    BY <1>2, <2>2, LatestRuns DEF PlanInv, OneAtATimeForked
  <2> QED BY <1>2, <2>1, <2>2, <2>3, ForkedMoves
<1>3. ASSUME \/ Plan!Loop(First) \/ Plan!NotMyTurn(First) \/ Plan!MyTurn(First)
             \/ Plan!Relock(First) \/ Plan!Unlock(First) \/ Plan!Spurious(First)
             \/ Plan!ForkUnlocks \/ Plan!ForkLocks \/ Plan!ForkDone \/ Plan!Join
      PROVE  PlanInv'
  <2>1. /\ UNCHANGED Rest
        /\ place' \in [Plan!Tasks \cup {Scheduler} -> Places]
        /\ \A u \in Plan!Tasks : u # First => place'[u] = place[u]
    BY <1>f, <1>3 DEF Plan!Loop, Plan!NotMyTurn, Plan!MyTurn, Plan!Relock,
         Plan!Unlock, Plan!Spurious, Plan!ForkUnlocks, Plan!ForkLocks,
         Plan!ForkDone, Plan!Join, Plan!Acquire, Plan!Release, Plan!Goto, Rest,
         Places
  <2>2. slices[First] \in 0 .. Slices /\ Slices \in Nat
    BY LatestExists, PlanNames
  <2>3. \/ /\ place[First] = "loop" /\ place'[First] = "test"
           /\ slices[First] > 0
        \/ /\ place[First] = "loop" /\ place'[First] = "end"
           /\ slices[First] = 0
        \/ place[First] = "test" /\ place'[First] = "asleep"
        \/ place[First] = "asleep" /\ place'[First] = "relock"
        \/ place[First] = "relock" /\ place'[First] = "test"
        \/ place[First] = "unlock" /\ place'[First] = "loop"
        \/ /\ place[First] = "test" /\ place'[First] = "fork"
           /\ current = First
        \/ place[First] = "fork" /\ place'[First] = "create"
        \/ place[First] = "queue" /\ place'[First] = "enqueue"
        \/ place[First] = "queued" /\ place'[First] = "join"
        \/ /\ place[First] = "join" /\ place'[First] = "finish"
           /\ place[Latest] = "end"
    BY <1>f, <1>3 DEF Plan!Loop, Plan!NotMyTurn, Plan!MyTurn, Plan!Relock,
         Plan!Unlock, Plan!Spurious, Plan!ForkUnlocks, Plan!ForkLocks,
         Plan!ForkDone, Plan!Join, Plan!LastFork, Plan!Acquire, Plan!Release,
         Plan!Goto, Latest
  <2> QED BY <2>1, <2>3, FirstMoves
<1>4. \/ Plan!RunLocks \/ Plan!Break \/ Plan!JoinFirst \/ Plan!Select
      \/ Plan!Spurious(Scheduler) \/ UNCHANGED Plan!plannerVars
      \/ \E t \in Plan!Tasks :
            \/ Plan!Loop(t) \/ Plan!NotMyTurn(t) \/ Plan!MyTurn(t)
            \/ Plan!Relock(t) \/ Plan!Unlock(t) \/ Plan!Spurious(t)
            \/ Plan!Finish(t)
      \/ Plan!ForkUnlocks \/ Plan!ForkLocks \/ Plan!ForkDone \/ Plan!Join
      \/ Plan!Create \/ Plan!Enqueue
  BY DEF Plan!Step, Plan!MainStep, Plan!ForkStep, Plan!TaskStep
<1>5. ASSUME NEW t \in Plan!Tasks,
             \/ Plan!Loop(t) \/ Plan!NotMyTurn(t) \/ Plan!MyTurn(t)
             \/ Plan!Relock(t) \/ Plan!Unlock(t) \/ Plan!Spurious(t)
             \/ Plan!Finish(t)
      PROVE  PlanInv'
  BY <1>2, <1>3, <1>5, FinishKeeps
<1> QED BY <1>1, <1>3, <1>4, <1>5, SelectKeeps, CreateKeeps, EnqueueKeeps

(* The invariant of the planner, for any number of slices.                 *)
THEOREM PlannerInvariant ==
    ASSUME Plan!PlannerParameters
    PROVE  Plan!PlannerSpec => []PlanInv
<1>1. Plan!Start => PlanInv
  <2> SUFFICES ASSUME Plan!Start PROVE PlanInv
    OBVIOUS
  <2>1. /\ place = [t \in Plan!Tasks \cup {Scheduler} |->
                      IF t = Scheduler THEN "lock" ELSE IF t = First THEN "loop"
                      ELSE "unborn"]
        /\ ready_queues = [p \in Plan!Prios |-> IF p = "low" THEN <<First>> ELSE <<>>]
        /\ current = Nobody
        /\ thread_id = [t \in Plan!Tasks |-> t]
        /\ slices = [t \in Plan!Tasks |-> Slices]
        /\ forked = 0
    BY DEF Plan!Start
  <2>2. /\ place \in [Plan!Tasks \cup {Scheduler} -> Places] /\ place[First] = "loop"
        /\ \A i \in 1 .. Len(Forked) : place[Forked[i]] = "unborn"
    BY <2>1, PlanNames DEF Places
  <2>3. /\ ready_queues \in [Plan!Prios -> Seq(Plan!Tasks)]
        /\ ready_queues["low"] = <<First>> /\ ready_queues["high"] = <<>>
    BY <2>1, PlanNames DEF Plan!Prios
  <2>4. /\ slices \in [Plan!Tasks -> 0 .. Slices] /\ slices[First] = Slices
        /\ \A i \in 1 .. Len(Forked) : slices[Forked[i]] = Slices
        /\ thread_id \in [Plan!Tasks -> Plan!Tasks] /\ thread_id[First] = First
        /\ \A i \in 1 .. Len(Forked) : thread_id[Forked[i]] # First
    BY <2>1, PlanNames
  <2>5. PlanTypes
    <3>1. forked \in 0 .. Len(Forked)
      BY <2>1, PlanNames
    <3>2. current \in Plan!Tasks \cup {Nobody}
      BY <2>1
    <3> QED BY <2>2, <2>3, <2>4, <3>1, <3>2 DEF PlanTypes, Waiting
  <2>6. OneAtATimeForked
    <3>1. \A i \in 1 .. Len(Forked) : ~(i < 0)
      BY PlanNames
    <3>2. forked = 0 /\ 0 + slices[First] = Slices /\ ~(0 > 0)
      BY <2>1, <2>4, PlanNames
    <3> QED BY <2>2, <2>4, <3>1, <3>2 DEF OneAtATimeForked, Joining
  <2>7. Turns
    <3>1. /\ current # First /\ slices[First] > 0 /\ forked = 0
          /\ place[First] = "loop" /\ ready_queues["high"] = <<>>
      BY <2>1, <2>2, <2>3, <2>4, PlanNames
    <3> QED BY <3>1 DEF Turns, Waiting, Starting, Joining
  <2> QED BY <2>5, <2>6, <2>7 DEF PlanInv
<1>2. PlanInv /\ [Plan!Step]_(Plan!plannerVars) => PlanInv'
  BY PlannerKeeps
<1> QED BY <1>1, <1>2, PTL DEF Plan!PlannerSpec

(* The handlers nest, with any number of slices and whatever wakes main: a *)
(* thread that First forked runs its handler only in its turn, alone among *)
(* the forked, and while First is in its own, past queueing that thread and*)
(* before the end of its join.                                             *)
THEOREM HandlersRunNested ==
    ASSUME Plan!PlannerParameters
    PROVE  Plan!PlannerSpec => []HandlersNested
<1>1. ASSUME PlanInv PROVE HandlersNested
  <2> SUFFICES ASSUME NEW t \in Plan!Range(Forked), Plan!InHandler(t)
               PROVE  /\ current = thread_id[t]
                      /\ \A u \in Plan!Tasks : Plan!InHandler(u) => u \in {t, First}
                      /\ Plan!InHandler(First) /\ t = Plan!LastFork
                      /\ place[First] \in {"queued", "join"}
    BY DEF HandlersNested, Plan!HandlersNested
  <2>1. t \in Plan!Tasks /\ t # First /\ place[t] = "finish"
    BY DEF Plan!InHandler, Plan!Tasks, Plan!PlannerParameters
  <2>2. /\ forked > 0 /\ t = Latest
        /\ place[First] \in {"queue", "enqueue"} \cup Joining
    BY <1>1, <2>1, LatestRuns
  <2>3. current = thread_id[t] /\ thread_id[t] # First
    BY <1>1, <2>1, <2>2, LatestExists DEF PlanInv, Turns
  <2>4. place[First] \in Joining
    BY <1>1, <2>2, <2>3 DEF PlanInv, Turns, Starting
  <2>5. ASSUME NEW u \in Plan!Tasks, Plan!InHandler(u), u # First PROVE u = t
    <3>1. place[u] = "finish"
      BY <2>5 DEF Plan!InHandler
    <3> QED BY <1>1, <2>2, <2>5, <3>1, LatestRuns
  <2> QED BY <2>2, <2>3, <2>4, <2>5
          DEF Plan!InHandler, Plan!LastFork, Latest, Joining
<1> QED BY PlannerInvariant, <1>1, PTL

(* Only the mutex is missing from the types: it is taken by whoever asks   *)
(* for it, and by nobody once it is unlocked.                              *)
PlanMutexOK == plan_mutex \in Plan!Tasks \cup {Scheduler, Nobody}

LEMMA PlanMutexStays ==
    ASSUME Plan!PlannerParameters, PlanMutexOK, [Plan!Step]_(Plan!plannerVars)
    PROVE  PlanMutexOK'
<1>1. \A t, from, to : Plan!Release(t, from, to) => plan_mutex' = Nobody
  BY DEF Plan!Release
<1>2. \A t \in Plan!Tasks \cup {Scheduler} : \A from, to :
         Plan!Acquire(t, from, to) => plan_mutex' \in Plan!Tasks \cup {Scheduler}
  BY DEF Plan!Acquire
<1>3. ASSUME NEW t \in Plan!Tasks, Plan!TaskStep(t)
      PROVE  PlanMutexOK'
  BY <1>1, <1>2, <1>3
  DEF PlanMutexOK, Plan!TaskStep, Plan!Loop, Plan!NotMyTurn, Plan!MyTurn, Plan!Relock,
      Plan!Finish, Plan!Unlock
<1>4. ASSUME Plan!ForkStep PROVE PlanMutexOK'
  BY <1>1, <1>2, <1>4, PlanNames
  DEF PlanMutexOK, Plan!ForkStep, Plan!ForkUnlocks, Plan!Create, Plan!ForkLocks,
      Plan!Enqueue, Plan!ForkDone, Plan!Join
<1>5. ASSUME Plan!MainStep PROVE PlanMutexOK'
  BY <1>1, <1>2, <1>5
  DEF PlanMutexOK, Plan!MainStep, Plan!RunLocks, Plan!Select, Plan!Break, Plan!JoinFirst
<1>6. ASSUME NEW t \in Plan!Tasks \cup {Scheduler}, Plan!Spurious(t)
      PROVE  PlanMutexOK'
  BY <1>6 DEF PlanMutexOK, Plan!Spurious
<1>7. UNCHANGED Plan!plannerVars => PlanMutexOK'
  BY DEF PlanMutexOK, Plan!plannerVars
<1> QED BY <1>3, <1>4, <1>5, <1>6, <1>7 DEF Plan!Step

(* The types of the planner, for any number of slices: a queue never holds *)
(* anything but its tasks, and no task gets more than its time.            *)
THEOREM PlannerTypeCorrect ==
    ASSUME Plan!PlannerParameters
    PROVE  Plan!PlannerSpec => []Plan!PlannerTypeOK
<1>1. Plan!Start => PlanMutexOK
  BY DEF Plan!Start, PlanMutexOK
<1>2. PlanMutexOK /\ [Plan!Step]_(Plan!plannerVars) => PlanMutexOK'
  BY PlanMutexStays
<1>3. PlanInv /\ PlanMutexOK => Plan!PlannerTypeOK
  BY DEF PlanInv, PlanTypes, PlanMutexOK, Plan!PlannerTypeOK
<1> QED BY <1>1, <1>2, <1>3, PlannerInvariant, PTL DEF Plan!PlannerSpec

-----------------------------------------------------------------------------
(* The pattern counter.                                                    *)

(* A walk over the offsets of an area, as count makes it: f[i] is what is   *)
(* counted from offset i on.                                               *)
Walk(f, where, last) ==
    [i \in Nat |-> IF i >= last THEN 0
                   ELSE IF Matches(where + i) THEN 1 + f[i + Len(string)]
                   ELSE f[i + 1]]

(* From the last offset back, there is one such function...                *)
LEMMA WalkUnique ==
    ASSUME NEW where \in Nat, NEW last \in Nat, Len(string) \in Nat \ {0},
           NEW f, NEW g, f = Walk(f, where, last), g = Walk(g, where, last)
    PROVE  f = g
<1> DEFINE M(i) == Matches(where + i)
<1>1. /\ DOMAIN f = Nat /\ f = [i \in Nat |-> f[i]]
      /\ \A i \in Nat : f[i] = IF i >= last THEN 0
                               ELSE IF M(i) THEN 1 + f[i + Len(string)] ELSE f[i + 1]
  BY DEF Walk
<1>2. /\ DOMAIN g = Nat /\ g = [i \in Nat |-> g[i]]
      /\ \A i \in Nat : g[i] = IF i >= last THEN 0
                               ELSE IF M(i) THEN 1 + g[i + Len(string)] ELSE g[i + 1]
  BY DEF Walk
<1> HIDE DEF M
<1> DEFINE T == {n \in Nat : \E i \in Nat : i + n >= last /\ f[i] # g[i]}
<1>3. T = {}
  <2> SUFFICES ASSUME T # {} PROVE FALSE
    OBVIOUS
  <2>1. PICK n \in T : \A m \in T : n <= m
    BY MinIsLeast
  <2>2. PICK i \in Nat : i + n >= last /\ f[i] # g[i]
    BY <2>1
  <2>3. n \in Nat /\ i < last
    <3>1. i >= last => f[i] = 0 /\ g[i] = 0
      BY <1>1, <1>2
    <3> QED BY <2>1, <2>2, <3>1
  <2>4. n > 0
    BY <2>2, <2>3
  <2>5. n - 1 \in Nat /\ n - 1 \notin T
    <3> HIDE DEF T
    <3> QED BY <2>1, <2>3, <2>4
  <2>6. \A j \in Nat : j > i => f[j] = g[j]
    <3> SUFFICES ASSUME NEW j \in Nat, j > i, f[j] # g[j] PROVE FALSE
      OBVIOUS
    <3>1. j + (n - 1) >= last
      BY <2>2, <2>3
    <3>2. \E k \in Nat : k + (n - 1) >= last /\ f[k] # g[k]
      BY <3>1
    <3> QED BY <2>5, <3>2
  <2>7. f[i + Len(string)] = g[i + Len(string)] /\ f[i + 1] = g[i + 1]
    BY <2>6
  <2> QED BY <1>1, <1>2, <2>2, <2>3, <2>7
<1>4. \A i \in Nat : f[i] = g[i]
  <2> SUFFICES ASSUME NEW i \in Nat, f[i] # g[i] PROVE FALSE
    OBVIOUS
  <2>1. last \in T
    OBVIOUS
  <2> QED BY <1>3, <2>1
<1> QED BY <1>1, <1>2, <1>4

(* ... and it can be built from there, a step back at a time.              *)
LEMMA WalkExists ==
    ASSUME NEW where \in Nat, NEW last \in Nat, Len(string) \in Nat \ {0}
    PROVE  \E g \in [Nat -> Nat] : g = Walk(g, where, last)
<1> DEFINE Here(g, i) == IF i >= last THEN 0
                         ELSE IF Matches(where + i) THEN 1 + g[i + Len(string)]
                         ELSE g[i + 1]
           Built(n) == \E g \in [Nat -> Nat] : \A i \in Nat :
                          i + n >= last => g[i] = Here(g, i)
           T == {n \in Nat : ~ Built(n)}
<1>1. Built(0)
  <2> DEFINE g == [i \in Nat |-> 0]
  <2>1. g \in [Nat -> Nat] /\ \A i \in Nat : i + 0 >= last => g[i] = Here(g, i)
    OBVIOUS
  <2> QED BY <2>1
<1>2. ASSUME NEW n \in Nat, Built(n) PROVE Built(n + 1)
  <2>1. PICK g \in [Nat -> Nat] : \A i \in Nat : i + n >= last => g[i] = Here(g, i)
    BY <1>2
  <2>2. CASE last - (n + 1) \notin Nat
    <3>1. \A i \in Nat : i + (n + 1) >= last => i + n >= last
      BY <2>2
    <3> QED BY <2>1, <3>1
  <2>3. CASE last - (n + 1) \in Nat
    <3> DEFINE k == last - (n + 1)
               h == [g EXCEPT ![k] = Here(g, k)]
    <3>1. Here(g, k) \in Nat
      <4>1. k \in Nat /\ k + Len(string) \in Nat /\ k + 1 \in Nat
        BY <2>3
      <4> HIDE DEF k, Here
      <4>2. 0 \in Nat /\ g[k + 1] \in Nat /\ g[k + Len(string)] \in Nat
        BY <4>1
      <4>3. 1 + g[k + Len(string)] \in Nat
        <5> DEFINE rest == g[k + Len(string)]
        <5>1. rest \in Nat
          BY <4>2
        <5> HIDE DEF rest
        <5>2. 1 + rest \in Nat
          BY <5>1
        <5> QED BY <5>2 DEF rest
      <4>4. Here(g, k) = 0 \/ Here(g, k) = 1 + g[k + Len(string)] \/ Here(g, k) = g[k + 1]
        BY Zenon DEF Here
      <4> QED BY <4>2, <4>3, <4>4
    <3> HIDE DEF Here
    <3>2. h \in [Nat -> Nat] /\ h[k] = Here(g, k) /\ \A i \in Nat : i # k => h[i] = g[i]
      <4>1. k \in Nat
        BY <2>3
      <4> HIDE DEF k
      <4> QED BY <3>1, <4>1
    <3>3. ASSUME NEW i \in Nat, i + (n + 1) >= last PROVE h[i] = Here(h, i)
      <4>1. i >= k
        BY <2>3, <3>3
      <4>2. i + Len(string) \in Nat /\ i + Len(string) # k /\ i + 1 # k /\ i + 1 \in Nat
        BY <4>1, <2>3
      <4>3. Here(h, i) = Here(g, i)
        BY <3>2, <4>2 DEF Here
      <4>4. CASE i = k
        BY <3>2, <4>3, <4>4
      <4>5. CASE i # k
        <5>1. i + n >= last
          BY <2>3, <4>1, <4>5
        <5> QED BY <2>1, <3>2, <4>3, <4>5, <5>1
      <4> QED BY <4>4, <4>5
    <3> QED BY <3>2, <3>3
  <2> QED BY <2>2, <2>3
<1>3. T = {}
  <2> SUFFICES ASSUME T # {} PROVE FALSE
    OBVIOUS
  <2> HIDE DEF Built
  <2>1. PICK n \in T : \A m \in T : n <= m
    BY MinIsLeast
  <2>2. n \in Nat /\ n # 0
    BY <1>1, <2>1
  <2>3. n - 1 \in Nat /\ n - 1 \notin T
    BY <2>1, <2>2
  <2>4. Built((n - 1) + 1)
    BY <1>2, <2>3
  <2>5. (n - 1) + 1 = n
    BY <2>2
  <2> QED BY <2>1, <2>4, <2>5
<1>4. Built(last)
  BY <1>3
<1>5. PICK g \in [Nat -> Nat] : \A i \in Nat : i + last >= last => g[i] = Here(g, i)
  BY <1>4
<1>6. g = [i \in Nat |-> g[i]] /\ \A i \in Nat : g[i] = Here(g, i)
  BY <1>5
<1>7. g = Walk(g, where, last)
  BY <1>6 DEF Walk
<1> QED BY <1>7

(* Hence count is what the walk finds from offset 0.                       *)
LEMMA TallyIsWalk ==
    ASSUME NEW where \in Nat, NEW last \in Nat, Len(string) \in Nat \ {0},
           NEW g, g = Walk(g, where, last)
    PROVE  tally(where, last) = g[0]
<1> DEFINE F == CHOOSE f : f = [i \in Nat |->
                    IF i >= last THEN 0
                    ELSE IF Matches(where + i) THEN 1 + f[i + Len(string)]
                    ELSE f[i + 1]]
<1>1. tally(where, last) = F[0]
  BY DEF tally
<1>2. F = Walk(F, where, last)
  BY DEF Walk
<1> HIDE DEF F
<1>3. F = g
  BY <1>2, WalkUnique
<1> QED BY <1>1, <1>3
(* A string without border does not match where it overlaps a match.       *)
LEMMA NoOverlap ==
    ASSUME Len(string) \in Nat, Unbordered, NEW p \in Nat, Matches(p),
           NEW d \in 1 .. Len(string) - 1
    PROVE  ~ Matches(p + d)
<1>1. PICK j \in 1 .. Len(string) - d : string[j] # string[d + j]
  <2>1. Len(string) - d \in 1 .. Len(string) - 1
    OBVIOUS
  <2>2. \E j \in 1 .. Len(string) - d :
           string[j] # string[Len(string) - (Len(string) - d) + j]
    BY <2>1 DEF Unbordered
  <2>3. Len(string) - (Len(string) - d) = d
    OBVIOUS
  <2> QED BY <2>2, <2>3
<1>2. j \in 1 .. Len(string) /\ d + j \in 1 .. Len(string)
  OBVIOUS
<1>3. Byte(p + (d + j) - 1) = string[d + j]
  BY <1>2 DEF Matches
<1>4. p + (d + j) - 1 = (p + d) + j - 1
  OBVIOUS
<1> QED BY <1>1, <1>2, <1>3, <1>4 DEF Matches

(* The offsets from i on at which the string is found.                     *)
Found(where, i, last) == {j \in i .. last - 1 : Matches(where + j)}

LEMMA FoundFinite ==
    ASSUME NEW where, NEW i \in Int, NEW last \in Int
    PROVE  /\ IsFiniteSet(Found(where, i, last))
           /\ Cardinality(Found(where, i, last)) \in Nat
<1>1. IsFiniteSet(i .. last - 1)
  BY FS_Interval
<1>2. IsFiniteSet(Found(where, i, last))
  BY <1>1, FS_Subset DEF Found
<1> QED BY <1>2, FS_CardinalityType

(* What is counted is a number; without border it is the number of matches,*)
(* because none is lost where count steps over a match.                    *)
LEMMA TallyType ==
    ASSUME NEW where \in Nat, NEW last \in Nat, Len(string) \in Nat \ {0}
    PROVE  tally(where, last) \in Nat
<1>1. PICK g \in [Nat -> Nat] : g = Walk(g, where, last)
  BY WalkExists
<1>2. tally(where, last) = g[0]
  BY <1>1, TallyIsWalk
<1> QED BY <1>1, <1>2

LEMMA TallyIs ==
    ASSUME NEW where \in Nat, NEW last \in Nat, Len(string) \in Nat \ {0}, Unbordered
    PROVE  tally(where, last) = Cardinality(Found(where, 0, last))
<1> DEFINE g == [i \in Nat |-> Cardinality(Found(where, i, last))]
<1>1. ASSUME NEW i \in Nat, i >= last PROVE g[i] = 0
  <2>1. Found(where, i, last) = {}
    BY <1>1 DEF Found
  <2> QED BY <2>1, FS_EmptySet
<1>2. ASSUME NEW i \in Nat, ~ (i >= last), Matches(where + i)
      PROVE  g[i] = 1 + g[i + Len(string)]
  <2>1. Found(where, i, last) = Found(where, i + Len(string), last) \cup {i}
    <3>1. \A j \in i + 1 .. i + Len(string) - 1 : ~ Matches(where + j)
      <4> TAKE j \in i + 1 .. i + Len(string) - 1
      <4>1. j - i \in 1 .. Len(string) - 1 /\ where + i \in Nat
        OBVIOUS
      <4>2. ~ Matches((where + i) + (j - i))
        BY <1>2, <4>1, NoOverlap
      <4>3. (where + i) + (j - i) = where + j
        OBVIOUS
      <4> QED BY <4>2, <4>3
    <3>2. ASSUME NEW j \in Int
          PROVE  j \in Found(where, i, last)
                    <=> j \in Found(where, i + Len(string), last) \cup {i}
      BY <1>2, <3>1 DEF Found
    <3>3. Found(where, i, last) \subseteq Int
          /\ Found(where, i + Len(string), last) \cup {i} \subseteq Int
      BY DEF Found
    <3> HIDE DEF Found
    <3> QED BY <3>2, <3>3
  <2>2. i \notin Found(where, i + Len(string), last)
    BY DEF Found
  <2>3. /\ IsFiniteSet(Found(where, i + Len(string), last))
        /\ Cardinality(Found(where, i + Len(string), last)) \in Nat
    BY FoundFinite
  <2>4. Cardinality(Found(where, i, last))
           = Cardinality(Found(where, i + Len(string), last)) + 1
    BY <2>1, <2>2, <2>3, FS_AddElement
  <2> QED BY <2>3, <2>4
<1>3. ASSUME NEW i \in Nat, ~ (i >= last), ~ Matches(where + i)
      PROVE  g[i] = g[i + 1]
  <2>1. Found(where, i, last) = Found(where, i + 1, last)
    <3>1. ASSUME NEW j \in Int
          PROVE  j \in Found(where, i, last) <=> j \in Found(where, i + 1, last)
      BY <1>3 DEF Found
    <3>2. Found(where, i, last) \subseteq Int /\ Found(where, i + 1, last) \subseteq Int
      BY DEF Found
    <3> HIDE DEF Found
    <3> QED BY <3>1, <3>2
  <2> QED BY <2>1
<1>4. g = [i \in Nat |-> g[i]]
  OBVIOUS
<1> HIDE DEF g
<1>5. g = Walk(g, where, last)
  <2>1. \A i \in Nat : g[i] = IF i >= last THEN 0
                              ELSE IF Matches(where + i) THEN 1 + g[i + Len(string)]
                              ELSE g[i + 1]
    BY <1>1, <1>2, <1>3
  <2> QED BY <1>4, <2>1 DEF Walk
<1>6. tally(where, last) = g[0]
  BY <1>5, TallyIsWalk
<1> QED BY <1>6 DEF g

(* What main adds up, whichever way its partial sums are given.            *)
LEMMA SumMeaning ==
    ASSUME NumThreads \in Nat \ {0}, NEW c, c[0] = 0,
           \A n \in 1 .. NumThreads : c[n] = c[n - 1] + result[n - 1]
    PROVE  sum_of_results = c[NumThreads]
<1> DEFINE Sum(s) == [n \in 0 .. NumThreads |->
                         IF n = 0 THEN 0 ELSE s[n - 1] + result[n - 1]]
           F == CHOOSE s : s = Sum(s)
           d == [n \in 0 .. NumThreads |-> c[n]]
<1>1. sum_of_results = F[NumThreads]
  BY DEF sum_of_results
<1>2. d = Sum(d)
  <2>1. \A n \in 0 .. NumThreads :
           c[n] = IF n = 0 THEN 0 ELSE d[n - 1] + result[n - 1]
    <3> TAKE n \in 0 .. NumThreads
    <3>1. CASE n = 0
      BY <3>1
    <3>2. CASE n # 0
      <4>1. n \in 1 .. NumThreads /\ n - 1 \in 0 .. NumThreads
        BY <3>2
      <4>2. d[n - 1] = c[n - 1]
        BY <4>1
      <4> QED BY <4>1, <4>2, <3>2
    <3> QED BY <3>1, <3>2
  <2> QED BY <2>1
<1>3. F = Sum(F)
  BY <1>2
<1>4. F[0] = 0 /\ \A n \in 1 .. NumThreads : F[n] = F[n - 1] + result[n - 1]
  <2> HIDE DEF F
  <2>1. \A n \in 0 .. NumThreads :
           F[n] = IF n = 0 THEN 0 ELSE F[n - 1] + result[n - 1]
    BY <1>3
  <2>2. 0 \in 0 .. NumThreads /\ \A n \in 1 .. NumThreads : n \in 0 .. NumThreads /\ n # 0
    OBVIOUS
  <2> HIDE DEF Sum
  <2> QED BY <2>1, <2>2
<1> HIDE DEF F
<1> DEFINE T == {n \in Nat : n <= NumThreads /\ F[n] # c[n]}
<1>5. T = {}
  <2> SUFFICES ASSUME T # {} PROVE FALSE
    OBVIOUS
  <2>1. PICK n \in T : \A m \in T : n <= m
    BY MinIsLeast
  <2>2. n \in 1 .. NumThreads
    BY <1>4, <2>1
  <2>3. n - 1 \in Nat /\ n - 1 <= NumThreads /\ n - 1 \notin T
    <3> HIDE DEF T
    <3> QED BY <2>1, <2>2
  <2>4. F[n - 1] = c[n - 1]
    BY <2>3
  <2> QED BY <1>4, <2>1, <2>2, <2>4
<1> QED BY <1>1, <1>5
(* A sum of numbers is a number.                                           *)
LEMMA SumType ==
    ASSUME NumThreads \in Nat \ {0}, \A i \in Parts : result[i] \in Nat
    PROVE  sum_of_results \in Nat
<1> DEFINE Sums(n) == \E c \in [0 .. NumThreads -> Nat] :
                         c[0] = 0 /\ \A k \in 1 .. n : c[k] = c[k - 1] + result[k - 1]
           T == {n \in Nat : n <= NumThreads /\ ~ Sums(n)}
<1>1. Sums(0)
  <2> DEFINE c == [n \in 0 .. NumThreads |-> 0]
  <2>1. /\ c \in [0 .. NumThreads -> Nat] /\ c[0] = 0
        /\ \A k \in 1 .. 0 : c[k] = c[k - 1] + result[k - 1]
    OBVIOUS
  <2> QED BY <2>1
<1>2. ASSUME NEW n \in Nat, n < NumThreads, Sums(n) PROVE Sums(n + 1)
  <2>1. PICK c \in [0 .. NumThreads -> Nat] :
                c[0] = 0 /\ \A k \in 1 .. n : c[k] = c[k - 1] + result[k - 1]
    BY <1>2
  <2> DEFINE m == n + 1
             d == [c EXCEPT ![m] = c[n] + result[n]]
  <2>2. n \in Parts /\ n \in 0 .. NumThreads /\ m \in 0 .. NumThreads
    BY <1>2 DEF Parts
  <2>3. c[n] + result[n] \in Nat
    BY <2>1, <2>2
  <2>4. m # 0 /\ m \in Nat /\ m - 1 = n /\ \A k \in 1 .. m : k = m \/ k \in 1 .. n
    OBVIOUS
  <2> HIDE DEF m
  <2>5. /\ d \in [0 .. NumThreads -> Nat] /\ d[m] = c[n] + result[n]
        /\ \A k \in 0 .. NumThreads : k # m => d[k] = c[k]
    BY <2>2, <2>3
  <2> HIDE DEF d
  <2>6. d[0] = 0
    BY <2>1, <2>4, <2>5
  <2>7. \A k \in 1 .. m : d[k] = d[k - 1] + result[k - 1]
    <3> TAKE k \in 1 .. m
    <3>1. CASE k = m
      <4>1. d[n] = c[n]
        BY <2>2, <2>4, <2>5
      <4> QED BY <2>4, <2>5, <3>1, <4>1
    <3>2. CASE k \in 1 .. n
      <4>1. k # m /\ k - 1 # m /\ k \in 0 .. NumThreads /\ k - 1 \in 0 .. NumThreads
        BY <2>2, <2>4, <3>2
      <4> QED BY <2>1, <2>5, <3>2, <4>1
    <3> QED BY <2>4, <3>1, <3>2
  <2> QED BY <2>5, <2>6, <2>7 DEF m
<1> HIDE DEF Sums
<1>3. T = {}
  <2> SUFFICES ASSUME T # {} PROVE FALSE
    OBVIOUS
  <2>1. PICK n \in T : \A m \in T : n <= m
    BY MinIsLeast
  <2>2. n \in Nat /\ n # 0 /\ n <= NumThreads /\ ~ Sums(n)
    BY <1>1, <2>1
  <2>3. n - 1 \in Nat /\ n - 1 < NumThreads /\ n - 1 \notin T
    <3> HIDE DEF T
    <3> QED BY <2>1, <2>2
  <2>4. Sums((n - 1) + 1)
    BY <1>2, <2>3
  <2>5. (n - 1) + 1 = n
    BY <2>2
  <2> QED BY <2>2, <2>4, <2>5
<1>4. Sums(NumThreads)
  BY <1>3
<1>5. PICK c \in [0 .. NumThreads -> Nat] :
         c[0] = 0 /\ \A k \in 1 .. NumThreads : c[k] = c[k - 1] + result[k - 1]
  BY <1>4 DEF Sums
<1>6. sum_of_results = c[NumThreads]
  BY <1>5, SumMeaning
<1> QED BY <1>5, <1>6

(* The areas of the chunks lie one behind the other in the file, and the   *)
(* last one ends at its end or behind it, but in the page.                 *)
LEMMA ChunksTile ==
    ASSUME Len(text) \in Sizes, Len(string) \in StringSizes
    PROVE  /\ chunk_size \in Nat /\ last_size \in Nat
           /\ chunk_mem(NumThreads - 1) + last_size >= Len(text)
           /\ chunk_mem(NumThreads - 1) + last_size <= Page
           /\ last_size <= Len(text)
           /\ \A i \in Parts : /\ chunk_mem(i) \in Nat
                               /\ chunk_mem(i) <= chunk_mem(NumThreads - 1)
                               /\ chunk_mem(i + 1) = chunk_mem(i) + chunk_size
                               /\ i # NumThreads - 1 =>
                                     chunk_mem(i + 1) <= chunk_mem(NumThreads - 1)
           /\ chunk_mem(0) = 0
<1> DEFINE L == Len(text)
           N == NumThreads
           c == chunk_size
           m == (N - 1) * c
<1>1. /\ L \in Nat /\ L <= Page /\ Page \in Nat /\ Len(string) \in Nat \ {0}
      /\ N \in Nat \ {0} /\ N * (N - 1) <= Page
  BY CountAssumption
<1>2. c = (L + N - 1) \div N
  BY DEF chunk_size
<1> HIDE DEF L, N, c
<1>3. L + N - 1 \in Nat
  BY <1>1
<1>4. c \in Nat /\ N * c <= L + N - 1 /\ L + N - 1 < N * c + N
  BY <1>1, <1>2, <1>3
<1>5. m \in Nat /\ N * c = m + c
  BY <1>1, <1>4
<1>6. c <= L
  <2>1. CASE L = 0
    <3>1. N * c < N
      BY <1>1, <1>4, <2>1
    <3>2. c >= 1 => N * c >= N
      BY <1>1, <1>4
    <3> QED BY <1>1, <1>4, <2>1, <3>1, <3>2
  <2>2. CASE L > 0
    <3>1. N * (L + 1) = N * L + N
      BY <1>1
    <3>2. N * L >= L
      BY <1>1
    <3>3. c >= L + 1 => N * c >= N * (L + 1)
      BY <1>1, <1>4
    <3>4. N * L \in Nat /\ N * c \in Nat
      BY <1>1, <1>4
    <3> QED BY <1>1, <1>4, <3>1, <3>2, <3>3, <3>4
  <2> QED BY <1>1, <2>1, <2>2
<1>7. chunk_mem(N - 1) = m
  BY DEF chunk_mem, c
<1>8. last_size = IF L < m THEN c ELSE L - m
  <2>1. last_size = LET rest == Minus(L, m) IN IF c < rest THEN c ELSE rest
    BY <1>7 DEF last_size, c, L, N
  <2>2. Minus(L, m) = IF L < m THEN 2 * Page + Len(string) ELSE L - m
    BY DEF Minus, Huge
  <2>3. c < 2 * Page + Len(string)
    BY <1>1, <1>4, <1>6
  <2>4. L < m \/ L - m <= c
    BY <1>1, <1>4, <1>5
  <2> HIDE DEF m
  <2> QED BY <1>1, <1>4, <1>5, <2>1, <2>2, <2>3, <2>4
<1> HIDE DEF m
<1>9. last_size \in Nat /\ m + last_size >= L /\ last_size <= L
  BY <1>1, <1>4, <1>5, <1>6, <1>8
<1>10. m + last_size <= Page
  <2>1. CASE ~ (L < m)
    BY <1>1, <1>5, <1>8, <2>1
  <2>2. CASE L < m
    <3>1. c < N - 1
      BY <1>1, <1>4, <1>5, <2>2
    <3>2. N * c <= N * (N - 1)
      BY <1>1, <1>4, <3>1
    <3>3. N * c \in Nat /\ N * (N - 1) \in Nat
      BY <1>1, <1>4
    <3> QED BY <1>1, <1>4, <1>5, <1>8, <2>2, <3>2, <3>3
  <2> QED BY <2>1, <2>2
<1>11. ASSUME NEW i \in Parts
       PROVE  /\ chunk_mem(i) \in Nat
              /\ chunk_mem(i) <= m
              /\ chunk_mem(i + 1) = chunk_mem(i) + c
              /\ i # N - 1 => chunk_mem(i + 1) <= m
  <2>1. i \in Nat /\ i <= N - 1 /\ N - 1 \in Nat
    BY <1>1 DEF Parts, N
  <2>2. chunk_mem(i) = i * c /\ chunk_mem(i + 1) = (i + 1) * c
    BY DEF chunk_mem, c
  <2>3. (i + 1) * c = i * c + c /\ i * c \in Nat
    BY <1>4, <2>1
  <2>4. i * c <= (N - 1) * c
    BY <1>4, <2>1
  <2>5. i # N - 1 => (i + 1) * c <= (N - 1) * c
    <3> SUFFICES ASSUME i # N - 1 PROVE (i + 1) * c <= (N - 1) * c
      OBVIOUS
    <3>1. i + 1 \in Nat /\ i + 1 <= N - 1
      BY <2>1
    <3> QED BY <1>4, <2>1, <3>1
  <2> QED BY <2>2, <2>3, <2>4, <2>5 DEF m
<1>12. chunk_mem(0) = 0
  BY <1>4 DEF chunk_mem, c
<1> QED BY <1>4, <1>7, <1>9, <1>10, <1>11, <1>12 DEF L, N, c

(* Where each thread starts its last comparison, and where it reads last.  *)
LEMMA LastStarts ==
    ASSUME Len(text) \in Sizes, Len(string) \in StringSizes,
           Len(string) <= last_size + 1
    PROVE  /\ last_start(size_of(NumThreads - 1)) = last_size + 1 - Len(string)
           /\ \A i \in Parts :
                 /\ i # NumThreads - 1 => last_start(size_of(i)) = chunk_size
                 /\ last_start(size_of(i)) \in Nat
                 /\ chunk_mem(i) + last_start(size_of(i)) + Len(string) - 1 <= Page
<1>1. /\ chunk_size \in Nat /\ last_size \in Nat
      /\ chunk_mem(NumThreads - 1) + last_size <= Page
      /\ \A i \in Parts : /\ chunk_mem(i) \in Nat
                          /\ chunk_mem(i) <= chunk_mem(NumThreads - 1)
                          /\ chunk_mem(i + 1) = chunk_mem(i) + chunk_size
                          /\ i # NumThreads - 1 =>
                                chunk_mem(i + 1) <= chunk_mem(NumThreads - 1)
  BY ChunksTile
<1>2. Len(string) \in Nat \ {0} /\ NumThreads \in Nat \ {0} /\ Page \in Nat
  BY CountAssumption
<1>3. last_start(size_of(NumThreads - 1)) = last_size + 1 - Len(string)
  <2>1. size_of(NumThreads - 1) = last_size
    BY DEF size_of
  <2> HIDE DEF last_size, size_of
  <2> QED BY <1>1, <1>2, <2>1 DEF last_start
<1>4. NumThreads - 1 \in Parts
  BY <1>2 DEF Parts
<1>5. ASSUME NEW i \in Parts, i # NumThreads - 1
      PROVE  last_start(size_of(i)) = chunk_size
  <2>1. size_of(i) = chunk_size + Len(string) - 1
    BY <1>1, <1>2, <1>5 DEF size_of
  <2> QED BY <1>1, <1>2, <2>1 DEF last_start
<1>6. ASSUME NEW i \in Parts
      PROVE  /\ last_start(size_of(i)) \in Nat
             /\ chunk_mem(i) + last_start(size_of(i)) + Len(string) - 1 <= Page
  <2> DEFINE m == chunk_mem(NumThreads - 1)
  <2>1. m \in Nat /\ m + last_size <= Page
    BY <1>1, <1>4
  <2>2. CASE i = NumThreads - 1
    <3>1. last_start(size_of(i)) = last_size + 1 - Len(string) /\ chunk_mem(i) = m
      BY <1>3, <2>2
    <3> HIDE DEF m
    <3> QED BY <1>1, <1>2, <2>1, <3>1
  <2>3. CASE i # NumThreads - 1
    <3>1. /\ last_start(size_of(i)) = chunk_size /\ chunk_mem(i) \in Nat
          /\ chunk_mem(i) + chunk_size <= m
      BY <1>1, <1>5, <2>3
    <3> HIDE DEF m
    <3> QED BY <1>1, <1>2, <2>1, <3>1
  <2> QED BY <2>2, <2>3
<1> QED BY <1>3, <1>5, <1>6

(* A thread's count is a number, or the process is killed.                 *)
LEMMA CountType ==
    ASSUME Len(text) \in Sizes, Len(string) \in StringSizes, NEW i \in Parts
    PROVE  /\ count(chunk_mem(i), size_of(i)) \in Nat \cup {Crash}
           /\ Len(string) <= last_size + 1 =>
                 count(chunk_mem(i), size_of(i))
                    = tally(chunk_mem(i), last_start(size_of(i)))
           /\ last_size + 1 < Len(string) =>
                 count(chunk_mem(NumThreads - 1), size_of(NumThreads - 1)) = Crash
<1>1. /\ chunk_size \in Nat /\ last_size \in Nat /\ chunk_mem(i) \in Nat
      /\ NumThreads - 1 \in Parts /\ chunk_mem(NumThreads - 1) \in Nat
  <2>1. NumThreads - 1 \in Parts
    BY CountAssumption DEF Parts
  <2> QED BY <2>1, ChunksTile
<1>2. Len(string) \in Nat \ {0} /\ NumThreads \in Nat \ {0} /\ Page \in Nat
  BY CountAssumption
<1>3. last_start(size_of(i)) \in Nat
  <2>1. size_of(i) \in Nat
    BY <1>1, <1>2 DEF size_of
  <2> HIDE DEF size_of
  <2> QED BY <1>2, <2>1 DEF last_start, Huge
<1>4. tally(chunk_mem(i), last_start(size_of(i))) \in Nat
  BY <1>1, <1>2, <1>3, TallyType
<1>5. count(chunk_mem(i), size_of(i)) \in Nat \cup {Crash}
  BY <1>4 DEF count
<1>6. ASSUME Len(string) <= last_size + 1
      PROVE  count(chunk_mem(i), size_of(i))
                = tally(chunk_mem(i), last_start(size_of(i)))
  <2>1. chunk_mem(i) + last_start(size_of(i)) + Len(string) - 1 <= Page
    BY <1>6, LastStarts
  <2>2. ~ (chunk_mem(i) + last_start(size_of(i)) + Len(string) - 1 > Page)
    BY <1>1, <1>2, <1>3, <2>1
  <2> QED BY <2>2 DEF count
<1>7. ASSUME last_size + 1 < Len(string)
      PROVE  count(chunk_mem(NumThreads - 1), size_of(NumThreads - 1)) = Crash
  <2> DEFINE m == chunk_mem(NumThreads - 1)
  <2>1. last_start(size_of(NumThreads - 1)) = 2 * Page + Len(string)
    BY <1>7 DEF last_start, size_of, Huge
  <2>2. m + (2 * Page + Len(string)) + Len(string) - 1 > Page
    <3>1. m \in Nat
      BY <1>1
    <3> HIDE DEF m
    <3> QED BY <1>2, <3>1
  <2> QED BY <2>1, <2>2 DEF count
<1> QED BY <1>5, <1>6, <1>7

(* What is found in an area is found in its two parts.                     *)
LEMMA FoundSplit ==
    ASSUME NEW a \in Nat, NEW b \in Nat
    PROVE  Cardinality(Found(0, 0, a + b))
              = Cardinality(Found(0, 0, a)) + Cardinality(Found(a, 0, b))
<1> DEFINE A == Found(0, 0, a)
           B == Found(a, 0, b)
           C == {a + j : j \in B}
<1>1. /\ IsFiniteSet(A) /\ Cardinality(A) \in Nat
      /\ IsFiniteSet(B) /\ Cardinality(B) \in Nat
  BY FoundFinite
<1>2. B \subseteq Int
  BY DEF Found
<1>3. IsFiniteSet(C) /\ Cardinality(C) = Cardinality(B)
  <2> DEFINE f == [j \in B |-> a + j]
  <2>1. f \in [B -> C] /\ \A z \in C : \E j \in B : f[j] = z
    OBVIOUS
  <2>2. \A x, y \in B : f[x] = f[y] => x = y
    BY <1>2
  <2> HIDE DEF f, B, C
  <2> QED BY <1>1, <2>1, <2>2, BijectionSize
<1>4. Found(0, 0, a + b) = A \cup C
  <2>1. ASSUME NEW j \in Int
        PROVE  j \in Found(0, 0, a + b) <=> j \in A \cup C
    <3>1. CASE j < a
      <4>1. j \notin C
        BY <3>1 DEF Found
      <4>2. j \in Found(0, 0, a + b) <=> j \in A
        BY <3>1 DEF Found
      <4> QED BY <4>1, <4>2
    <3>2. CASE ~ (j < a)
      <4>1. j \notin A
        BY <3>2 DEF Found
      <4>2. j \in C <=> j - a \in B
        <5>1. j - a \in B => j \in C
          <6>1. j = a + (j - a)
            OBVIOUS
          <6> HIDE DEF B
          <6> QED BY <6>1
        <5>2. j \in C => j - a \in B
          <6> SUFFICES ASSUME j \in C PROVE j - a \in B
            OBVIOUS
          <6>1. PICK i \in B : j = a + i
            OBVIOUS
          <6>2. i \in Int
            BY <1>2
          <6> HIDE DEF B, C
          <6>3. j - a = i
            BY <6>1, <6>2
          <6> QED BY <6>3
        <5> QED BY <5>1, <5>2
      <4>3. j \in Found(0, 0, a + b) <=> j - a \in B
        <5>1. 0 + j = a + (j - a)
          OBVIOUS
        <5>2. Matches(0 + j) <=> Matches(a + (j - a))
          BY <5>1
        <5>3. j \in 0 .. a + b - 1 <=> j - a \in 0 .. b - 1
          BY <3>2
        <5> QED BY <5>2, <5>3 DEF Found
      <4> QED BY <4>1, <4>2, <4>3
    <3> QED BY <3>1, <3>2
  <2>2. Found(0, 0, a + b) \subseteq Int /\ A \subseteq Int /\ C \subseteq Int
    BY <1>2 DEF Found
  <2> HIDE DEF A, C
  <2> QED BY <2>1, <2>2
<1>5. A \cap C = {}
  BY DEF Found
<1> HIDE DEF A, B, C
<1> QED BY <1>1, <1>3, <1>4, <1>5, DisjointSize DEF A, B
(* No match begins where the string would reach behind the end of the file,*)
(* for what is read there is Zero.                                         *)
LEMMA FoundInFile ==
    ASSUME text \in Seq(Letters), string \in Seq(Letters), Len(string) \in Nat \ {0},
           Len(string) <= Len(text) + 1, NEW last \in Nat,
           last >= Len(text) + 1 - Len(string)
    PROVE  Found(0, 0, last) = Found(0, 0, Len(text) + 1 - Len(string))
<1> DEFINE e == Len(text) + 1 - Len(string)
<1>1. Len(text) \in Nat /\ e \in Nat
  BY LenProperties
<1>2. ASSUME NEW j \in Nat, j >= e PROVE ~ Matches(0 + j)
  <2> SUFFICES ASSUME Matches(0 + j) PROVE FALSE
    OBVIOUS
  <2>1. Byte((0 + j) + Len(string) - 1) = string[Len(string)]
    BY DEF Matches
  <2>2. Byte((0 + j) + Len(string) - 1) = Zero
    BY <1>1, <1>2 DEF Byte
  <2>3. string[Len(string)] \in Letters
    BY ElementOfSeq
  <2> QED BY <2>1, <2>2, <2>3, CountAssumption
<1>3. ASSUME NEW j \in Int
      PROVE  j \in Found(0, 0, last) <=> j \in Found(0, 0, e)
  <2>1. CASE j \in Nat /\ j >= e
    <3>1. ~ Matches(0 + j)
      BY <1>2, <2>1
    <3> QED BY <2>1, <3>1 DEF Found
  <2>2. CASE ~ (j \in Nat /\ j >= e)
    BY <1>1, <2>2 DEF Found
  <2> QED BY <2>1, <2>2
<1>4. Found(0, 0, last) \subseteq Int /\ Found(0, 0, e) \subseteq Int
  BY DEF Found
<1> HIDE DEF Found
<1> QED BY <1>3, <1>4

(* When no thread was killed, the sum of the parts is the serial count.    *)
LEMMA PartsAreSerial ==
    ASSUME text \in Seq(Letters), Len(text) \in Sizes,
           string \in Seq(Letters), Len(string) \in StringSizes, Unbordered,
           \A i \in Parts : result[i] = count(chunk_mem(i), size_of(i)) /\ result[i] >= 0
    PROVE  sum_of_results = serial
<1> DEFINE N == NumThreads
           S == Len(string)
           Upto(last) == Cardinality(Found(0, 0, last))
           end == Len(text) + 1 - S
           c == [n \in 0 .. N |-> IF n = N THEN Upto(end) ELSE Upto(chunk_mem(n))]
<1>1. /\ N \in Nat \ {0} /\ S \in Nat \ {0} /\ Page \in Nat
      /\ Len(text) \in Nat /\ Len(text) <= Page
  BY CountAssumption
<1>2. N - 1 \in Parts
  BY <1>1 DEF Parts
<1>3. last_size \in Nat /\ last_size <= Len(text) /\ chunk_size \in Nat
  BY ChunksTile
<1>4. S <= last_size + 1
  <2> SUFFICES ASSUME ~ (S <= last_size + 1) PROVE FALSE
    OBVIOUS
  <2>1. count(chunk_mem(N - 1), size_of(N - 1)) = Crash
    BY <1>1, <1>2, <1>3, CountType
  <2>2. result[N - 1] = count(chunk_mem(N - 1), size_of(N - 1)) /\ result[N - 1] >= 0
    BY <1>2
  <2> QED BY <2>1, <2>2 DEF Crash
<1>5. ASSUME NEW i \in Parts
      PROVE  /\ chunk_mem(i) \in Nat /\ last_start(size_of(i)) \in Nat
             /\ Upto(chunk_mem(i) + last_start(size_of(i)))
                   = Upto(chunk_mem(i)) + result[i]
  <2>1. chunk_mem(i) \in Nat /\ last_start(size_of(i)) \in Nat
    BY <1>4, ChunksTile, LastStarts
  <2>2. result[i] = tally(chunk_mem(i), last_start(size_of(i)))
    BY <1>4, CountType
  <2>3. result[i] = Cardinality(Found(chunk_mem(i), 0, last_start(size_of(i))))
    BY <1>1, <2>1, <2>2, TallyIs
  <2> QED BY <2>1, <2>3, FoundSplit
<1>6. c[0] = 0 /\ N # 0
  <2>1. Found(0, 0, 0) = {}
    BY DEF Found
  <2>2. Upto(chunk_mem(0)) = 0
    BY <2>1, ChunksTile, FS_EmptySet
  <2> QED BY <1>1, <2>2
<1>7. ASSUME NEW n \in 1 .. N PROVE c[n] = c[n - 1] + result[n - 1]
  <2>1. n - 1 \in Parts /\ n - 1 \in 0 .. N /\ n - 1 # N /\ n \in 0 .. N /\ n - 1 + 1 = n
    BY <1>1 DEF Parts
  <2> HIDE DEF Upto
  <2>2. c[n - 1] = Upto(chunk_mem(n - 1))
    BY <2>1
  <2>3. CASE n # N
    <3>1. last_start(size_of(n - 1)) = chunk_size
      BY <1>1, <1>4, <2>1, <2>3, LastStarts
    <3>2. chunk_mem(n) = chunk_mem(n - 1) + chunk_size
      <4>1. chunk_mem(n - 1 + 1) = chunk_mem(n - 1) + chunk_size
        BY <2>1, ChunksTile
      <4> QED BY <2>1, <4>1
    <3>3. c[n] = Upto(chunk_mem(n))
      BY <2>1, <2>3
    <3> QED BY <1>5, <2>1, <2>2, <3>1, <3>2, <3>3
  <2>4. CASE n = N
    <3> DEFINE last == chunk_mem(n - 1) + last_start(size_of(n - 1))
    <3>1. last_start(size_of(n - 1)) = last_size + 1 - S
      BY <1>4, <2>4, LastStarts
    <3>2. chunk_mem(n - 1) + last_size >= Len(text) /\ chunk_mem(n - 1) \in Nat
      BY <2>1, <2>4, ChunksTile
    <3>3. last \in Nat /\ last >= end
      <4> HIDE DEF S
      <4> QED BY <1>1, <1>3, <1>4, <3>1, <3>2
    <3>4. S <= Len(text) + 1
      BY <1>1, <1>3, <1>4
    <3> HIDE DEF last
    <3>5. Found(0, 0, last) = Found(0, 0, end)
      BY <1>1, <3>3, <3>4, FoundInFile
    <3>6. Upto(last) = Upto(end)
      BY <3>5 DEF Upto
    <3>7. c[n] = Upto(end)
      BY <2>1, <2>4
    <3> QED BY <1>5, <2>1, <2>2, <3>6, <3>7 DEF last
  <2> QED BY <2>3, <2>4
<1>8. sum_of_results = c[N]
  <2> HIDE DEF c
  <2> QED BY <1>1, <1>6, <1>7, SumMeaning
<1>9. c[N] = Upto(end)
  BY <1>1
<1>10. serial = Upto(end)
  <2>1. last_start(Len(text)) = end /\ end \in Nat
    BY <1>1, <1>3, <1>4 DEF last_start
  <2>2. serial = tally(0, end)
    BY <1>1, <2>1 DEF serial, count
  <2> QED BY <1>1, <2>1, <2>2, TallyIs
<1> QED BY <1>8, <1>9, <1>10

(* What a thread has written is its count; main adds up when all are done. *)
CountInv ==
    /\ text \in Seq(Letters) /\ Len(text) \in Sizes
    /\ string \in Seq(Letters) /\ Len(string) \in StringSizes
    /\ DOMAIN result = Parts /\ result = [i \in Parts |-> result[i]]
    /\ \A i \in Parts : \/ result[i] = NotYet
                        \/ result[i] = count(chunk_mem(i), size_of(i))
    /\ total # NotYet => /\ \A i \in Parts : result[i] >= 0
                         /\ total = sum_of_results

LEMMA CountStays ==
    ASSUME text' = text, string' = string, NEW i
    PROVE  count(chunk_mem(i), size_of(i))' = count(chunk_mem(i), size_of(i))
<1>1. tally(chunk_mem(i), last_start(size_of(i)))'
         = tally(chunk_mem(i), last_start(size_of(i)))
  BY DEF tally, chunk_mem, last_start, size_of, last_size, chunk_size, Minus, Huge,
         Matches, Byte
<1> QED BY <1>1 DEF count, chunk_mem, last_start, size_of, last_size, chunk_size,
                    Minus, Huge

(* The counts are right in every state of the program.                     *)
THEOREM CountInvariant == CountSpec => []CountInv
<1>1. CountStart => CountInv
  <2> SUFFICES ASSUME CountStart PROVE CountInv
    OBVIOUS
  <2>1. /\ text \in Seq(Letters) /\ Len(text) \in Sizes
        /\ string \in Seq(Letters) /\ Len(string) \in StringSizes
    <3>1. \A n \in Nat : \A s \in [1 .. n -> Letters] : s \in Seq(Letters) /\ Len(s) = n
      OBVIOUS
    <3>2. Sizes \subseteq Nat /\ StringSizes \subseteq Nat
      BY CountAssumption
    <3> QED BY <3>1, <3>2 DEF CountStart
  <2> QED BY <2>1 DEF CountStart, CountInv
<1>2. CountInv /\ [CountStep]_countVars => CountInv'
  <2> SUFFICES ASSUME CountInv, [CountStep]_countVars PROVE CountInv'
    OBVIOUS
  <2>1. CASE SumUp
    <3>1. /\ text' = text /\ string' = string /\ result' = result
          /\ \A i \in Parts : result[i] >= 0
          /\ total' = sum_of_results
      BY <2>1 DEF SumUp
    <3>2. \A i \in Parts : count(chunk_mem(i), size_of(i))' = count(chunk_mem(i), size_of(i))
      BY <3>1, CountStays
    <3>3. sum_of_results' = sum_of_results
      BY <3>1 DEF sum_of_results
    <3> QED BY <3>1, <3>2, <3>3 DEF CountInv
  <2>2. ASSUME NEW i \in Parts, thread_code(i) PROVE CountInv'
    <3>1. /\ text' = text /\ string' = string /\ total' = total
          /\ result[i] = NotYet
          /\ result' = [result EXCEPT ![i] = count(chunk_mem(i), size_of(i))]
      BY <2>2 DEF thread_code
    <3>2. \A j \in Parts : count(chunk_mem(j), size_of(j))' = count(chunk_mem(j), size_of(j))
      BY <3>1, CountStays
    <3>3. total = NotYet
      BY <3>1 DEF CountInv, NotYet
    <3>4. /\ DOMAIN result' = Parts /\ result' = [j \in Parts |-> result'[j]]
          /\ \A j \in Parts : result'[j] = IF j = i THEN count(chunk_mem(i), size_of(i))
                                           ELSE result[j]
      BY <3>1 DEF CountInv
    <3> QED BY <3>1, <3>2, <3>3, <3>4 DEF CountInv
  <2>3. CASE UNCHANGED countVars
    <3>1. text' = text /\ string' = string /\ result' = result /\ total' = total
      BY <2>3 DEF countVars
    <3>2. \A i \in Parts : count(chunk_mem(i), size_of(i))' = count(chunk_mem(i), size_of(i))
      BY <3>1, CountStays
    <3>3. sum_of_results' = sum_of_results
      BY <3>1 DEF sum_of_results
    <3> QED BY <3>1, <3>2, <3>3 DEF CountInv
  <2> QED BY <2>1, <2>2, <2>3 DEF CountStep
<1> QED BY <1>1, <1>2, PTL DEF CountSpec

(* The parallel count of the program is the serial one, and it is killed   *)
(* only for a last chunk that is too short: for every file, every string   *)
(* and every number of threads.                                            *)
THEOREM SerialCount == CountSpec => []SameAsSerial
<1>1. CountInv => SameAsSerial
  <2> SUFFICES ASSUME CountInv PROVE SameAsSerial
    OBVIOUS
  <2>0. /\ text \in Seq(Letters) /\ Len(text) \in Sizes
        /\ string \in Seq(Letters) /\ Len(string) \in StringSizes
    BY DEF CountInv
  <2>1. SumIsSerial
    <3> SUFFICES ASSUME total # NotYet, Unbordered PROVE total = serial
      BY DEF SumIsSerial
    <3>1. /\ total = sum_of_results
          /\ \A i \in Parts : result[i] = count(chunk_mem(i), size_of(i)) /\ result[i] >= 0
      BY DEF CountInv, NotYet
    <3> QED BY <2>0, <3>1, PartsAreSerial
  <2>2. NoCrash
    <3> SUFFICES ASSUME NEW i \in Parts, result[i] = Crash, ~ (Len(string) > last_size + 1)
                 PROVE  FALSE
      BY DEF NoCrash
    <3>1. result[i] = count(chunk_mem(i), size_of(i))
      BY DEF CountInv, NotYet, Crash
    <3>2. Len(string) <= last_size + 1
      <4>1. Len(string) \in Nat /\ last_size \in Nat
        BY <2>0, ChunksTile, CountAssumption
      <4> QED BY <4>1
    <3>3. /\ count(chunk_mem(i), size_of(i)) = tally(chunk_mem(i), last_start(size_of(i)))
          /\ chunk_mem(i) \in Nat /\ last_start(size_of(i)) \in Nat
      BY <2>0, <3>2, CountType, ChunksTile, LastStarts
    <3>4. tally(chunk_mem(i), last_start(size_of(i))) \in Nat
      BY <2>0, <3>3, TallyType, CountAssumption
    <3> QED BY <3>1, <3>3, <3>4 DEF Crash
  <2> QED BY <2>1, <2>2 DEF SameAsSerial
<1>2. CountSpec => []CountInv
  BY CountInvariant
<1> QED BY <1>1, <1>2, PTL

(* The counter's variables keep their types.                               *)
THEOREM CountTypeCorrect == CountSpec => []CountTypeOK
<1>1. CountInv => CountTypeOK
  <2> SUFFICES ASSUME CountInv PROVE CountTypeOK
    OBVIOUS
  <2>1. result \in [Parts -> Nat \cup {NotYet, Crash}]
    <3>1. \A i \in Parts : count(chunk_mem(i), size_of(i)) \in Nat \cup {Crash}
      BY CountType DEF CountInv
    <3> QED BY <3>1 DEF CountInv
  <2>2. total \in Nat \cup {NotYet}
    <3> SUFFICES ASSUME total # NotYet PROVE total \in Nat
      OBVIOUS
    <3>1. total = sum_of_results /\ \A i \in Parts : result[i] \in Nat
      BY <2>1 DEF CountInv, NotYet, Crash
    <3> QED BY <3>1, SumType, CountAssumption
  <2> QED BY <2>1, <2>2 DEF CountTypeOK
<1>2. CountSpec => []CountInv
  BY CountInvariant
<1> QED BY <1>1, <1>2, PTL

-----------------------------------------------------------------------------
(* The file cache.                                                         *)

(* Where threads are; who is in store_cache's loop; whose scan must find.  *)
Stages == {"none", "read_sock", "recv", "lock", "scan", "copy", "unlock", "store",
           "fill", "claim", "load", "crashed"}
Storing(t)  == at[t] \in {"fill", "claim", "load"}
Scanning(t) == at[t] \in {"scan", "copy", "unlock"}
Looking(t)  == at[t] \in {"scan", "copy"}
Needs(t) == order[t].op = "w" \/ bytes_size[t] % MaxBytes > 0
Wanted(t) == Cache!Start(byte_start[t])

Cell == [is_used : BOOLEAN, byte_start : Nat, block : Nat \cup {-1}, version : Nat]
Reply == [block : Nat \cup {-1}, version : Nat]

(* A slot whose block is in it; one with a thread's block.                 *)
Settled(i) == /\ slots[i].is_used
              /\ slots[i].block = Cache!Block(slots[i].byte_start)
              /\ slots[i].byte_start = Cache!Start(slots[i].byte_start)
Foremost(i) == \A k \in Cache!SlotNos :
               k < i /\ slots[k].is_used => slots[k].byte_start # slots[i].byte_start
Ready(t, j) == /\ slots[j].byte_start = Wanted(t)
               /\ \A k \in Cache!SlotNos : k <= j => Settled(k)
Passed(t) == \A k \in Cache!SlotNos :
                k < index[t] /\ slots[k].is_used => slots[k].byte_start # Wanted(t)

PlacesOK ==
    /\ at \in [CacheClients -> Stages]
    /\ client_sock \in CacheClients \cup {NoOne}
    /\ \A t \in CacheClients : at[t] # "none" => client_sock \in CacheClients
    /\ sock \in [CacheClients -> CacheClients \cup {NoOne}]
    /\ \A t \in CacheClients : at[t] \notin {"none", "read_sock", "crashed"}
                                  => sock[t] \in CacheClients
AsksOK ==
    /\ inbox \in [CacheClients -> Seq(Cache!Order)]
    /\ \A c \in CacheClients : \A i \in 1 .. Len(inbox[c]) :
          inbox[c][i].op = "w" => inbox[c][i].start + inbox[c][i].size <= MaxBytes
    /\ order \in [CacheClients -> Cache!Order]
    /\ byte_start \in [CacheClients -> Nat]
    /\ bytes_size \in [CacheClients -> Nat]
LocalsOK ==
    /\ index \in [CacheClients -> 0 .. MaxSlots]
    /\ \A t \in CacheClients : at[t] \in {"copy", "claim", "load"} => index[t] < MaxSlots
    /\ least_used_index \in [CacheClients -> Cache!SlotNos \cup {-1}]
    /\ start \in [CacheClients -> Nat]
    /\ left \in [CacheClients -> Nat]
CellsOK ==
    /\ slots \in [Cache!SlotNos -> Cell]
    /\ file = [b \in DOMAIN file |-> file[b]]
    /\ DOMAIN file \subseteq Nat /\ \A b \in DOMAIN file : file[b] \in Nat
    /\ cache_mutex \in CacheClients \cup {NoOne}
    /\ replies \in [CacheClients -> Seq(Reply)]
    /\ evicted \in BOOLEAN /\ stolen \in BOOLEAN

(* What writers want lies in the first block.                              *)
Writes == \A t \in CacheClients :
    order[t].op = "w" /\ (Scanning(t) \/ Storing(t) \/ at[t] \in {"lock", "store"})
       => bytes_size[t] > 0 /\ byte_start[t] + bytes_size[t] <= MaxBytes

(* Only the holder of the mutex stores, and a thread that looks at the     *)
(* slots without it has stored its block: it will find it.  What it has    *)
(* passed is not its block, so that what it finds is the first.            *)
Holds(t) == /\ Storing(t) => cache_mutex = t
            /\ cache_mutex = t => Storing(t) \/ Scanning(t) \/ at[t] = "crashed"
WillFind(t) == Looking(t) /\ cache_mutex # t /\ Needs(t) =>
                  \E j \in Cache!SlotNos : index[t] <= j /\ Ready(t, j)
HasPassed(t) == Looking(t) /\ (cache_mutex = t \/ Needs(t)) => Passed(t)
HasFound(t) == at[t] = "copy" => /\ slots[index[t]].is_used
                                 /\ slots[index[t]].byte_start = Wanted(t)
Stores(t) ==
    /\ Storing(t) /\ bytes_size[t] > 0 =>
          \/ left[t] = bytes_size[t] /\ start[t] = byte_start[t]
          \/ \E j \in Cache!SlotNos : /\ slots[j].byte_start = Wanted(t) /\ slots[j].is_used
                                      /\ ~ (at[t] = "load" /\ index[t] = j)
    /\ Storing(t) => \A k \in Cache!SlotNos : k < index[t] => slots[k].is_used
    /\ at[t] = "claim" => ~ slots[index[t]].is_used
    /\ at[t] = "load" => /\ slots[index[t]].is_used
                         /\ slots[index[t]].byte_start = Cache!Start(start[t])
Mine(t) == Holds(t) /\ WillFind(t) /\ HasPassed(t) /\ HasFound(t) /\ Stores(t)

(* The slots in use are the first ones, all but one being loaded have their*)
(* block, and the first with a block has its version.                      *)
Slots == /\ \A i \in Cache!SlotNos :
               slots[i].is_used => \/ Settled(i)
                                   \/ \E t \in CacheClients : at[t] = "load" /\ index[t] = i
         /\ \A i \in Cache!SlotNos : ~ slots[i].is_used => slots[i].block = -1
         /\ \A i, k \in Cache!SlotNos : slots[i].is_used /\ k < i => slots[k].is_used
         /\ \A i \in Cache!SlotNos : Settled(i) /\ Foremost(i) =>
               slots[i].version = Cache!Version(slots[i].block)

CacheTypes == PlacesOK /\ AsksOK /\ LocalsOK /\ CellsOK
Calm == Slots /\ \A t \in CacheClients : Mine(t)
CacheInv == /\ CacheTypes /\ Writes
            /\ ~evicted /\ ~stolen => Calm

-----------------------------------------------------------------------------
LEMMA Quotient ==
    ASSUME NEW M \in Nat \ {0}, NEW a \in Nat
    PROVE  /\ a \div M \in Nat /\ (a % M) \in Nat /\ (a % M) < M /\ (a % M) <= a
           /\ (a \div M) * M \in Nat /\ a = (a \div M) * M + (a % M)
           /\ \A q \in Nat : q * M <= a /\ a < q * M + M => a \div M = q
<1>1. a \div M \in Nat /\ (a % M) \in Nat /\ (a % M) < M /\ (a % M) <= a
  OBVIOUS
<1>2. (a \div M) * M \in Nat
  BY <1>1
<1>3. a = (a \div M) * M + (a % M)
  <2> DEFINE d == a \div M
             r == (a % M)
  <2>1. r = a - M * d
    OBVIOUS
  <2>2. d \in Nat /\ r \in Nat
    BY <1>1
  <2> HIDE DEF d, r
  <2>3. M * d = d * M /\ d * M \in Nat
    BY <2>2
  <2>4. a = d * M + r
    BY <2>1, <2>2, <2>3
  <2> QED BY <2>4, Zenon DEF d, r
<1>4. ASSUME NEW q \in Nat, q * M <= a, a < q * M + M PROVE a \div M = q
  <2> DEFINE d == a \div M
  <2>1. d \in Nat /\ d * M \in Nat /\ q * M \in Nat /\ d * M <= a /\ a < d * M + M
    BY <1>1, <1>2, <1>3
  <2> HIDE DEF d
  <2>2. \A x, y \in Nat : x >= y + 1 => x * M >= y * M + M
    <3> TAKE x, y \in Nat
    <3> HAVE x >= y + 1
    <3>1. (x - (y + 1)) * M >= 0 /\ (x - (y + 1)) * M = x * M - (y * M + M)
      OBVIOUS
    <3>2. x * M \in Nat /\ y * M \in Nat
      OBVIOUS
    <3> QED BY <3>1, <3>2
  <2>3. ~ (d >= q + 1)
    <3> SUFFICES ASSUME d >= q + 1 PROVE FALSE
      OBVIOUS
    <3>1. d * M >= q * M + M
      BY <2>1, <2>2
    <3> QED BY <1>4, <2>1, <3>1
  <2>4. ~ (q >= d + 1)
    <3> SUFFICES ASSUME q >= d + 1 PROVE FALSE
      OBVIOUS
    <3>1. q * M >= d * M + M
      BY <2>1, <2>2
    <3> QED BY <1>4, <2>1, <3>1
  <2> QED BY <2>1, <2>3, <2>4 DEF d
<1> QED BY <1>1, <1>2, <1>3, <1>4

LEMMA Blocks ==
    ASSUME NEW p \in Nat
    PROVE  /\ Cache!Block(p) \in Nat /\ Cache!Start(p) \in Nat
           /\ Cache!Start(p) <= p /\ p < Cache!Start(p) + MaxBytes
           /\ Cache!Start(Cache!Start(p)) = Cache!Start(p)
           /\ Cache!Block(Cache!Start(p)) = Cache!Block(p)
           /\ \A s \in Nat : s = Cache!Start(s) /\ p \in s .. s + MaxBytes - 1
                                => Cache!Start(p) = s
           /\ p < MaxBytes => Cache!Start(p) = 0
<1> DEFINE M == MaxBytes
<1>1. M \in Nat \ {0}
  BY CacheAssumption DEF Cache!CacheParameters
<1> HIDE DEF M
<1>2. ASSUME NEW a \in Nat
      PROVE  /\ a \div M \in Nat /\ (a \div M) * M \in Nat
             /\ (a \div M) * M <= a /\ a < (a \div M) * M + M
  BY <1>1, Quotient
<1>3. ASSUME NEW a \in Nat, NEW q \in Nat, q * M <= a, a < q * M + M
      PROVE  a \div M = q
  BY <1>1, <1>3, Quotient
<1>4. ((p \div M) * M) \div M = p \div M
  <2>1. (p \div M) * M < (p \div M) * M + M
    BY <1>1, <1>2
  <2> HIDE DEF M
  <2> QED BY <1>2, <1>3, <2>1
<1>5. ASSUME NEW s \in Nat, s = (s \div M) * M, p \in s .. s + M - 1
      PROVE  (p \div M) * M = s
  <2>1. p \div M = s \div M
    BY <1>1, <1>2, <1>3, <1>5
  <2> QED BY <1>5, <2>1
<1>6. p < M => p \div M = 0
  BY <1>1, <1>3
<1>7. /\ Cache!Block(p) = p \div M /\ Cache!Start(p) = (p \div M) * M
      /\ Cache!Block(Cache!Start(p)) = Cache!Start(p) \div M
      /\ Cache!Start(Cache!Start(p)) = (Cache!Start(p) \div M) * M
      /\ \A s \in Nat : Cache!Start(s) = (s \div M) * M
  BY DEF Cache!Block, Cache!Start, M
<1>8. p < M => Cache!Start(p) = 0
  BY <1>1, <1>6, <1>7
<1>9. ASSUME NEW s \in Nat, s = Cache!Start(s), p \in s .. s + M - 1
      PROVE  Cache!Start(p) = s
  BY <1>5, <1>7, <1>9
<1> QED BY <1>2, <1>4, <1>7, <1>8, <1>9 DEF M

(* What is left of a request.                                              *)
LEMMA Lefts ==
    ASSUME NEW b \in Nat
    PROVE  /\ (b % MaxBytes) \in Nat /\ (b % MaxBytes) <= b /\ (b % MaxBytes) < MaxBytes
           /\ b - (b % MaxBytes) \in Nat /\ (b - (b % MaxBytes)) % MaxBytes = 0
<1> DEFINE M == MaxBytes
<1>1. M \in Nat \ {0}
  BY CacheAssumption DEF Cache!CacheParameters
<1> HIDE DEF M
<1> DEFINE q == b \div M
           x == q * M
           r == (b % M)
<1>2. r \in Nat /\ r <= b /\ r < M /\ q \in Nat /\ x \in Nat /\ b = x + r
  BY <1>1, Quotient
<1> HIDE DEF r
<1>3. (x % M) = 0
  <2>1. q * M <= x /\ x < q * M + M
    BY <1>1, <1>2
  <2>2. x \div M = q
    <3>1. \A n \in Nat : n * M <= x /\ x < n * M + M => x \div M = n
      <4> HIDE DEF q, x
      <4> QED BY <1>1, <1>2, Quotient
    <3> QED BY <1>2, <2>1, <3>1
  <2> HIDE DEF q
  <2>3. x = (x \div M) * M + (x % M) /\ (x % M) \in Nat
    <3>1. \A a \in Nat : a = (a \div M) * M + (a % M) /\ (a % M) \in Nat
      BY <1>1, Quotient
    <3> HIDE DEF x
    <3> QED BY <1>2, <3>1
  <2> DEFINE y == (x % M)
  <2>4. x = x + y /\ y \in Nat
    BY <2>2, <2>3, Zenon
  <2> HIDE DEF x, y
  <2>5. y = 0
    BY <1>2, <2>4
  <2> QED BY <2>5 DEF x, y
<1>4. b - r = x
  <2> HIDE DEF x
  <2> QED BY <1>2
<1>5. r \in Nat /\ r <= b /\ r < M /\ b - r \in Nat /\ (b - r) % M = 0
  <2> HIDE DEF x
  <2> QED BY <1>2, <1>3, <1>4
<1> QED BY <1>5, Zenon DEF M, r

LEMMA Bounds == MaxSlots \in Nat \ {0} /\ MaxBytes \in Nat \ {0} /\ NoOne \notin CacheClients
BY CacheAssumption DEF Cache!CacheParameters

(* What a step does to the slot it changes.                                *)
LEMMA CellClaimed ==
    ASSUME slots \in [Cache!SlotNos -> Cell], NEW i \in Cache!SlotNos, NEW s \in Nat,
           slots' = [slots EXCEPT ![i].is_used = TRUE, ![i].byte_start = s]
    PROVE  /\ slots' \in [Cache!SlotNos -> Cell]
           /\ \A k \in Cache!SlotNos : k # i => slots'[k] = slots[k]
           /\ slots'[i].is_used /\ slots'[i].byte_start = s
           /\ slots'[i].block = slots[i].block
<1> DEFINE c == [slots[i] EXCEPT !.is_used = TRUE, !.byte_start = s]
<1>1. c \in Cell /\ c.is_used /\ c.byte_start = s /\ c.block = slots[i].block
  BY DEF Cell
<1>2. slots' = [slots EXCEPT ![i] = c]
  OBVIOUS
<1> HIDE DEF c
<1> QED BY <1>1, <1>2

LEMMA CellLoaded ==
    ASSUME slots \in [Cache!SlotNos -> Cell], NEW i \in Cache!SlotNos, NEW b \in Nat,
           NEW v \in Nat, slots' = [slots EXCEPT ![i].block = b, ![i].version = v]
    PROVE  slots' \in [Cache!SlotNos -> Cell]
<1> DEFINE c == [slots[i] EXCEPT !.block = b, !.version = v]
<1>1. c \in Cell
  BY DEF Cell
<1>2. slots' = [slots EXCEPT ![i] = c]
  OBVIOUS
<1> HIDE DEF c
<1> QED BY <1>1, <1>2

LEMMA CellWritten ==
    ASSUME slots \in [Cache!SlotNos -> Cell], NEW i \in Cache!SlotNos,
           slots' = [slots EXCEPT ![i].version = @ + 1]
    PROVE  /\ slots' \in [Cache!SlotNos -> Cell]
           /\ \A k \in Cache!SlotNos : k # i => slots'[k] = slots[k]
           /\ slots'[i].version = slots[i].version + 1
           /\ slots'[i].block = slots[i].block
           /\ slots'[i].is_used = slots[i].is_used
           /\ slots'[i].byte_start = slots[i].byte_start
<1> DEFINE c == [slots[i] EXCEPT !.version = slots[i].version + 1]
<1>1. /\ c \in Cell /\ c.version = slots[i].version + 1 /\ c.block = slots[i].block
      /\ c.is_used = slots[i].is_used /\ c.byte_start = slots[i].byte_start
  BY DEF Cell
<1>2. slots' = [slots EXCEPT ![i] = c]
  OBVIOUS
<1> HIDE DEF c
<1> QED BY <1>1, <1>2

LEMMA CellEvicted ==
    ASSUME slots \in [Cache!SlotNos -> Cell], NEW i \in Cache!SlotNos, NEW s \in Nat,
           NEW v \in Nat,
           slots' = [[slots EXCEPT ![i].block = 0, ![i].version = v]
                       EXCEPT ![i].byte_start = s]
    PROVE  slots' \in [Cache!SlotNos -> Cell]
<1> DEFINE c == [slots[i] EXCEPT !.block = 0, !.version = v, !.byte_start = s]
<1>1. c \in Cell
  BY DEF Cell
<1>2. slots' = [slots EXCEPT ![i] = c]
  OBVIOUS
<1> HIDE DEF c
<1> QED BY <1>1, <1>2

LEMMA VersionType == ASSUME CellsOK, NEW b PROVE Cache!Version(b) \in Nat
BY DEF CellsOK, Cache!Version

LEMMA TypesAccept ==
    ASSUME CacheTypes, NEW t \in CacheClients, Cache!Accept(t)
    PROVE  CacheTypes'
<1> USE Bounds DEF CacheTypes, Cache!Accept, Cache!Go, Cache!Set, Cache!requestVars,
   Cache!getVars, Cache!storeVars, Cache!localVars, Cache!historyVars
<1>1. PlacesOK'
  BY DEF PlacesOK, Stages
<1>2. AsksOK'
  BY Lefts, Blocks DEF AsksOK, CellsOK
<1>3. LocalsOK'
  BY DEF LocalsOK, PlacesOK
<1>4. CellsOK'
  BY DEF CellsOK
<1> QED BY <1>1, <1>2, <1>3, <1>4

LEMMA TypesReadSock ==
    ASSUME CacheTypes, NEW t \in CacheClients, Cache!ReadSock(t)
    PROVE  CacheTypes'
<1> USE Bounds DEF CacheTypes, Cache!ReadSock, Cache!Go, Cache!Set, Cache!requestVars,
   Cache!getVars, Cache!storeVars, Cache!localVars, Cache!historyVars
<1>1. PlacesOK'
  BY DEF PlacesOK, Stages
<1>2. AsksOK'
  BY Lefts, Blocks DEF AsksOK, CellsOK
<1>3. LocalsOK'
  BY DEF LocalsOK, PlacesOK
<1>4. CellsOK'
  BY DEF CellsOK
<1> QED BY <1>1, <1>2, <1>3, <1>4

LEMMA TypesReceive ==
    ASSUME CacheTypes, NEW t \in CacheClients, Cache!Receive(t)
    PROVE  CacheTypes'
<1> USE Bounds DEF CacheTypes, Cache!Receive, Cache!Go, Cache!Set, Cache!requestVars,
   Cache!getVars, Cache!storeVars, Cache!localVars, Cache!historyVars
<1>1. PlacesOK'
  BY DEF PlacesOK, Stages
<1>2. AsksOK'
  <2> DEFINE c == sock[t]
             q == inbox[c]
             o == Head(q)
  <2>1. c \in CacheClients /\ q \in Seq(Cache!Order) /\ q # <<>>
    BY DEF PlacesOK, AsksOK
  <2>2. /\ order' = [order EXCEPT ![t] = o] /\ inbox' = [inbox EXCEPT ![c] = Tail(q)]
        /\ byte_start' = [byte_start EXCEPT ![t] = order'[t].start]
        /\ bytes_size' = [bytes_size EXCEPT ![t] = order'[t].size]
    OBVIOUS
  <2>3. /\ \A i \in 1 .. Len(q) : q[i].op = "w" => q[i].start + q[i].size <= MaxBytes
        /\ Len(q) \in Nat
    BY <2>1 DEF AsksOK
  <2>4. inbox \in [CacheClients -> Seq(Cache!Order)]
    BY DEF AsksOK
  <2> HIDE DEF c, q
  <2>5. o \in Cache!Order /\ o.start \in Nat /\ o.size \in Nat
    <3>1. o \in Cache!Order
      BY <2>1
    <3> QED BY <3>1 DEF Cache!Order
  <2>6. /\ Tail(q) \in Seq(Cache!Order)
        /\ \A i \in 1 .. Len(Tail(q)) : i + 1 \in 1 .. Len(q) /\ Tail(q)[i] = q[i + 1]
    BY <2>1, <2>3
  <2> HIDE DEF o
  <2>7. order' \in [CacheClients -> Cache!Order] /\ order'[t] = o
    BY <2>2, <2>5 DEF AsksOK
  <2>8. byte_start' \in [CacheClients -> Nat] /\ bytes_size' \in [CacheClients -> Nat]
    BY <2>2, <2>5, <2>7 DEF AsksOK
  <2>9. /\ inbox' \in [CacheClients -> Seq(Cache!Order)]
        /\ inbox'[c] = Tail(q) /\ \A d \in CacheClients : d # c => inbox'[d] = inbox[d]
    <3>1. inbox' = [inbox EXCEPT ![c] = Tail(q)]
      BY <2>2
    <3> QED BY <2>1, <2>4, <2>6, <3>1
  <2>10. ASSUME NEW d \in CacheClients, NEW i \in 1 .. Len(inbox'[d]), inbox'[d][i].op = "w"
         PROVE  inbox'[d][i].start + inbox'[d][i].size <= MaxBytes
    <3>1. CASE d = c
      <4>1. i \in 1 .. Len(Tail(q)) /\ inbox'[d] = Tail(q)
        BY <2>9, <3>1
      <4>2. i + 1 \in 1 .. Len(q) /\ inbox'[d][i] = q[i + 1]
        BY <2>6, <4>1
      <4> QED BY <2>3, <2>10, <4>2
    <3>2. CASE d # c
      BY <2>9, <2>10, <3>2 DEF AsksOK
    <3> QED BY <3>1, <3>2
  <2> QED BY <2>7, <2>8, <2>9, <2>10 DEF AsksOK
<1>3. LocalsOK'
  BY DEF LocalsOK, PlacesOK
<1>4. CellsOK'
  BY DEF CellsOK
<1> QED BY <1>1, <1>2, <1>3, <1>4

LEMMA TypesLockCache ==
    ASSUME CacheTypes, NEW t \in CacheClients, Cache!LockCache(t)
    PROVE  CacheTypes'
<1> USE Bounds DEF CacheTypes, Cache!LockCache, Cache!Go, Cache!Set, Cache!requestVars,
   Cache!getVars, Cache!storeVars, Cache!localVars, Cache!historyVars
<1>1. PlacesOK'
  BY DEF PlacesOK, Stages
<1>2. AsksOK'
  BY Lefts, Blocks DEF AsksOK, CellsOK
<1>3. LocalsOK'
  BY DEF LocalsOK, PlacesOK, Cache!SlotNos
<1>4. CellsOK'
  BY DEF CellsOK
<1> QED BY <1>1, <1>2, <1>3, <1>4

LEMMA TypesScan ==
    ASSUME CacheTypes, NEW t \in CacheClients, Cache!Scan(t)
    PROVE  CacheTypes'
<1> USE Bounds DEF CacheTypes, Cache!Scan, Cache!Go, Cache!Set, Cache!requestVars,
   Cache!getVars, Cache!storeVars, Cache!localVars, Cache!historyVars, Cache!Hit
<1>1. PlacesOK'
  BY DEF PlacesOK, Stages
<1>2. AsksOK'
  BY Lefts, Blocks DEF AsksOK, CellsOK
<1>3. LocalsOK'
  <2>1. \/ index' = index /\ (index[t] < MaxSlots \/ at' = [at EXCEPT ![t] = "unlock"])
        \/ /\ index[t] # MaxSlots /\ at' = at /\ at[t] = "scan"
           /\ index' = [index EXCEPT ![t] = index[t] + 1]
    BY DEF LocalsOK
  <2>2. index[t] \in 0 .. MaxSlots
    BY DEF LocalsOK
  <2>3. \A u \in CacheClients : u # t => at'[u] = at[u]
    BY DEF PlacesOK
  <2> QED BY DEF LocalsOK, PlacesOK
<1>4. CellsOK'
  BY DEF CellsOK
<1> QED BY <1>1, <1>2, <1>3, <1>4

LEMMA TypesCopyOut ==
    ASSUME CacheTypes, NEW t \in CacheClients, Cache!CopyOut(t)
    PROVE  CacheTypes'
<1> USE Bounds DEF CacheTypes, Cache!CopyOut, Cache!Go, Cache!Set, Cache!requestVars,
   Cache!getVars, Cache!storeVars, Cache!localVars, Cache!historyVars, Cache!NextPart,
   Cache!Beyond, Cache!size
<1>1. PlacesOK'
  BY DEF PlacesOK, Stages
<1>2. AsksOK'
  <2> DEFINE b == bytes_size[t]
             left_over == b - (b % MaxBytes)
             next == slots[index[t]].byte_start + MaxBytes + 1
  <2>1. b \in Nat /\ left_over \in Nat
    BY Lefts DEF AsksOK
  <2>2. next \in Nat
    <3>1. slots[index[t]] \in Cell
      BY DEF CellsOK, LocalsOK, Cache!SlotNos
    <3> QED BY <3>1 DEF Cell
  <2>3. \/ bytes_size' = bytes_size /\ byte_start' = byte_start
        \/ /\ bytes_size' = [bytes_size EXCEPT ![t] = left_over]
           /\ byte_start' = [byte_start EXCEPT ![t] = next]
    OBVIOUS
  <2>4. AsksOK /\ UNCHANGED <<inbox, order>>
    OBVIOUS
  <2> HIDE DEF left_over, next, CacheTypes, Cache!CopyOut
  <2>5. byte_start' \in [CacheClients -> Nat] /\ bytes_size' \in [CacheClients -> Nat]
    BY <2>1, <2>2, <2>3, <2>4 DEF AsksOK
  <2> QED BY <2>4, <2>5 DEF AsksOK
<1>3. LocalsOK'
  BY Blocks DEF LocalsOK, PlacesOK, Cache!SlotNos
<1>4. CellsOK'
  <2> DEFINE c == sock[t]
             r == [block |-> slots[index[t]].block, version |-> slots[index[t]].version]
  <2>1. c \in CacheClients
    BY DEF PlacesOK
  <2>2. r \in Reply
    <3>1. slots[index[t]] \in Cell
      BY DEF CellsOK, LocalsOK, Cache!SlotNos
    <3> QED BY <3>1 DEF Cell, Reply
  <2>3. replies' = [replies EXCEPT ![c] =
                        IF bytes_size[t] % MaxBytes = 0 THEN replies[c]
                        ELSE Append(replies[c], r)]
    BY DEF CellsOK
  <2>4. replies[c] \in Seq(Reply) /\ Append(replies[c], r) \in Seq(Reply)
    BY <2>1, <2>2, AppendProperties DEF CellsOK
  <2> HIDE DEF c, r
  <2>5. replies' \in [CacheClients -> Seq(Reply)]
    BY <2>1, <2>3, <2>4 DEF CellsOK
  <2> QED BY <2>5 DEF CellsOK
<1> QED BY <1>1, <1>2, <1>3, <1>4

LEMMA CopyInDoes ==
    ASSUME NEW t \in CacheClients, Cache!CopyIn(t)
    PROVE  /\ slots' = [slots EXCEPT ![index[t]].version = @ + 1]
           /\ file' = [c \in DOMAIN file \cup {Cache!Block(slots[index[t]].byte_start)} |->
                          IF c = Cache!Block(slots[index[t]].byte_start)
                          THEN slots[index[t]].version + 1 ELSE file[c]]
BY DEF Cache!CopyIn

LEMMA TypesCopyIn ==
    ASSUME CacheTypes, NEW t \in CacheClients, Cache!CopyIn(t)
    PROVE  CacheTypes'
<1> USE Bounds DEF CacheTypes, Cache!CopyIn, Cache!Go, Cache!Set, Cache!requestVars,
   Cache!getVars, Cache!storeVars, Cache!localVars, Cache!historyVars, Cache!NextPart,
   Cache!Beyond, Cache!size
<1>1. PlacesOK'
  BY DEF PlacesOK, Stages
<1>2. AsksOK'
  <2> DEFINE b == bytes_size[t]
             left_over == b - (b % MaxBytes)
             next == slots[index[t]].byte_start + MaxBytes + 1
  <2>1. b \in Nat /\ left_over \in Nat
    BY Lefts DEF AsksOK
  <2>2. next \in Nat
    <3>1. slots[index[t]] \in Cell
      BY DEF CellsOK, LocalsOK, Cache!SlotNos
    <3> QED BY <3>1 DEF Cell
  <2>3. \/ bytes_size' = bytes_size /\ byte_start' = byte_start
        \/ /\ bytes_size' = [bytes_size EXCEPT ![t] = left_over]
           /\ byte_start' = [byte_start EXCEPT ![t] = next]
    OBVIOUS
  <2>4. AsksOK /\ UNCHANGED <<inbox, order>>
    OBVIOUS
  <2> HIDE DEF left_over, next, CacheTypes, Cache!CopyIn
  <2>5. byte_start' \in [CacheClients -> Nat] /\ bytes_size' \in [CacheClients -> Nat]
    BY <2>1, <2>2, <2>3, <2>4 DEF AsksOK
  <2> QED BY <2>4, <2>5 DEF AsksOK
<1>3. LocalsOK'
  BY DEF LocalsOK, PlacesOK
<1>4. CellsOK'
  <2> DEFINE i == index[t]
             b == Cache!Block(slots[i].byte_start)
  <2>1. i \in Cache!SlotNos /\ slots \in [Cache!SlotNos -> Cell]
    BY DEF CellsOK, LocalsOK, Cache!SlotNos
  <2>2. slots[i] \in Cell /\ slots[i].byte_start \in Nat /\ slots[i].version + 1 \in Nat
    BY <2>1 DEF Cell
  <2>3. b \in Nat
    BY <2>2, Blocks
  <2>4. /\ slots' = [slots EXCEPT ![i].version = @ + 1]
        /\ file' = [c \in DOMAIN file \cup {b} |->
                       IF c = b THEN slots[i].version + 1 ELSE file[c]]
        /\ CellsOK
    <3>1. CellsOK
      OBVIOUS
    <3> HIDE DEF CacheTypes, Cache!CopyIn
    <3> QED BY <3>1, CopyInDoes, Zenon
  <2> HIDE DEF i, b
  <2>5. slots' \in [Cache!SlotNos -> Cell]
    BY <2>1, <2>4, CellWritten
  <2>6. /\ file' = [c \in DOMAIN file' |-> file'[c]]
        /\ DOMAIN file' \subseteq Nat /\ \A c \in DOMAIN file' : file'[c] \in Nat
    <3>1. DOMAIN file \subseteq Nat /\ \A c \in DOMAIN file : file[c] \in Nat
      BY <2>4 DEF CellsOK
    <3>2. DOMAIN file' = DOMAIN file \cup {b}
      BY <2>4
    <3>3. \A c \in DOMAIN file' : file'[c] = IF c = b THEN slots[i].version + 1 ELSE file[c]
      BY <2>4
    <3>4. file' = [c \in DOMAIN file' |-> file'[c]]
      BY <2>4
    <3> HIDE DEF CacheTypes, Cache!CopyIn
    <3> QED BY <2>2, <2>3, <3>1, <3>2, <3>3, <3>4
  <2> QED BY <2>4, <2>5, <2>6 DEF CellsOK
<1> QED BY <1>1, <1>2, <1>3, <1>4

LEMMA TypesUnlockScan ==
    ASSUME CacheTypes, NEW t \in CacheClients, Cache!UnlockScan(t)
    PROVE  CacheTypes'
<1> USE Bounds DEF CacheTypes, Cache!UnlockScan, Cache!Go, Cache!Set, Cache!requestVars,
   Cache!getVars, Cache!storeVars, Cache!localVars, Cache!historyVars
<1>1. PlacesOK'
  BY DEF PlacesOK, Stages
<1>2. AsksOK'
  BY Lefts, Blocks DEF AsksOK, CellsOK
<1>3. LocalsOK'
  BY DEF LocalsOK, PlacesOK
<1>4. CellsOK'
  BY DEF CellsOK
<1> QED BY <1>1, <1>2, <1>3, <1>4

LEMMA TypesLockStore ==
    ASSUME CacheTypes, NEW t \in CacheClients, Cache!LockStore(t)
    PROVE  CacheTypes'
<1> USE Bounds DEF CacheTypes, Cache!LockStore, Cache!Go, Cache!Set, Cache!requestVars,
   Cache!getVars, Cache!storeVars, Cache!localVars, Cache!historyVars
<1>1. PlacesOK'
  BY DEF PlacesOK, Stages
<1>2. AsksOK'
  BY Lefts, Blocks DEF AsksOK, CellsOK
<1>3. LocalsOK'
  <2>1. /\ index' = [index EXCEPT ![t] = 0] /\ at' = [at EXCEPT ![t] = "fill"]
        /\ least_used_index' = [least_used_index EXCEPT ![t] = -1]
        /\ start' = [start EXCEPT ![t] = byte_start[t]] /\ byte_start[t] \in Nat
        /\ left' = [left EXCEPT ![t] = bytes_size[t]] /\ bytes_size[t] \in Nat
    BY DEF AsksOK
  <2>2. start' \in [CacheClients -> Nat] /\ left' \in [CacheClients -> Nat]
    BY <2>1 DEF LocalsOK
  <2>3. index' \in [CacheClients -> 0 .. MaxSlots]
    BY <2>1 DEF LocalsOK
  <2>4. least_used_index' \in [CacheClients -> Cache!SlotNos \cup {-1}]
    BY <2>1 DEF LocalsOK
  <2>5. \A u \in CacheClients : at'[u] \in {"copy", "claim", "load"} => index'[u] < MaxSlots
    BY <2>1 DEF LocalsOK, PlacesOK
  <2> QED BY <2>2 DEF LocalsOK
<1>4. CellsOK'
  BY DEF CellsOK
<1> QED BY <1>1, <1>2, <1>3, <1>4

LEMMA TypesSeeFree ==
    ASSUME CacheTypes, NEW t \in CacheClients, Cache!SeeFree(t)
    PROVE  CacheTypes'
<1> USE Bounds DEF CacheTypes, Cache!SeeFree, Cache!Go, Cache!Set, Cache!requestVars,
   Cache!getVars, Cache!storeVars, Cache!localVars, Cache!historyVars, Cache!Filling
<1>1. PlacesOK'
  BY DEF PlacesOK, Stages
<1>2. AsksOK'
  BY Lefts, Blocks DEF AsksOK, CellsOK
<1>3. LocalsOK'
  BY DEF LocalsOK, PlacesOK
<1>4. CellsOK'
  BY DEF CellsOK
<1> QED BY <1>1, <1>2, <1>3, <1>4

LEMMA TypesClaim ==
    ASSUME CacheTypes, NEW t \in CacheClients, Cache!Claim(t)
    PROVE  CacheTypes'
<1> USE Bounds DEF CacheTypes, Cache!Claim, Cache!Go, Cache!Set, Cache!requestVars,
   Cache!getVars, Cache!storeVars, Cache!localVars, Cache!historyVars
<1>1. PlacesOK'
  BY DEF PlacesOK, Stages
<1>2. AsksOK'
  BY Lefts, Blocks DEF AsksOK, CellsOK
<1>3. LocalsOK'
  BY DEF LocalsOK
<1>4. CellsOK'
  <2> DEFINE i == index[t]
             s == Cache!Start(start[t])
  <2>1. i \in Cache!SlotNos /\ s \in Nat
    BY Blocks DEF LocalsOK, Cache!SlotNos
  <2>2. slots \in [Cache!SlotNos -> Cell]
        /\ slots' = [slots EXCEPT ![i].is_used = TRUE, ![i].byte_start = s]
    BY DEF CellsOK
  <2> HIDE DEF i, s
  <2>3. slots' \in [Cache!SlotNos -> Cell]
    BY <2>1, <2>2, CellClaimed
  <2> QED BY <2>3 DEF CellsOK
<1> QED BY <1>1, <1>2, <1>3, <1>4

LEMMA TypesLoad ==
    ASSUME CacheTypes, NEW t \in CacheClients, Cache!Load(t)
    PROVE  CacheTypes'
<1> USE Bounds DEF CacheTypes, Cache!Load, Cache!Go, Cache!Set, Cache!requestVars,
   Cache!getVars, Cache!storeVars, Cache!localVars, Cache!historyVars, Cache!Loaded
<1>1. PlacesOK'
  BY DEF PlacesOK, Stages
<1>2. AsksOK'
  BY Lefts, Blocks DEF AsksOK, CellsOK
<1>3. LocalsOK'
  <2> DEFINE rest == left[t] - (left[t] % MaxBytes)
             next == Cache!Start(start[t]) + MaxBytes + 1
  <2>1. rest \in Nat /\ next \in Nat /\ index[t] \in 0 .. MaxSlots - 1
    <3>1. left[t] \in Nat /\ start[t] \in Nat /\ index[t] \in 0 .. MaxSlots - 1
      BY DEF LocalsOK
    <3> HIDE DEF Cache!Load, CacheTypes
    <3>2. Cache!Start(start[t]) \in Nat
      BY <3>1, Blocks
    <3>3. rest \in Nat
      BY <3>1, Lefts
    <3> QED BY <3>1, <3>2, <3>3
  <2>2. /\ at[t] = "load" /\ at' = [at EXCEPT ![t] = "fill"]
        /\ left' = [left EXCEPT ![t] = rest] /\ least_used_index' = least_used_index
        /\ \/ /\ start' = [start EXCEPT ![t] = next] /\ index' = [index EXCEPT ![t] = 1]
           \/ start' = start /\ index' = [index EXCEPT ![t] = index[t] + 1]
    OBVIOUS
  <2> HIDE DEF rest, next
  <2>3. start' \in [CacheClients -> Nat] /\ left' \in [CacheClients -> Nat]
    BY <2>1, <2>2 DEF LocalsOK
  <2>4. index' \in [CacheClients -> 0 .. MaxSlots]
    BY <2>1, <2>2 DEF LocalsOK
  <2>5. \A u \in CacheClients : at'[u] \in {"copy", "claim", "load"} => index'[u] < MaxSlots
    BY <2>2 DEF LocalsOK, PlacesOK
  <2> QED BY <2>3, <2>5 DEF LocalsOK
<1>4. CellsOK'
  <2> DEFINE i == index[t]
             b == Cache!Block(start[t])
             v == Cache!Version(b)
  <2>1. i \in Cache!SlotNos /\ b \in Nat /\ v \in Nat
    BY Blocks, VersionType DEF LocalsOK, Cache!SlotNos
  <2>2. slots \in [Cache!SlotNos -> Cell]
        /\ slots' = [slots EXCEPT ![i].block = b, ![i].version = v]
    BY DEF CellsOK
  <2> HIDE DEF i, b, v, Cache!Load, CacheTypes
  <2>3. slots' \in [Cache!SlotNos -> Cell]
    BY <2>1, <2>2, CellLoaded
  <2> USE DEF Cache!Load, CacheTypes
  <2> QED BY <2>3 DEF CellsOK
<1> QED BY <1>1, <1>2, <1>3, <1>4

LEMMA TypesSeeUsed ==
    ASSUME CacheTypes, NEW t \in CacheClients, Cache!SeeUsed(t)
    PROVE  CacheTypes'
<1> USE Bounds DEF CacheTypes, Cache!SeeUsed, Cache!Go, Cache!Set, Cache!requestVars,
   Cache!getVars, Cache!storeVars, Cache!localVars, Cache!historyVars, Cache!Filling
<1>1. PlacesOK'
  BY DEF PlacesOK, Stages
<1>2. AsksOK'
  BY Lefts, Blocks DEF AsksOK, CellsOK
<1>3. LocalsOK'
  <2>1. /\ index' = [index EXCEPT ![t] = index[t] + 1] /\ at' = at /\ at[t] = "fill"
        /\ least_used_index' = [least_used_index EXCEPT ![t] =
               IF least_used_index[t] = -1 THEN index[t] ELSE least_used_index[t]]
        /\ index[t] \in Cache!SlotNos /\ index[t] + 1 \in 0 .. MaxSlots
    BY DEF LocalsOK, Cache!SlotNos
  <2>2. /\ index' \in [CacheClients -> 0 .. MaxSlots]
        /\ \A u \in CacheClients : u # t => index'[u] = index[u]
    BY <2>1 DEF LocalsOK
  <2>3. least_used_index' \in [CacheClients -> Cache!SlotNos \cup {-1}]
    BY <2>1 DEF LocalsOK
  <2> QED BY <2>1, <2>2, <2>3 DEF LocalsOK
<1>4. CellsOK'
  BY DEF CellsOK
<1> QED BY <1>1, <1>2, <1>3, <1>4

LEMMA TypesEvict ==
    ASSUME CacheTypes, NEW t \in CacheClients, Cache!Evict(t)
    PROVE  CacheTypes'
<1> USE Bounds DEF CacheTypes, Cache!Evict, Cache!Go, Cache!Set, Cache!requestVars,
   Cache!getVars, Cache!storeVars, Cache!localVars, Cache!historyVars, Cache!Full,
   Cache!Loaded
<1>1. PlacesOK'
  BY DEF PlacesOK, Stages
<1>2. AsksOK'
  BY Lefts, Blocks DEF AsksOK, CellsOK
<1>3. LocalsOK'
  BY Blocks DEF LocalsOK
<1>4. CellsOK'
  <2> DEFINE i == least_used_index[t]
             s == Cache!Start(start[t])
             v == Cache!Version(0)
  <2>1. i \in Cache!SlotNos /\ s \in Nat /\ v \in Nat
    BY Blocks, VersionType DEF LocalsOK, Cache!SlotNos
  <2>2. slots \in [Cache!SlotNos -> Cell] /\ slots[i] \in Cell
        /\ slots' = [[slots EXCEPT ![i].block = 0, ![i].version = v]
                        EXCEPT ![i].byte_start = s]
    BY <2>1 DEF CellsOK
  <2> HIDE DEF i, s, v
  <2>3. slots' \in [Cache!SlotNos -> Cell]
    BY <2>1, <2>2, CellEvicted
  <2> QED BY <2>3 DEF CellsOK
<1> QED BY <1>1, <1>2, <1>3, <1>4

LEMMA TypesCrashInStore ==
    ASSUME CacheTypes, NEW t \in CacheClients, Cache!CrashInStore(t)
    PROVE  CacheTypes'
<1> USE Bounds DEF CacheTypes, Cache!CrashInStore, Cache!Go, Cache!Set,
   Cache!requestVars, Cache!getVars, Cache!storeVars, Cache!localVars, Cache!historyVars,
   Cache!Full
<1>1. PlacesOK'
  BY DEF PlacesOK, Stages
<1>2. AsksOK'
  BY Lefts, Blocks DEF AsksOK, CellsOK
<1>3. LocalsOK'
  BY DEF LocalsOK
<1>4. CellsOK'
  BY DEF CellsOK
<1> QED BY <1>1, <1>2, <1>3, <1>4

LEMMA TypesStoreDone ==
    ASSUME CacheTypes, NEW t \in CacheClients, Cache!StoreDone(t)
    PROVE  CacheTypes'
<1> USE Bounds DEF CacheTypes, Cache!StoreDone, Cache!Go, Cache!Set, Cache!requestVars,
   Cache!getVars, Cache!storeVars, Cache!localVars, Cache!historyVars
<1>1. PlacesOK'
  BY DEF PlacesOK, Stages
<1>2. AsksOK'
  BY Lefts, Blocks DEF AsksOK, CellsOK
<1>3. LocalsOK'
  BY DEF LocalsOK, PlacesOK, Cache!SlotNos
<1>4. CellsOK'
  BY DEF CellsOK
<1> QED BY <1>1, <1>2, <1>3, <1>4

(* A step that leaves the slots alone and concerns one thread.             *)
LeavesSlots(t) ==
    /\ slots' = slots /\ file' = file /\ at[t] # "load" /\ at'[t] # "load"
    /\ \A u \in CacheClients : u # t =>
          /\ at'[u] = at[u] /\ order'[u] = order[u] /\ index'[u] = index[u]
          /\ byte_start'[u] = byte_start[u] /\ bytes_size'[u] = bytes_size[u]
          /\ start'[u] = start[u] /\ left'[u] = left[u]
          /\ cache_mutex' = u <=> cache_mutex = u

LEMMA CacheFrame ==
    ASSUME CacheTypes, Calm, NEW t \in CacheClients, LeavesSlots(t), Mine(t)'
    PROVE  Calm'
<1> USE DEF LeavesSlots
<1>1. ASSUME NEW u \in CacheClients, u # t PROVE Mine(u)'
  <2>0. /\ at'[u] = at[u] /\ order'[u] = order[u] /\ index'[u] = index[u]
        /\ byte_start'[u] = byte_start[u] /\ bytes_size'[u] = bytes_size[u]
        /\ start'[u] = start[u] /\ left'[u] = left[u]
        /\ cache_mutex' = u <=> cache_mutex = u
    BY <1>1
  <2>1. Mine(u)
    BY DEF Calm
  <2>2. Holds(u)'
    BY <2>1 DEF Mine, Holds, Storing, Scanning
  <2>3. WillFind(u)'
    BY <2>1 DEF Mine, WillFind, Looking, Needs, Ready, Wanted, Settled
  <2>4. HasPassed(u)'
    BY <2>1 DEF Mine, HasPassed, Looking, Needs, Passed, Wanted
  <2>5. HasFound(u)'
    BY <2>1 DEF Mine, HasFound, Wanted
  <2>6. Stores(u)'
    BY <2>1 DEF Mine, Stores, Storing, Wanted
  <2> QED BY <2>2, <2>3, <2>4, <2>5, <2>6 DEF Mine
<1>2. Slots'
  <2>1. \A i \in Cache!SlotNos : (\E u \in CacheClients : at[u] = "load" /\ index[u] = i)
                            => \E u \in CacheClients : at'[u] = "load" /\ index'[u] = i
    OBVIOUS
  <2> QED BY DEF Calm, Slots, Settled, Foremost, Cache!Version
<1> QED BY <1>1, <1>2 DEF Calm

(* Every slot in use has the start of a block, and a thread sees its block *)
(* just in a slot with the block it wants.                                 *)
LEMMA Aligned ==
    ASSUME CacheTypes, Calm, NEW i \in Cache!SlotNos, slots[i].is_used
    PROVE  slots[i].byte_start \in Nat /\ slots[i].byte_start = Cache!Start(slots[i].byte_start)
<1>1. slots[i].byte_start \in Nat
  BY DEF CacheTypes, CellsOK, Cell
<1>2. CASE Settled(i)
  BY <1>1, <1>2 DEF Settled
<1>3. ASSUME NEW t \in CacheClients, at[t] = "load", index[t] = i
      PROVE  slots[i].byte_start = Cache!Start(slots[i].byte_start)
  <2>1. slots[i].byte_start = Cache!Start(start[t]) /\ start[t] \in Nat
    BY <1>3 DEF Calm, Mine, Stores, CacheTypes, LocalsOK
  <2> QED BY <2>1, Blocks
<1> QED BY <1>1, <1>2, <1>3 DEF Calm, Slots

LEMMA HitMeans ==
    ASSUME CacheTypes, Calm, NEW t \in CacheClients, index[t] \in Cache!SlotNos
    PROVE  Cache!Hit(t) <=> /\ slots[index[t]].is_used
                            /\ slots[index[t]].byte_start = Wanted(t)
<1>1. byte_start[t] \in Nat
  BY DEF CacheTypes, AsksOK
<1>2. /\ Wanted(t) <= byte_start[t] /\ byte_start[t] < Wanted(t) + MaxBytes /\ Wanted(t) \in Nat
      /\ \A s \in Nat : s = Cache!Start(s) /\ byte_start[t] \in s .. s + MaxBytes - 1
                                => Wanted(t) = s
  BY <1>1, Blocks DEF Wanted
<1>3. slots[index[t]].is_used => /\ slots[index[t]].byte_start \in Nat
                                 /\ slots[index[t]].byte_start
                                      = Cache!Start(slots[index[t]].byte_start)
  BY Aligned
<1> QED BY <1>1, <1>2, <1>3, Bounds DEF Cache!Hit

(* So does one that takes its thread away from the slots.                  *)
LEMMA CalmAway ==
    ASSUME CacheTypes, Calm, NEW t \in CacheClients, LeavesSlots(t),
           at'[t] \in {"read_sock", "recv", "lock", "store"}, cache_mutex' # t
    PROVE  Calm'
<1>1. Mine(t)'
  BY DEF Mine, Holds, WillFind, HasPassed, HasFound, Stores, Looking, Storing
<1> QED BY <1>1, CacheFrame

LEMMA CalmAccept ==
    ASSUME CacheTypes, Writes, Calm, NEW t \in CacheClients, Cache!Accept(t), ~ stolen'
    PROVE  Calm'
<1>1. LeavesSlots(t)
  BY DEF LeavesSlots, Cache!Accept, Cache!Go, Cache!getVars, Cache!storeVars,
     Cache!localVars
<1>2. at'[t] \in {"read_sock", "recv", "lock", "store"} /\ cache_mutex' # t
  BY DEF CacheTypes, PlacesOK, Calm, Mine, Holds, Storing, Scanning, Cache!Accept, Cache!Go
<1> QED BY <1>1, <1>2, CalmAway

LEMMA CalmReadSock ==
    ASSUME CacheTypes, Writes, Calm, NEW t \in CacheClients, Cache!ReadSock(t), ~ stolen'
    PROVE  Calm'
<1>1. LeavesSlots(t)
  BY DEF LeavesSlots, Cache!ReadSock, Cache!Go, Cache!getVars, Cache!storeVars,
     Cache!localVars
<1>2. at'[t] \in {"read_sock", "recv", "lock", "store"} /\ cache_mutex' # t
  BY DEF Calm, Mine, Holds, Storing, Scanning, Cache!ReadSock, Cache!Go
<1> QED BY <1>1, <1>2, CalmAway

LEMMA CalmReceive ==
    ASSUME CacheTypes, Writes, Calm, NEW t \in CacheClients, Cache!Receive(t), ~ stolen'
    PROVE  Calm'
<1>1. LeavesSlots(t)
  BY DEF LeavesSlots, Cache!Receive, Cache!Go, Cache!Set, Cache!storeVars
<1>2. at'[t] \in {"read_sock", "recv", "lock", "store"} /\ cache_mutex' # t
  BY DEF Calm, Mine, Holds, Storing, Scanning, Cache!Receive, Cache!Go
<1> QED BY <1>1, <1>2, CalmAway

LEMMA CalmLockCache ==
    ASSUME CacheTypes, Writes, Calm, NEW t \in CacheClients, Cache!LockCache(t), ~ stolen'
    PROVE  Calm'
<1>1. LeavesSlots(t)
  BY Bounds DEF LeavesSlots, Cache!LockCache, Cache!Go, Cache!Set, Cache!requestVars,
     Cache!storeVars
<1>2. Mine(t)'
  <2>1. Holds(t)'
    BY DEF CacheTypes, PlacesOK, Holds, Scanning, Cache!LockCache, Cache!Go
  <2>2. WillFind(t)'
    BY DEF WillFind, Cache!LockCache
  <2>3. HasPassed(t)'
    <3>1. index'[t] = 0
      BY DEF CacheTypes, LocalsOK, Cache!LockCache, Cache!Set
    <3> QED BY <3>1 DEF HasPassed, Passed, Cache!SlotNos
  <2>4. HasFound(t)'
    BY DEF HasFound, Cache!LockCache, Cache!Go
  <2>5. Stores(t)'
    BY DEF Stores, Storing, Cache!LockCache, Cache!Go
  <2> QED BY <2>1, <2>2, <2>3, <2>4, <2>5 DEF Mine
<1> QED BY <1>1, <1>2, CacheFrame

LEMMA CalmScan ==
    ASSUME CacheTypes, Writes, Calm, NEW t \in CacheClients, Cache!Scan(t), ~ stolen'
    PROVE  Calm'
<1>1. LeavesSlots(t)
  BY DEF LeavesSlots, CacheTypes, PlacesOK, LocalsOK, Cache!Scan, Cache!Set,
     Cache!requestVars, Cache!getVars, Cache!storeVars
<1>2. Mine(t)'
  <2>0. /\ at[t] = "scan" /\ index[t] \in 0 .. MaxSlots
        /\ byte_start' = byte_start /\ bytes_size' = bytes_size /\ order' = order
        /\ cache_mutex' = cache_mutex /\ slots' = slots /\ byte_start[t] \in Nat
        /\ \/ at'[t] = "unlock"
           \/ /\ at'[t] = "copy" /\ index'[t] = index[t] /\ Cache!Hit(t)
              /\ index[t] \in Cache!SlotNos
           \/ /\ at'[t] = "scan" /\ index'[t] = index[t] + 1 /\ ~ Cache!Hit(t)
              /\ index[t] \in Cache!SlotNos
    BY Bounds DEF CacheTypes, PlacesOK, AsksOK, LocalsOK, Cache!SlotNos, Cache!Scan,
       Cache!Set, Cache!requestVars, Cache!getVars
  <2>9. Wanted(t)' = Wanted(t) /\ (Needs(t)' <=> Needs(t))
    BY <2>0 DEF Wanted, Needs
  <2>8. ASSUME index[t] \in Cache!SlotNos
        PROVE  Cache!Hit(t) <=> /\ slots[index[t]].is_used
                                /\ slots[index[t]].byte_start = Wanted(t)
    BY <2>0, <2>8, HitMeans
  <2>7. WillFind(t) /\ HasPassed(t) /\ Looking(t)
    BY <2>0 DEF Calm, Mine, Looking
  <2>1. Holds(t)'
    BY DEF CacheTypes, PlacesOK, Holds, Storing, Scanning, Cache!Scan, Cache!Set
  <2>2. WillFind(t)'
    <3> SUFFICES ASSUME Looking(t)', cache_mutex # t, Needs(t)
                 PROVE  \E j \in Cache!SlotNos : index'[t] <= j /\ Ready(t, j)'
      BY <2>0, <2>9 DEF WillFind, Cache!SlotNos
    <3>1. PICK j \in Cache!SlotNos : index[t] <= j /\ Ready(t, j)
      BY <2>7 DEF WillFind
    <3>2. Ready(t, j)'
      BY <2>0, <2>9, <3>1 DEF Ready, Settled
    <3>3. index'[t] <= j
      <4>1. j = index[t] => Cache!Hit(t)
        BY <2>8, <3>1 DEF Ready, Settled
      <4> QED BY <2>0, <3>1, <4>1 DEF Looking, Cache!SlotNos
    <3> QED BY <3>2, <3>3
  <2>3. HasPassed(t)'
    <3> SUFFICES ASSUME Looking(t)', cache_mutex = t \/ Needs(t), NEW k \in Cache!SlotNos,
                        k < index'[t], slots[k].is_used, slots[k].byte_start = Wanted(t)
                 PROVE  FALSE
      BY <2>0, <2>9 DEF HasPassed, Passed
    <3>1. ~ (k < index[t])
      BY <2>7 DEF HasPassed, Passed
    <3>2. k = index[t] /\ ~ Cache!Hit(t)
      BY <2>0, <3>1 DEF Looking, Cache!SlotNos
    <3> QED BY <2>8, <3>2
  <2>4. HasFound(t)'
    BY <2>0, <2>8, <2>9 DEF HasFound
  <2>5. Stores(t)'
    BY DEF CacheTypes, PlacesOK, Stores, Storing, Cache!Scan, Cache!Set
  <2> QED BY <2>1, <2>2, <2>3, <2>4, <2>5 DEF Mine
<1> QED BY <1>1, <1>2, CacheFrame

LEMMA CalmCopyOut ==
    ASSUME CacheTypes, Writes, Calm, NEW t \in CacheClients, Cache!CopyOut(t), ~ stolen'
    PROVE  Calm'
<1>1. LeavesSlots(t)
  BY DEF LeavesSlots, CacheTypes, PlacesOK, AsksOK, LocalsOK, Cache!CopyOut, Cache!Set,
     Cache!requestVars, Cache!storeVars, Cache!NextPart
<1>2. Mine(t)'
  <2>0. ASSUME Looking(t)' PROVE index'[t] = 0 /\ ~ Needs(t)'
    <3>1. /\ order'[t].op = "r" /\ index' = [index EXCEPT ![t] = 0]
          /\ bytes_size' = [bytes_size EXCEPT ![t] = @ - (@ % MaxBytes)]
      BY <2>0 DEF CacheTypes, PlacesOK, Looking, Cache!CopyOut, Cache!NextPart,
         Cache!size, Cache!Set, Cache!requestVars
    <3>2. bytes_size[t] \in Nat /\ bytes_size'[t] = bytes_size[t] - (bytes_size[t] % MaxBytes)
      BY <3>1 DEF CacheTypes, AsksOK
    <3>3. bytes_size'[t] % MaxBytes = 0
      BY <3>2, Lefts
    <3>4. index'[t] = 0
      BY <3>1 DEF CacheTypes, LocalsOK
    <3> QED BY <3>1, <3>3, <3>4 DEF Needs
  <2>1. Holds(t)'
    BY DEF CacheTypes, PlacesOK, Holds, Storing, Scanning, Cache!CopyOut, Cache!Set,
       Cache!NextPart
  <2>2. WillFind(t)'
    <3> SUFFICES ASSUME Looking(t)' PROVE ~ Needs(t)'
      BY DEF WillFind
    <3> QED BY <2>0
  <2>3. HasPassed(t)'
    <3> SUFFICES ASSUME Looking(t)' PROVE Passed(t)'
      BY DEF HasPassed
    <3> QED BY <2>0 DEF Passed, Cache!SlotNos
  <2>4. HasFound(t)'
    BY DEF CacheTypes, PlacesOK, HasFound, Cache!CopyOut, Cache!Set, Cache!NextPart
  <2>5. Stores(t)'
    BY DEF CacheTypes, PlacesOK, Stores, Storing, Cache!CopyOut, Cache!Set, Cache!NextPart
  <2> QED BY <2>1, <2>2, <2>3, <2>4, <2>5 DEF Mine
<1> QED BY <1>1, <1>2, CacheFrame

LEMMA CalmUnlockScan ==
    ASSUME CacheTypes, Writes, Calm, NEW t \in CacheClients, Cache!UnlockScan(t), ~ stolen'
    PROVE  Calm'
<1>1. LeavesSlots(t)
  BY Bounds DEF LeavesSlots, CacheTypes, PlacesOK, Cache!UnlockScan, Cache!Go,
     Cache!requestVars, Cache!getVars, Cache!storeVars, Cache!localVars
<1>2. at'[t] \in {"read_sock", "recv", "lock", "store"} /\ cache_mutex' # t
  BY Bounds DEF CacheTypes, PlacesOK, Cache!UnlockScan, Cache!Go
<1> QED BY <1>1, <1>2, CalmAway

LEMMA CalmLockStore ==
    ASSUME CacheTypes, Writes, Calm, NEW t \in CacheClients, Cache!LockStore(t), ~ stolen'
    PROVE  Calm'
<1>1. LeavesSlots(t)
  BY Bounds DEF LeavesSlots, Cache!LockStore, Cache!Go, Cache!Set, Cache!requestVars,
     Cache!getVars
<1>2. Mine(t)'
  <2>1. Holds(t)'
    BY DEF CacheTypes, PlacesOK, Holds, Storing, Cache!LockStore, Cache!Go
  <2>2. WillFind(t)'
    BY DEF WillFind, Cache!LockStore
  <2>3. HasPassed(t)'
    BY DEF HasPassed, Looking, Cache!LockStore, Cache!Go
  <2>4. HasFound(t)'
    BY DEF HasFound, Cache!LockStore, Cache!Go
  <2>5. Stores(t)'
    <3>1. /\ at'[t] = "fill" /\ index'[t] = 0
          /\ left'[t] = bytes_size'[t] /\ start'[t] = byte_start'[t]
      BY DEF CacheTypes, PlacesOK, LocalsOK, Cache!LockStore, Cache!Go, Cache!Set,
         Cache!getVars
    <3> QED BY <3>1 DEF Stores, Cache!SlotNos
  <2> QED BY <2>1, <2>2, <2>3, <2>4, <2>5 DEF Mine
<1> QED BY <1>1, <1>2, CacheFrame

LEMMA CalmSeeFree ==
    ASSUME CacheTypes, Writes, Calm, NEW t \in CacheClients, Cache!SeeFree(t), ~ stolen'
    PROVE  Calm'
<1>1. LeavesSlots(t)
  BY DEF LeavesSlots, Cache!SeeFree, Cache!Set, Cache!requestVars, Cache!getVars,
     Cache!storeVars, Cache!localVars, Cache!Filling
<1>2. Mine(t)'
  <2>1. Holds(t)'
    BY DEF Calm, Mine, Holds, Storing, Cache!SeeFree, Cache!Set, Cache!Filling
  <2>2. WillFind(t)'
    BY DEF WillFind, Looking, Cache!SeeFree, Cache!Set, Cache!Filling
  <2>3. HasPassed(t)'
    BY DEF HasPassed, Looking, Cache!SeeFree, Cache!Set, Cache!Filling
  <2>4. HasFound(t)'
    BY DEF HasFound, Cache!SeeFree, Cache!Set, Cache!Filling
  <2>5. Stores(t)'
    <3>1. /\ at[t] = "fill" /\ at'[t] = "claim" /\ index' = index /\ slots' = slots
          /\ left' = left /\ start' = start /\ byte_start' = byte_start
          /\ bytes_size' = bytes_size /\ ~ slots[index[t]].is_used
      BY DEF CacheTypes, PlacesOK, Cache!SeeFree, Cache!Filling, Cache!Set,
         Cache!getVars, Cache!storeVars, Cache!localVars
    <3>2. Wanted(t)' = Wanted(t)
      BY <3>1 DEF Wanted, Cache!Start, Cache!Block
    <3>3. Stores(t)
      BY DEF Calm, Mine
    <3> QED BY <3>1, <3>2, <3>3 DEF Stores, Storing
  <2> QED BY <2>1, <2>2, <2>3, <2>4, <2>5 DEF Mine
<1> QED BY <1>1, <1>2, CacheFrame

LEMMA CalmSeeUsed ==
    ASSUME CacheTypes, Writes, Calm, NEW t \in CacheClients, Cache!SeeUsed(t), ~ stolen'
    PROVE  Calm'
<1>1. LeavesSlots(t)
  BY DEF LeavesSlots, Cache!SeeUsed, Cache!Set, Cache!requestVars, Cache!getVars,
     Cache!Filling
<1>2. Mine(t)'
  <2>1. Holds(t)'
    BY DEF Calm, Mine, Holds, Storing, Cache!SeeUsed, Cache!Filling
  <2>2. WillFind(t)'
    BY DEF WillFind, Looking, Cache!SeeUsed, Cache!Filling
  <2>3. HasPassed(t)'
    BY DEF HasPassed, Looking, Cache!SeeUsed, Cache!Filling
  <2>4. HasFound(t)'
    BY DEF HasFound, Cache!SeeUsed, Cache!Filling
  <2>5. Stores(t)'
    <3>1. /\ at[t] = "fill" /\ at' = at /\ index'[t] = index[t] + 1 /\ slots' = slots
          /\ left' = left /\ start' = start /\ byte_start' = byte_start
          /\ bytes_size' = bytes_size /\ slots[index[t]].is_used /\ index[t] \in Nat
      BY DEF CacheTypes, LocalsOK, Cache!SeeUsed, Cache!Filling, Cache!Set, Cache!getVars
    <3>2. Wanted(t)' = Wanted(t)
      BY <3>1 DEF Wanted, Cache!Start, Cache!Block
    <3>3. Stores(t)
      BY DEF Calm, Mine
    <3>4. \A k \in Cache!SlotNos : k < index'[t] => slots[k].is_used
      BY <3>1, <3>3 DEF Stores, Storing, Cache!SlotNos
    <3> QED BY <3>1, <3>2, <3>3, <3>4 DEF Stores, Storing
  <2> QED BY <2>1, <2>2, <2>3, <2>4, <2>5 DEF Mine
<1> QED BY <1>1, <1>2, CacheFrame

LEMMA CalmStoreDone ==
    ASSUME CacheTypes, Writes, Calm, NEW t \in CacheClients, Cache!StoreDone(t), ~ stolen'
    PROVE  Calm'
<1>1. LeavesSlots(t)
  BY Bounds DEF LeavesSlots, Calm, Mine, Holds, Storing, Cache!StoreDone, Cache!Set,
     Cache!requestVars, Cache!getVars, Cache!storeVars
<1>2. Mine(t)'
  <2>1. Holds(t)'
    BY Bounds DEF CacheTypes, PlacesOK, Holds, Storing, Cache!StoreDone, Cache!Set
  <2>2. WillFind(t)'
    <3> SUFFICES ASSUME Needs(t)'
                 PROVE  \E j \in Cache!SlotNos : index'[t] <= j /\ Ready(t, j)'
      BY DEF WillFind
    <3>1. /\ at[t] = "fill" /\ index'[t] = 0 /\ left[t] = 0 /\ slots' = slots
          /\ byte_start' = byte_start /\ bytes_size' = bytes_size /\ order' = order
      BY DEF CacheTypes, LocalsOK, Cache!StoreDone, Cache!Set, Cache!requestVars,
         Cache!getVars
    <3>2. bytes_size[t] > 0 /\ bytes_size[t] \in Nat
      <4>1. bytes_size[t] \in Nat /\ Storing(t)
        BY <3>1 DEF CacheTypes, AsksOK, Storing
      <4>2. bytes_size[t] % MaxBytes \in Nat /\ bytes_size[t] % MaxBytes <= bytes_size[t]
        BY <4>1, Lefts
      <4> QED BY <3>1, <4>1, <4>2 DEF Needs, Writes
    <3>3. PICK j \in Cache!SlotNos : slots[j].byte_start = Wanted(t) /\ slots[j].is_used
      BY <3>1, <3>2 DEF Calm, Mine, Stores, Storing
    <3>4. \A u \in CacheClients : at[u] # "load"
      BY <3>1 DEF Calm, Mine, Holds, Storing
    <3>5. \A k \in Cache!SlotNos : k <= j => Settled(k)
      <4> TAKE k \in Cache!SlotNos
      <4> HAVE k <= j
      <4>1. slots[k].is_used
        BY <3>3 DEF Calm, Slots, Cache!SlotNos
      <4> QED BY <3>4, <4>1 DEF Calm, Slots
    <3>6. Ready(t, j)'
      BY <3>1, <3>3, <3>5 DEF Ready, Settled, Wanted
    <3> QED BY <3>1, <3>6 DEF Cache!SlotNos
  <2>3. HasPassed(t)'
    <3>1. index'[t] = 0
      BY DEF CacheTypes, LocalsOK, Cache!StoreDone, Cache!Set
    <3> QED BY <3>1 DEF HasPassed, Passed, Cache!SlotNos
  <2>4. HasFound(t)'
    BY DEF HasFound, Cache!StoreDone, Cache!Set
  <2>5. Stores(t)'
    BY DEF CacheTypes, PlacesOK, Stores, Storing, Cache!StoreDone, Cache!Set
  <2> QED BY <2>1, <2>2, <2>3, <2>4, <2>5 DEF Mine
<1> QED BY <1>1, <1>2, CacheFrame

(* Who stores has the mutex, so that nobody else stores or loads.          *)
LEMMA Alone ==
    ASSUME Calm, NEW t \in CacheClients, Storing(t)
    PROVE  cache_mutex = t /\ \A u \in CacheClients : u # t => ~ Storing(u)
BY DEF Calm, Mine, Holds

LEMMA CalmClaim ==
    ASSUME CacheTypes, Calm, NEW t \in CacheClients, Cache!Claim(t)
    PROVE  Calm'
<1>0. PICK i \in Cache!SlotNos : i = index[t]
  BY Bounds DEF CacheTypes, LocalsOK, Cache!SlotNos, Cache!Claim, Cache!Go
<1>1. /\ at[t] = "claim" /\ at' = [at EXCEPT ![t] = "load"]
      /\ start[t] \in Nat
      /\ slots' = [slots EXCEPT ![i].is_used = TRUE,
                                ![i].byte_start = Cache!Start(start[t])]
  BY <1>0 DEF CacheTypes, LocalsOK, Cache!Claim, Cache!Go
<1>2. /\ order' = order /\ byte_start' = byte_start /\ bytes_size' = bytes_size
      /\ index' = index /\ start' = start /\ left' = left
      /\ file' = file /\ cache_mutex' = cache_mutex
  BY DEF Cache!Claim, Cache!requestVars, Cache!getVars, Cache!storeVars, Cache!localVars
<1>3. at'[t] = "load" /\ \A u \in CacheClients : u # t => at'[u] = at[u]
  BY <1>1 DEF CacheTypes, PlacesOK
<1>4. Cache!Start(start[t]) \in Nat
  BY <1>1, Blocks
<1>5. /\ \A k \in Cache!SlotNos : k # i => slots'[k] = slots[k]
      /\ slots'[i].is_used /\ slots'[i].byte_start = Cache!Start(start[t])
      /\ slots'[i].block = slots[i].block
  BY <1>1, <1>4 DEF CacheTypes, CellsOK
<1>6. cache_mutex = t /\ \A u \in CacheClients : u # t => ~ Storing(u)
  BY <1>1, Alone DEF Storing
<1>7. Slots /\ Mine(t) /\ ~ slots[i].is_used /\ slots[i].block = -1
  BY <1>0, <1>1 DEF Calm, Mine, Stores, Slots
<1>8. ~ Settled(i)'
  <2>1. Cache!Block(Cache!Start(start[t])) \in Nat
    BY <1>4, Blocks
  <2>2. slots'[i].block = -1 /\ slots'[i].byte_start = Cache!Start(start[t])
    BY <1>5, <1>7
  <2> QED BY <2>1, <2>2 DEF Settled
<1>9. \A k \in Cache!SlotNos : slots[k].is_used => k # i /\ slots'[k] = slots[k]
  BY <1>5, <1>7
<1>10. \A k \in Cache!SlotNos : Settled(k) => slots'[k] = slots[k] /\ Settled(k)'
  BY <1>9 DEF Settled, Cache!Block, Cache!Start
<1>11. Slots'
  <2>1. ASSUME NEW k \in Cache!SlotNos, slots'[k].is_used
        PROVE  \/ Settled(k)'
               \/ \E u \in CacheClients : at'[u] = "load" /\ index'[u] = k
    <3>1. CASE k = i
      BY <1>2, <1>3, <3>1, <1>0
    <3>2. CASE k # i
      <4>1. slots[k].is_used
        BY <1>5, <2>1, <3>2
      <4>2. Settled(k) \/ \E u \in CacheClients : u # t /\ at[u] = "load" /\ index[u] = k
        BY <1>1, <1>7, <4>1 DEF Slots
      <4> QED BY <1>2, <1>3, <1>10, <4>2
    <3> QED BY <3>1, <3>2
  <2>2. ASSUME NEW k \in Cache!SlotNos, ~ slots'[k].is_used PROVE slots'[k].block = -1
    BY <1>5, <1>7, <2>2 DEF Slots
  <2>3. ASSUME NEW n \in Cache!SlotNos, NEW k \in Cache!SlotNos, slots'[n].is_used, k < n
        PROVE  slots'[k].is_used
    <3>1. slots[k].is_used
      <4>1. CASE n = i
        BY <1>1, <1>7, <2>3, <4>1, <1>0 DEF Mine, Stores, Storing
      <4>2. CASE n # i
        BY <1>5, <1>7, <2>3, <4>2 DEF Slots
      <4> QED BY <4>1, <4>2
    <3> QED BY <1>9, <2>3, <3>1
  <2>4. ASSUME NEW k \in Cache!SlotNos, Settled(k)', Foremost(k)'
        PROVE  slots'[k].version = Cache!Version(slots[k].block)'
    <3>1. k # i
      BY <1>8, <2>4
    <3>2. slots'[k] = slots[k] /\ Settled(k)
      BY <1>5, <2>4, <3>1 DEF Settled
    <3>3. Foremost(k)
      BY <1>9, <2>4, <3>2 DEF Foremost
    <3>4. slots[k].version = Cache!Version(slots[k].block)
      BY <1>7, <3>2, <3>3 DEF Slots
    <3> QED BY <1>2, <3>2, <3>4 DEF Cache!Version
  <2> QED BY <2>1, <2>2, <2>3, <2>4 DEF Slots
<1>12. ASSUME NEW u \in CacheClients, u # t PROVE Mine(u)'
  <2>1. /\ at'[u] = at[u] /\ Mine(u) /\ ~ Storing(u) /\ cache_mutex # u
        /\ Wanted(u)' = Wanted(u) /\ (Needs(u)' <=> Needs(u))
    BY <1>2, <1>3, <1>6, <1>12 DEF Calm, Wanted, Needs
  <2>2. Holds(u)'
    BY <1>2, <2>1 DEF Holds, Storing
  <2>3. ASSUME Looking(u), Needs(u)
        PROVE  \E j \in Cache!SlotNos : /\ index[u] <= j /\ Ready(u, j) /\ Ready(u, j)'
                                        /\ \A k \in Cache!SlotNos : k <= j => k # i
    <3>1. PICK j \in Cache!SlotNos : index[u] <= j /\ Ready(u, j)
      BY <2>1, <2>3 DEF Mine, WillFind
    <3>2. \A k \in Cache!SlotNos : k <= j => Settled(k)' /\ k # i /\ slots'[k] = slots[k]
      BY <1>9, <3>1 DEF Ready, Settled
    <3>3. j <= j
      BY DEF Cache!SlotNos
    <3>4. Ready(u, j)'
      BY <2>1, <3>1, <3>2, <3>3 DEF Ready
    <3> QED BY <3>1, <3>2, <3>4
  <2>4. WillFind(u)'
    <3>1. Looking(u)' = Looking(u) /\ index'[u] = index[u]
      BY <1>2, <2>1 DEF Looking
    <3> QED BY <2>1, <2>3, <3>1 DEF WillFind
  <2>5. HasPassed(u)'
    <3> SUFFICES ASSUME Looking(u), Needs(u), NEW k \in Cache!SlotNos, k < index[u],
                        slots'[k].is_used
                 PROVE  slots'[k].byte_start # Wanted(u)
      BY <1>2, <2>1 DEF HasPassed, Passed, Looking
    <3>1. k # i
      <4>1. PICK j \in Cache!SlotNos : /\ index[u] <= j
                                       /\ \A n \in Cache!SlotNos : n <= j => n # i
        BY <2>3
      <4>2. index[u] \in Int
        BY Bounds DEF CacheTypes, LocalsOK
      <4> QED BY <4>1, <4>2 DEF Cache!SlotNos
    <3> QED BY <1>5, <2>1, <3>1 DEF Mine, HasPassed, Passed
  <2>6. HasFound(u)'
    <3>1. at[u] = "copy" => index[u] \in Cache!SlotNos
      BY Bounds DEF CacheTypes, LocalsOK, Cache!SlotNos
    <3> QED BY <1>2, <1>9, <2>1, <3>1 DEF Mine, HasFound
  <2>7. Stores(u)'
    BY <2>1 DEF Stores, Storing
  <2> QED BY <2>2, <2>4, <2>5, <2>6, <2>7 DEF Mine
<1>13. Mine(t)'
  <2>1. Holds(t)'
    BY <1>2, <1>3, <1>6 DEF Holds, Storing
  <2>2. Stores(t)'
    <3>1. Stores(t) /\ Storing(t) /\ Wanted(t)' = Wanted(t)
      BY <1>1, <1>2, <1>7 DEF Mine, Storing, Wanted
    <3>2. bytes_size'[t] > 0 =>
            \/ left'[t] = bytes_size'[t] /\ start'[t] = byte_start'[t]
            \/ \E j \in Cache!SlotNos :
                  /\ slots'[j].byte_start = Wanted(t)' /\ slots'[j].is_used
                  /\ ~ (at'[t] = "load" /\ index'[t] = j)
      <4> SUFFICES ASSUME bytes_size[t] > 0,
                          ~ (left[t] = bytes_size[t] /\ start[t] = byte_start[t])
                   PROVE  \E j \in Cache!SlotNos :
                             /\ slots'[j].byte_start = Wanted(t)' /\ slots'[j].is_used
                             /\ ~ (at'[t] = "load" /\ index'[t] = j)
        BY <1>2
      <4>1. PICK j \in Cache!SlotNos : slots[j].byte_start = Wanted(t) /\ slots[j].is_used
        BY <3>1 DEF Stores
      <4>2. j # index[t] /\ slots'[j] = slots[j]
        BY <1>9, <4>1, <1>0
      <4> QED BY <1>2, <3>1, <4>1, <4>2
    <3>3. \A k \in Cache!SlotNos : k < index'[t] => slots'[k].is_used
      BY <1>2, <1>9, <3>1 DEF Stores
    <3>4. slots'[index'[t]].is_used /\ slots'[index'[t]].byte_start = Cache!Start(start[t])
      BY <1>0, <1>2, <1>5
    <3>5. Cache!Start(start[t])' = Cache!Start(start[t])
      BY <1>2 DEF Cache!Start, Cache!Block
    <3>6. at'[t] # "claim"
      BY <1>3
    <3> QED BY <3>2, <3>3, <3>4, <3>5, <3>6 DEF Stores
  <2>3. WillFind(t)' /\ HasPassed(t)' /\ HasFound(t)'
    BY <1>3 DEF WillFind, HasPassed, HasFound, Looking
  <2> QED BY <2>1, <2>2, <2>3 DEF Mine
<1> QED BY <1>11, <1>12, <1>13 DEF Calm

LEMMA CalmLoad ==
    ASSUME CacheTypes, Calm, NEW t \in CacheClients, Cache!Load(t)
    PROVE  Calm'
<1>0. PICK i \in Cache!SlotNos : i = index[t]
  BY Bounds DEF CacheTypes, LocalsOK, Cache!SlotNos, Cache!Load, Cache!Go
<1>1. /\ at[t] = "load" /\ at' = [at EXCEPT ![t] = "fill"] /\ start[t] \in Nat
      /\ slots' = [slots EXCEPT ![i].block = Cache!Block(start[t]),
                                ![i].version = Cache!Version(Cache!Block(start[t]))]
      /\ index'[t] \in {1, i + 1}
  <2>1. index' = [index EXCEPT ![t] = 1] \/ index' = [index EXCEPT ![t] = index[t] + 1]
    BY DEF Cache!Load, Cache!Set
  <2>2. index'[t] \in {1, i + 1}
    BY <1>0, <2>1 DEF CacheTypes, LocalsOK
  <2>3. /\ at[t] = "load" /\ at' = [at EXCEPT ![t] = "fill"]
        /\ slots' = [slots EXCEPT ![i].block = Cache!Block(start[t]),
                                  ![i].version = Cache!Version(Cache!Block(start[t]))]
    BY <1>0 DEF Cache!Load, Cache!Loaded, Cache!Go
  <2>4. start[t] \in Nat
    BY DEF CacheTypes, LocalsOK
  <2> QED BY <2>2, <2>3, <2>4
<1>2. /\ order' = order /\ byte_start' = byte_start /\ bytes_size' = bytes_size
      /\ file' = file /\ cache_mutex' = cache_mutex
      /\ \A u \in CacheClients : u # t =>
            /\ index'[u] = index[u] /\ start'[u] = start[u] /\ left'[u] = left[u]
  BY DEF CacheTypes, LocalsOK, Cache!Load, Cache!Set, Cache!requestVars, Cache!getVars
<1>3. at'[t] = "fill" /\ \A u \in CacheClients : u # t => at'[u] = at[u]
  BY <1>1 DEF CacheTypes, PlacesOK
<1>4. Cache!Block(start[t]) \in Nat /\ Cache!Version(Cache!Block(start[t])) \in Nat
  BY <1>1, Blocks, VersionType DEF CacheTypes
<1>5. /\ \A k \in Cache!SlotNos : k # i => slots'[k] = slots[k]
      /\ slots'[i].block = Cache!Block(start[t])
      /\ slots'[i].version = Cache!Version(Cache!Block(start[t]))
      /\ slots'[i].is_used = slots[i].is_used /\ slots'[i].byte_start = slots[i].byte_start
  <2>1. PICK b \in Nat : b = Cache!Block(start[t])
    BY <1>4
  <2>2. PICK v \in Nat : v = Cache!Version(Cache!Block(start[t]))
    BY <1>4
  <2>3. slots' = [slots EXCEPT ![i].block = b, ![i].version = v]
    BY <1>1, <2>1, <2>2
  <2>4. slots \in [Cache!SlotNos -> Cell]
    BY DEF CacheTypes, CellsOK
  <2>5. /\ \A k \in Cache!SlotNos : k # i => slots'[k] = slots[k]
        /\ slots'[i].block = b /\ slots'[i].version = v
        /\ slots'[i].is_used = slots[i].is_used
        /\ slots'[i].byte_start = slots[i].byte_start
    <3> DEFINE c == [slots[i] EXCEPT !.block = b, !.version = v]
    <3>1. /\ c.block = b /\ c.version = v
          /\ c.is_used = slots[i].is_used /\ c.byte_start = slots[i].byte_start
      BY <2>4 DEF Cell
    <3>2. slots' = [slots EXCEPT ![i] = c]
      BY <2>3, <2>4
    <3> HIDE DEF c
    <3> QED BY <2>4, <3>1, <3>2
  <2> QED BY <2>1, <2>2, <2>5
<1>6. cache_mutex = t /\ \A u \in CacheClients : u # t => ~ Storing(u)
  BY <1>1, Alone DEF Storing
<1>7. /\ Slots /\ Mine(t) /\ slots[i].is_used
      /\ slots[i].byte_start = Cache!Start(start[t])
  BY <1>0, <1>1 DEF Calm, Mine, Stores
<1>8. Settled(i)'
  <2>1. slots'[i].is_used /\ slots'[i].block = Cache!Block(start[t])
        /\ slots'[i].byte_start = Cache!Start(start[t])
    BY <1>5, <1>7
  <2>2. /\ Cache!Block(Cache!Start(start[t])) = Cache!Block(start[t])
        /\ Cache!Start(Cache!Start(start[t])) = Cache!Start(start[t])
    BY <1>1, Blocks
  <2> DEFINE p == slots'[i].byte_start
  <2>3. p = Cache!Start(p) /\ slots'[i].block = Cache!Block(p)
    BY <2>1, <2>2
  <2> QED BY <2>1, <2>3 DEF Settled
<1>9. \A k \in Cache!SlotNos : /\ slots'[k].is_used = slots[k].is_used
                               /\ slots'[k].byte_start = slots[k].byte_start
  BY <1>5
<1>10. \A k \in Cache!SlotNos : Settled(k) => Settled(k)'
  BY <1>5, <1>8 DEF Settled
<1>11. Slots'
  <2>1. ASSUME NEW k \in Cache!SlotNos, slots'[k].is_used
        PROVE  \/ Settled(k)'
               \/ \E u \in CacheClients : at'[u] = "load" /\ index'[u] = k
    <3> SUFFICES ASSUME k # i, ~ Settled(k)
                 PROVE  \E u \in CacheClients : at'[u] = "load" /\ index'[u] = k
      BY <1>8, <1>10
    <3>1. PICK u \in CacheClients : at[u] = "load" /\ index[u] = k
      BY <1>7, <1>9, <2>1 DEF Slots
    <3> QED BY <1>0, <1>2, <1>3, <3>1
  <2>2. ASSUME NEW k \in Cache!SlotNos, ~ slots'[k].is_used PROVE slots'[k].block = -1
    BY <1>5, <1>7, <2>2 DEF Slots
  <2>3. \A n, k \in Cache!SlotNos : slots'[n].is_used /\ k < n => slots'[k].is_used
    BY <1>7, <1>9 DEF Slots
  <2>4. ASSUME NEW k \in Cache!SlotNos, Settled(k)', Foremost(k)'
        PROVE  slots'[k].version = Cache!Version(slots[k].block)'
    <3>1. CASE k = i
      <4>1. Cache!Version(slots[k].block)' = Cache!Version(Cache!Block(start[t]))
        BY <1>2, <1>5, <3>1 DEF Cache!Version
      <4> QED BY <1>5, <3>1, <4>1
    <3>2. CASE k # i
      <4>1. slots'[k] = slots[k] /\ Settled(k) /\ Foremost(k)
        BY <1>5, <2>4, <3>2 DEF Settled, Foremost
      <4>2. slots[k].version = Cache!Version(slots[k].block)
        BY <1>7, <4>1 DEF Slots
      <4> QED BY <1>2, <4>1, <4>2 DEF Cache!Version
    <3> QED BY <3>1, <3>2
  <2> QED BY <2>1, <2>2, <2>3, <2>4 DEF Slots
<1>12. ASSUME NEW u \in CacheClients, u # t PROVE Mine(u)'
  <2>1. /\ at'[u] = at[u] /\ Mine(u) /\ ~ Storing(u) /\ index'[u] = index[u]
        /\ Wanted(u)' = Wanted(u) /\ (Needs(u)' <=> Needs(u))
    BY <1>2, <1>3, <1>6, <1>12 DEF Calm, Wanted, Needs
  <2>2. Holds(u)'
    BY <1>2, <2>1 DEF Mine, Holds, Storing, Scanning
  <2>3. WillFind(u)'
    <3>1. \A j \in Cache!SlotNos : Ready(u, j) => Ready(u, j)'
      BY <1>9, <1>10, <2>1 DEF Ready
    <3> QED BY <1>2, <2>1, <3>1 DEF Mine, WillFind, Looking
  <2>4. HasPassed(u)'
    BY <1>2, <1>9, <2>1 DEF Mine, HasPassed, Passed, Looking
  <2>5. HasFound(u)'
    <3>1. at[u] = "copy" => index[u] \in Cache!SlotNos
      BY Bounds DEF CacheTypes, LocalsOK, Cache!SlotNos
    <3> QED BY <1>9, <2>1, <3>1 DEF Mine, HasFound
  <2>6. Stores(u)'
    BY <2>1 DEF Stores, Storing
  <2> QED BY <2>2, <2>3, <2>4, <2>5, <2>6 DEF Mine
<1>13. Mine(t)'
  <2>1. Holds(t)'
    BY <1>2, <1>3, <1>6 DEF Holds, Storing
  <2>2. Stores(t)'
    <3>1. Stores(t) /\ Storing(t) /\ Wanted(t)' = Wanted(t)
      BY <1>1, <1>2, <1>7 DEF Mine, Storing, Wanted
    <3>2. ASSUME bytes_size[t] > 0
          PROVE  \E j \in Cache!SlotNos : slots[j].byte_start = Wanted(t) /\ slots[j].is_used
      <4>1. CASE start[t] = byte_start[t]
        BY <1>7, <4>1 DEF Wanted
      <4>2. CASE start[t] # byte_start[t]
        BY <3>1, <3>2, <4>2 DEF Stores
      <4> QED BY <4>1, <4>2
    <3>3. bytes_size'[t] > 0 => \E j \in Cache!SlotNos :
                /\ slots'[j].byte_start = Wanted(t)' /\ slots'[j].is_used
                /\ ~ (at'[t] = "load" /\ index'[t] = j)
      BY <1>2, <1>3, <1>9, <3>1, <3>2
    <3>4. \A k \in Cache!SlotNos : k < index'[t] => slots'[k].is_used
      <4> SUFFICES ASSUME NEW k \in Cache!SlotNos, k < index'[t] PROVE slots[k].is_used
        BY <1>9
      <4>1. k = i \/ k < i
        BY <1>1 DEF Cache!SlotNos
      <4> QED BY <1>7, <4>1 DEF Slots
    <3> QED BY <1>3, <3>3, <3>4 DEF Stores
  <2>3. WillFind(t)' /\ HasPassed(t)' /\ HasFound(t)'
    BY <1>3 DEF WillFind, HasPassed, HasFound, Looking
  <2> QED BY <2>1, <2>2, <2>3 DEF Mine
<1> QED BY <1>11, <1>12, <1>13 DEF Calm

(* Who copies for a purpose has found the first slot with its block in it. *)
LEMMA Finds ==
    ASSUME CacheTypes, Calm, NEW t \in CacheClients, at[t] = "copy", Needs(t),
           NEW i \in Cache!SlotNos, i = index[t]
    PROVE  /\ Settled(i) /\ Foremost(i) /\ slots[i].byte_start = Wanted(t)
           /\ slots[i].version = Cache!Version(slots[i].block)
<1>1. Mine(t) /\ Looking(t)
  BY DEF Calm, Looking
<1>2. slots[i].is_used /\ slots[i].byte_start = Wanted(t)
  BY <1>1 DEF Mine, HasFound
<1>3. Foremost(i)
  BY <1>1, <1>2 DEF Mine, HasPassed, Passed, Foremost
<1>4. Settled(i)
  <2>1. CASE cache_mutex = t
    <3>1. \A u \in CacheClients : at[u] # "load"
      BY <2>1 DEF Calm, Mine, Holds, Storing
    <3> QED BY <1>2, <3>1 DEF Calm, Slots
  <2>2. CASE cache_mutex # t
    BY <1>1, <2>2 DEF Mine, WillFind, Ready
  <2> QED BY <2>1, <2>2
<1> QED BY <1>2, <1>3, <1>4 DEF Calm, Slots

LEMMA CalmCopyIn ==
    ASSUME CacheTypes, Writes, Calm, NEW t \in CacheClients, Cache!CopyIn(t)
    PROVE  Calm'
<1>0. PICK i \in Cache!SlotNos : i = index[t]
  BY Bounds DEF CacheTypes, LocalsOK, Cache!SlotNos, Cache!CopyIn
<1> DEFINE b == Cache!Block(slots[i].byte_start)
<1>1. /\ at[t] = "copy" /\ order[t].op = "w" /\ Needs(t)
      /\ slots' = [slots EXCEPT ![i].version = @ + 1]
      /\ file' = [c \in DOMAIN file \cup {b} |->
                     IF c = b THEN slots[i].version + 1 ELSE file[c]]
      /\ Cache!NextPart(t)
      /\ order' = order /\ start' = start /\ left' = left /\ cache_mutex' = cache_mutex
  BY <1>0 DEF Cache!CopyIn, Needs, Cache!requestVars, Cache!storeVars
<1>2. Settled(i) /\ Foremost(i) /\ slots[i].byte_start = Wanted(t)
  BY <1>0, <1>1, Finds
<1>3. byte_start[t] \in Nat /\ bytes_size[t] \in Nat /\ Cache!Start(byte_start[t]) = 0
  <2>1. byte_start[t] \in Nat /\ bytes_size[t] \in Nat
    BY DEF CacheTypes, AsksOK
  <2>2. bytes_size[t] > 0 /\ byte_start[t] + bytes_size[t] <= MaxBytes
    BY <1>1 DEF Writes, Scanning
  <2> QED BY <2>1, <2>2, Bounds, Blocks
<1>4. ~ Cache!Beyond(t)
  <2>1. byte_start[t] + bytes_size[t] <= MaxBytes
    BY <1>1 DEF Writes, Scanning
  <2>2. slots[index[t]].byte_start = 0
    BY <1>0, <1>2, <1>3 DEF Wanted
  <2> QED BY <1>3, <2>1, <2>2, Bounds DEF Cache!Beyond
<1>5. /\ at'[t] = "unlock" /\ \A u \in CacheClients : u # t => at'[u] = at[u]
      /\ byte_start' = byte_start /\ bytes_size' = bytes_size /\ index' = index
  BY <1>1, <1>4 DEF Cache!NextPart, Cache!Set, CacheTypes, PlacesOK
<1>6. /\ \A k \in Cache!SlotNos : k # i => slots'[k] = slots[k]
      /\ slots'[i].version = slots[i].version + 1
      /\ \A k \in Cache!SlotNos : /\ slots'[k].is_used = slots[k].is_used
                                  /\ slots'[k].byte_start = slots[k].byte_start
                                  /\ slots'[k].block = slots[k].block
  BY <1>1, CellWritten DEF CacheTypes, CellsOK
<1>7. \A k \in Cache!SlotNos : (Settled(k)' <=> Settled(k)) /\ (Foremost(k)' <=> Foremost(k))
  BY <1>6 DEF Settled, Foremost
<1>8. Slots'
  <2>1. ASSUME NEW k \in Cache!SlotNos, slots'[k].is_used
        PROVE  \/ Settled(k)'
               \/ \E u \in CacheClients : at'[u] = "load" /\ index'[u] = k
    <3>1. Settled(k) \/ \E u \in CacheClients : u # t /\ at[u] = "load" /\ index[u] = k
      BY <1>1, <2>1 DEF Calm, Slots
    <3> QED BY <1>5, <1>7, <3>1
  <2>2. \A k \in Cache!SlotNos : ~ slots'[k].is_used => slots'[k].block = -1
    BY <1>6 DEF Calm, Slots
  <2>3. \A n, k \in Cache!SlotNos : slots'[n].is_used /\ k < n => slots'[k].is_used
    BY <1>6 DEF Calm, Slots
  <2>4. ASSUME NEW k \in Cache!SlotNos, Settled(k)', Foremost(k)'
        PROVE  slots'[k].version = Cache!Version(slots[k].block)'
    <3>1. CASE k = i
      <4>1. slots'[k].block = b
        BY <1>2, <1>6, <3>1 DEF Settled
      <4>2. Cache!Version(slots[k].block)' = slots[i].version + 1
        <5> DEFINE x == slots'[k].block
        <5>1. Cache!Version(slots[k].block)' = IF x \in DOMAIN file' THEN file'[x] ELSE 0
          BY DEF Cache!Version
        <5> HIDE DEF x, b
        <5>2. x = b
          BY <4>1 DEF x
        <5> QED BY <1>1, <5>1, <5>2
      <4> QED BY <1>6, <3>1, <4>2
    <3>2. CASE k # i
      <4>1. Settled(k) /\ Foremost(k) /\ slots'[k] = slots[k]
        BY <1>6, <1>7, <2>4, <3>2
      <4>2. slots[k].version = Cache!Version(slots[k].block)
        BY <4>1 DEF Calm, Slots
      <4>3. slots[k].byte_start # slots[i].byte_start
        <5>1. k < i \/ i < k
          BY <3>2 DEF Cache!SlotNos
        <5> QED BY <1>2, <4>1, <5>1 DEF Settled, Foremost
      <4>4. slots[k].block # b
        <5> SUFFICES ASSUME Cache!Block(slots[k].byte_start) = Cache!Block(slots[i].byte_start)
                     PROVE  slots[k].byte_start = slots[i].byte_start
          BY <4>1, <4>3 DEF Settled
        <5>1. Cache!Start(slots[k].byte_start) = Cache!Start(slots[i].byte_start)
          BY DEF Cache!Start
        <5> QED BY <1>2, <4>1, <5>1 DEF Settled
      <4>5. Cache!Version(slots[k].block)' = Cache!Version(slots[k].block)
        <5> DEFINE x == slots[k].block
        <5>1. Cache!Version(slots[k].block)' = IF x \in DOMAIN file' THEN file'[x] ELSE 0
          BY <4>1 DEF Cache!Version
        <5>2. Cache!Version(slots[k].block) = IF x \in DOMAIN file THEN file[x] ELSE 0
          BY DEF Cache!Version
        <5> HIDE DEF x, b
        <5>3. x # b
          BY <4>4 DEF x
        <5> QED BY <1>1, <5>1, <5>2, <5>3
      <4> QED BY <4>1, <4>2, <4>5
    <3> QED BY <3>1, <3>2
  <2> QED BY <2>1, <2>2, <2>3, <2>4 DEF Slots
<1>9. ASSUME NEW u \in CacheClients, u # t PROVE Mine(u)'
  <2>1. /\ at'[u] = at[u] /\ Mine(u)
        /\ Wanted(u)' = Wanted(u) /\ (Needs(u)' <=> Needs(u))
    BY <1>1, <1>5, <1>9 DEF Calm, Wanted, Needs
  <2>2. Holds(u)'
    BY <1>1, <2>1 DEF Mine, Holds, Storing, Scanning
  <2>3. WillFind(u)'
    <3>1. \A j \in Cache!SlotNos : Ready(u, j) => Ready(u, j)'
      BY <1>6, <1>7, <2>1 DEF Ready
    <3> QED BY <1>1, <1>5, <2>1, <3>1 DEF Mine, WillFind, Looking
  <2>4. HasPassed(u)'
    BY <1>1, <1>5, <2>1 DEF Mine, HasPassed, Passed, Looking
  <2>5. HasFound(u)'
    <3>1. at[u] = "copy" => index[u] \in Cache!SlotNos
      BY Bounds DEF CacheTypes, LocalsOK, Cache!SlotNos
    <3> QED BY <1>5, <1>6, <2>1, <3>1 DEF Mine, HasFound
  <2>6. Stores(u)'
    <3>1. Stores(u)
      BY <2>1 DEF Mine
    <3>2. Storing(u)' = Storing(u) /\ Cache!Start(start[u])' = Cache!Start(start[u])
      BY <1>1, <2>1 DEF Storing
    <3>3. at[u] \in {"claim", "load"} => index[u] \in Cache!SlotNos
      BY Bounds DEF CacheTypes, LocalsOK, Cache!SlotNos
    <3> QED BY <1>1, <1>5, <2>1, <3>1, <3>2 DEF Stores
  <2> QED BY <2>2, <2>3, <2>4, <2>5, <2>6 DEF Mine
<1>10. Mine(t)'
  <2>1. Mine(t) /\ ~ Looking(t)' /\ ~ Storing(t)' /\ Scanning(t)' /\ at'[t] # "copy"
        /\ at'[t] \notin {"claim", "load"}
    BY <1>5 DEF Calm, Looking, Storing, Scanning
  <2> QED BY <2>1 DEF Mine, Holds, WillFind, HasPassed, HasFound, Stores
<1> QED BY <1>8, <1>9, <1>10 DEF Calm

LEMMA CalmCrashInStore ==
    ASSUME CacheTypes, Calm, NEW t \in CacheClients, Cache!CrashInStore(t)
    PROVE  Calm'
<1>1. at[t] = "fill" /\ slots' = slots /\ file' = file
      /\ \A u \in CacheClients : at'[u] = "crashed"
  BY DEF Cache!CrashInStore, Cache!Full
<1>2. \A u \in CacheClients : at[u] # "load"
  BY <1>1, Alone DEF Storing
<1>3. Slots'
  <2>1. \A i \in Cache!SlotNos : slots[i].is_used => Settled(i)
    BY <1>2 DEF Calm, Slots
  <2> QED BY <1>1, <2>1 DEF Calm, Slots, Settled, Foremost, Cache!Version
<1>4. ASSUME NEW u \in CacheClients PROVE Mine(u)'
  BY <1>1 DEF Mine, Holds, WillFind, HasPassed, HasFound, Stores, Looking, Storing
<1> QED BY <1>3, <1>4 DEF Calm

-----------------------------------------------------------------------------
(* A request to write is the one received, until it is served.             *)
LEMMA WritesStays ==
    ASSUME CacheTypes, Writes, NEW t \in CacheClients, Cache!Accept(t) \/ Cache!CacheStep(t)
    PROVE  Writes'
<1> USE DEF CacheTypes, PlacesOK, AsksOK, Scanning, Storing
<1> DEFINE AtWork(u) == Scanning(u) \/ Storing(u) \/ at[u] \in {"lock", "store"}
<1>1. ASSUME order' = order, byte_start' = byte_start, bytes_size' = bytes_size,
             \A u \in CacheClients : AtWork(u)' => AtWork(u)
      PROVE  Writes'
  BY <1>1 DEF Writes
<1>2. CASE Cache!Receive(t)
  <2> DEFINE c == sock[t]
  <2>1. /\ at[t] = "recv" /\ inbox[c] # <<>>
        /\ order' = [order EXCEPT ![t] = Head(inbox[c])]
        /\ byte_start' = [byte_start EXCEPT ![t] = order'[t].start]
        /\ bytes_size' = [bytes_size EXCEPT ![t] = order'[t].size]
        /\ at' = [at EXCEPT ![t] = "lock"]
    BY <1>2 DEF Cache!Receive, Cache!Go, Cache!Set
  <2>2. inbox[c] \in Seq(Cache!Order) /\ 1 \in 1 .. Len(inbox[c])
    <3>1. c \in CacheClients /\ inbox[c] \in Seq(Cache!Order)
      BY <2>1
    <3> HIDE DEF c
    <3> QED BY <2>1, <3>1
  <2>3. c \in CacheClients
    BY <2>1
  <2>4. PICK o \in Cache!Order : o = inbox[c][1] /\ o = Head(inbox[c])
    <3> HIDE DEF c
    <3> QED BY <2>2
  <2>5. o.op = "w" => o.start + o.size <= MaxBytes
    <3> HIDE DEF c
    <3> QED BY <2>2, <2>3, <2>4
  <2>6. o.start \in Nat /\ o.size \in Nat /\ o.size > 0
    BY DEF Cache!Order
  <2>7. order'[t] = o /\ byte_start'[t] = o.start /\ bytes_size'[t] = o.size
    BY <2>1, <2>4
  <2>8. \A u \in CacheClients : u # t =>
           /\ order'[u] = order[u] /\ byte_start'[u] = byte_start[u]
           /\ bytes_size'[u] = bytes_size[u] /\ at'[u] = at[u]
    BY <2>1
  <2> QED BY <2>5, <2>6, <2>7, <2>8 DEF Writes
<1>3. CASE Cache!CopyOut(t)
  <2>1. order[t].op = "r" /\ order' = order
    BY <1>3 DEF Cache!CopyOut, Cache!requestVars
  <2>2. \A u \in CacheClients : u # t =>
           /\ byte_start'[u] = byte_start[u] /\ bytes_size'[u] = bytes_size[u]
           /\ at'[u] = at[u]
    BY <1>3 DEF Cache!CopyOut, Cache!NextPart, Cache!Set
  <2> QED BY <2>1, <2>2 DEF Writes
<1>4. CASE Cache!CopyIn(t)
  <2>1. PICK i \in Cache!SlotNos : i = index[t]
    BY <1>4, Bounds DEF LocalsOK, Cache!SlotNos, Cache!CopyIn
  <2>2. at[t] = "copy" /\ order[t].op = "w" /\ order' = order /\ Cache!NextPart(t)
    BY <1>4 DEF Cache!CopyIn, Cache!requestVars
  <2>3. slots[i].byte_start \in Nat
    BY DEF CellsOK, Cell
  <2>4. byte_start[t] \in Nat /\ bytes_size[t] \in Nat
        /\ byte_start[t] + bytes_size[t] <= MaxBytes
    BY <2>2 DEF Writes
  <2>5. ~ Cache!Beyond(t)
    BY <2>1, <2>3, <2>4, Bounds DEF Cache!Beyond
  <2>6. /\ at' = [at EXCEPT ![t] = "unlock"]
        /\ byte_start' = byte_start /\ bytes_size' = bytes_size
    BY <2>2, <2>5 DEF Cache!NextPart, Cache!Set
  <2> QED BY <1>1, <2>2, <2>6
<1>5. CASE Cache!CrashInStore(t)
  BY <1>1, <1>5 DEF Cache!CrashInStore, Cache!requestVars, Cache!localVars, Cache!getVars
<1>6. CASE Cache!Evict(t)
  BY <1>1, <1>6 DEF Cache!Evict, Cache!requestVars, Cache!getVars
<1>7. CASE Cache!Accept(t) \/ Cache!ReadSock(t)
  BY <1>1, <1>7 DEF Cache!Accept, Cache!ReadSock, Cache!Go, Cache!localVars, Cache!getVars
<1>8. CASE Cache!LockCache(t) \/ Cache!UnlockScan(t) \/ Cache!LockStore(t)
  BY <1>1, <1>8 DEF Cache!LockCache, Cache!UnlockScan, Cache!LockStore, Cache!Go,
     Cache!requestVars, Cache!localVars, Cache!getVars
<1>9. CASE Cache!Scan(t)
  BY <1>1, <1>9 DEF Cache!Scan, Cache!Set, Cache!requestVars, Cache!getVars
<1>10. CASE Cache!SeeFree(t) \/ Cache!Claim(t) \/ Cache!Load(t)
  BY <1>1, <1>10 DEF Cache!SeeFree, Cache!Filling, Cache!Claim, Cache!Load, Cache!Go,
     Cache!Set, Cache!requestVars, Cache!localVars, Cache!getVars
<1>11. CASE Cache!SeeUsed(t) \/ Cache!StoreDone(t)
  BY <1>1, <1>11 DEF Cache!SeeUsed, Cache!StoreDone, Cache!Set, Cache!requestVars,
     Cache!getVars
<1> QED BY <1>2, <1>3, <1>4, <1>5, <1>6, <1>7, <1>8, <1>9, <1>10, <1>11 DEF Cache!CacheStep

-----------------------------------------------------------------------------
LEMMA CacheStart == ASSUME Cache!CacheInit PROVE CacheInv
<1> USE Bounds DEF Cache!CacheInit
<1>1. PlacesOK
  BY DEF PlacesOK, Stages
<1>2. AsksOK
  <2>1. inbox \in [CacheClients -> Requests]
    OBVIOUS
  <2>2. ASSUME NEW c \in CacheClients
        PROVE  inbox[c] \in Seq(Cache!Order) /\ \A i \in 1 .. Len(inbox[c]) :
                  inbox[c][i].op = "w" => inbox[c][i].start + inbox[c][i].size <= MaxBytes
    <3>1. PICK r \in Requests : r = inbox[c]
      BY <2>1
    <3>2. r \in Seq(Cache!Order) /\ DOMAIN r = 1 .. Len(r)
      BY CacheAssumption DEF Cache!CacheParameters
    <3> QED BY <3>1, <3>2, CacheAssumption DEF Cache!CacheParameters
  <2>3. /\ order \in [CacheClients -> Cache!Order] /\ byte_start \in [CacheClients -> Nat]
        /\ bytes_size \in [CacheClients -> Nat]
    BY DEF Cache!Order
  <2> HIDE DEF Cache!CacheInit
  <2> QED BY <2>1, <2>2, <2>3 DEF AsksOK
<1>3. LocalsOK
  BY DEF LocalsOK
<1>4. CellsOK
  <2>1. slots \in [Cache!SlotNos -> Cell]
    BY DEF Cell, Cache!NoBlock
  <2>2. /\ file = [b \in DOMAIN file |-> file[b]]
        /\ DOMAIN file \subseteq Nat /\ \A b \in DOMAIN file : file[b] \in Nat
    <3>1. file = <<>>
      OBVIOUS
    <3> HIDE DEF Cache!CacheInit
    <3> QED BY <3>1
  <2>3. replies \in [CacheClients -> Seq(Reply)]
    <3>1. <<>> \in Seq(Reply) /\ replies = [c \in CacheClients |-> <<>>]
      OBVIOUS
    <3> HIDE DEF Cache!CacheInit
    <3> QED BY <3>1
  <2>4. /\ cache_mutex \in CacheClients \cup {NoOne}
        /\ evicted \in BOOLEAN /\ stolen \in BOOLEAN
    OBVIOUS
  <2> HIDE DEF Cache!CacheInit
  <2> QED BY <2>1, <2>2, <2>3, <2>4 DEF CellsOK
<1>5. Writes
  BY DEF Writes, Scanning, Storing
<1>6. Slots
  BY DEF Slots, Settled, Cache!NoBlock, Cache!SlotNos
<1>7. ASSUME NEW t \in CacheClients PROVE Mine(t)
  BY DEF Mine, Holds, WillFind, HasPassed, HasFound, Stores, Looking, Storing
<1> HIDE DEF Cache!CacheInit
<1> QED BY <1>1, <1>2, <1>3, <1>4, <1>5, <1>6, <1>7 DEF CacheInv, CacheTypes, Calm

LEMMA TypesStay ==
    ASSUME CacheTypes, NEW t \in CacheClients, Cache!Accept(t) \/ Cache!CacheStep(t)
    PROVE  CacheTypes'
BY TypesAccept, TypesReadSock, TypesReceive, TypesLockCache, TypesScan, TypesCopyOut,
   TypesCopyIn, TypesUnlockScan, TypesLockStore, TypesSeeFree, TypesClaim, TypesLoad,
   TypesSeeUsed, TypesEvict, TypesCrashInStore, TypesStoreDone DEF Cache!CacheStep

LEMMA CalmStays ==
    ASSUME CacheTypes, Writes, Calm, NEW t \in CacheClients, ~ evicted', ~ stolen',
           Cache!Accept(t) \/ Cache!CacheStep(t)
    PROVE  Calm'
<1>1. ~ Cache!Evict(t)
  BY DEF Cache!Evict
<1> QED BY <1>1, CalmAccept, CalmReadSock, CalmReceive, CalmLockCache, CalmScan,
   CalmCopyOut, CalmCopyIn, CalmUnlockScan, CalmLockStore, CalmSeeFree, CalmClaim,
   CalmLoad, CalmSeeUsed, CalmCrashInStore, CalmStoreDone DEF Cache!CacheStep

(* A slot once given away stays so, and so does a mutex once stolen.       *)
LEMMA Remembers ==
    ASSUME CacheTypes, NEW t \in CacheClients, Cache!Accept(t) \/ Cache!CacheStep(t)
    PROVE  (evicted => evicted') /\ (stolen => stolen')
<1> USE DEF Cache!historyVars
<1>1. CASE Cache!Accept(t) \/ Cache!ReadSock(t)
  BY <1>1 DEF Cache!Accept, Cache!ReadSock
<1>5. CASE Cache!Receive(t)
  BY <1>5 DEF Cache!Receive
<1>8. CASE Cache!LockCache(t)
  <2>1. evicted' = evicted /\ stolen' = stolen
    BY <1>8 DEF Cache!LockCache, Cache!requestVars, Cache!storeVars
  <2> QED BY <2>1
<1>2. CASE Cache!Scan(t)
  BY <1>2 DEF Cache!Scan
<1>9. CASE Cache!UnlockScan(t)
  BY <1>9 DEF Cache!UnlockScan
<1>6. CASE Cache!CopyOut(t)
  BY <1>6 DEF Cache!CopyOut
<1>7. CASE Cache!CopyIn(t)
  BY <1>7 DEF Cache!CopyIn
<1>3. CASE Cache!LockStore(t) \/ Cache!SeeFree(t) \/ Cache!Claim(t) \/ Cache!Load(t)
  BY <1>3 DEF Cache!LockStore, Cache!SeeFree, Cache!Claim, Cache!Load
<1>4. CASE Cache!SeeUsed(t) \/ Cache!Evict(t) \/ Cache!CrashInStore(t) \/ Cache!StoreDone(t)
  BY <1>4 DEF Cache!SeeUsed, Cache!Evict, Cache!CrashInStore, Cache!StoreDone
<1> QED BY <1>1, <1>2, <1>3, <1>4, <1>5, <1>6, <1>7, <1>8, <1>9 DEF Cache!CacheStep

LEMMA CacheRests == ASSUME CacheInv, UNCHANGED Cache!cacheVars PROVE CacheInv'
<1> USE DEF Cache!cacheVars, Cache!Start, Cache!Block, Cache!SlotNos, Storing, Scanning,
   Looking,
            Needs, Wanted
<1>1. PlacesOK' = PlacesOK /\ AsksOK' = AsksOK
  BY DEF PlacesOK, AsksOK
<1>2. LocalsOK' = LocalsOK /\ CellsOK' = CellsOK
  BY DEF LocalsOK, CellsOK
<1>3. Writes' = Writes
  BY DEF Writes
<1>4. Slots' = Slots
  BY DEF Slots, Settled, Foremost, Cache!Version
<1>5. ASSUME NEW t \in CacheClients PROVE Mine(t)' = Mine(t)
  <2>1. Holds(t)' = Holds(t) /\ Stores(t)' = Stores(t) /\ HasFound(t)' = HasFound(t)
    BY DEF Holds, Stores, HasFound
  <2>2. WillFind(t)' = WillFind(t) /\ HasPassed(t)' = HasPassed(t)
    BY DEF WillFind, HasPassed, Ready, Settled, Passed
  <2> QED BY <2>1, <2>2 DEF Mine
<1>6. evicted' = evicted /\ stolen' = stolen
  OBVIOUS
<1> QED BY <1>1, <1>2, <1>3, <1>4, <1>5 DEF CacheInv, CacheTypes, Calm

(* The cache's invariant: types, what writers want, and as long as no slot *)
(* was given away and no mutex stolen, that the slots are in order and     *)
(* whoever looks at them without the mutex will find its block.            *)
THEOREM CacheInvariant == Cache!CacheSpec => []CacheInv
<1>1. Cache!CacheInit => CacheInv
  BY CacheStart
<1>2. CacheInv /\ [Cache!CacheNext]_(Cache!cacheVars) => CacheInv'
  <2> SUFFICES ASSUME CacheInv, [Cache!CacheNext]_(Cache!cacheVars) PROVE CacheInv'
    OBVIOUS
  <2>1. CASE UNCHANGED Cache!cacheVars
    BY <2>1, CacheRests
  <2>2. ASSUME NEW t \in CacheClients, Cache!Accept(t) \/ Cache!CacheStep(t)
        PROVE  CacheInv'
    <3>1. CacheTypes /\ Writes
      BY DEF CacheInv
    <3>2. CacheTypes' /\ Writes'
      BY <2>2, <3>1, TypesStay, WritesStays
    <3>3. ASSUME ~ evicted', ~ stolen' PROVE Calm'
      <4>1. Calm
        BY <2>2, <3>3, Remembers DEF CacheInv
      <4> QED BY <2>2, <3>1, <3>3, <4>1, CalmStays
    <3> QED BY <3>2, <3>3 DEF CacheInv
  <2> QED BY <2>1, <2>2 DEF Cache!CacheNext
<1> QED BY <1>1, <1>2, PTL DEF Cache!CacheSpec

(* The mutex has an owner or none, loops stay in the cache and slots hold  *)
(* blocks.                                                                 *)
THEOREM CacheTypeCorrect == Cache!CacheSpec => []Cache!CacheTypeOK
<1>1. CacheInv => Cache!CacheTypeOK
  BY DEF CacheInv, CacheTypes, LocalsOK, CellsOK, Cell, Cache!CacheTypeOK, Cache!NoBlock
<1> QED BY <1>1, CacheInvariant, PTL

(* Whatever the number of clients, slots and requests: what a reader is    *)
(* sent is the block it asked for as last written, as long as no slot was  *)
(* given away and no thread has unlocked the mutex for another.            *)
THEOREM CacheReadsFresh == Cache!CacheSpec => ReadsFresh
<1>1. ASSUME CacheInv, NEW t \in CacheClients, Cache!CopyOut(t), Cache!size(t) > 0,
             ~ evicted, ~ stolen
      PROVE  LET r == replies'[sock[t]][Len(replies'[sock[t]])]
             IN  /\ r.block = Cache!Block(byte_start[t])
                 /\ r.version = Cache!Version(r.block)
  <2>1. CacheTypes /\ Calm
    BY <1>1 DEF CacheInv
  <2>2. PICK i \in Cache!SlotNos : i = index[t]
    BY <1>1, <2>1, Bounds DEF CacheTypes, LocalsOK, Cache!SlotNos, Cache!CopyOut
  <2>3. at[t] = "copy" /\ Needs(t)
    BY <1>1 DEF Cache!CopyOut, Cache!size, Needs
  <2>4. /\ Settled(i) /\ slots[i].byte_start = Wanted(t)
        /\ slots[i].version = Cache!Version(slots[i].block)
    BY <2>1, <2>2, <2>3, Finds
  <2>5. slots[i].block = Cache!Block(byte_start[t])
    <3>1. byte_start[t] \in Nat
      BY <2>1 DEF CacheTypes, AsksOK
    <3>2. Cache!Block(Wanted(t)) = Cache!Block(byte_start[t])
      BY <3>1, Blocks DEF Wanted
    <3> QED BY <2>4, <3>2 DEF Settled
  <2>6. PICK c \in CacheClients : c = sock[t]
    BY <2>1, <2>3 DEF CacheTypes, PlacesOK
  <2>7. PICK old \in Seq(Reply) : old = replies[c]
    BY <2>1 DEF CacheTypes, CellsOK
  <2>8. PICK new \in Reply : new = [block |-> slots[i].block, version |-> slots[i].version]
    BY <2>1 DEF CacheTypes, CellsOK, Cell, Reply
  <2>9. replies'[c] = Append(old, new)
    <3>1. replies' = [replies EXCEPT ![c] = Append(old, new)]
      <4>1. replies' = [replies EXCEPT ![c] = IF Cache!size(t) = 0 THEN replies[c]
                                              ELSE Append(replies[c], new)]
        BY <1>1, <2>2, <2>6, <2>8, Zenon DEF Cache!CopyOut
      <4>2. Cache!size(t) \in Nat
        BY <2>1, Lefts DEF CacheTypes, AsksOK, Cache!size
      <4>3. ~ (Cache!size(t) = 0)
        BY <1>1, <4>2
      <4>4. (IF Cache!size(t) = 0 THEN replies[c] ELSE Append(replies[c], new)) = Append(old, new)
        BY <2>7, <4>3
      <4> QED BY <4>1, <4>4, Zenon
    <3> QED BY <2>1, <3>1 DEF CacheTypes, CellsOK
  <2>10. replies'[c][Len(replies'[c])] = new
    BY <2>9
  <2>11. new.block = slots[i].block /\ new.version = slots[i].version
    BY <2>8
  <2> QED BY <2>4, <2>5, <2>6, <2>10, <2>11
<1>2. CacheInv /\ [Cache!CacheNext]_(Cache!cacheVars) =>
        [\A t \in CacheClients :
            Cache!CopyOut(t) /\ Cache!size(t) > 0 /\ ~evicted /\ ~stolen =>
               LET r == replies'[sock[t]][Len(replies'[sock[t]])]
               IN  r.block = Cache!Block(byte_start[t])
                      /\ r.version = Cache!Version(r.block)]_(Cache!cacheVars)
  BY <1>1
<1> QED BY <1>2, CacheInvariant, PTL DEF Cache!CacheSpec, ReadsFresh, Cache!ReadsFresh

-----------------------------------------------------------------------------
(* The scripts that count under one mutex.                                 *)

(* The programs that count in words under one mutex, and these words.      *)
Counting == {"malloc", "spin", "second", "ex1", "tank"}
CountsIn(p) == CASE p = "malloc" -> {"global", "main_static", "thread_static"}
                 [] p = "tank" -> {"tank"}
                 [] OTHER -> {"global"}

(* Where the scripts have the mutex, and what a thread that is at i has    *)
(* stored into word x.                                                     *)
InRound(j, k) == j > 0 /\ j % k # 1
HasMutex(p, t, i) ==
    CASE p = "malloc" ->
             LET j == IF t = LabMain THEN i - 2 ELSE i
                 tail == IF t = LabMain THEN 6 * Rounds + 4 ELSE 6 * Rounds + 2
             IN  t \in {LabMain, T1, T2} /\ ((j <= 6 * Rounds /\ InRound(j, 6)) \/ j = tail)
      [] p = "spin" -> t \in {T1, T2} /\ InRound(i - 1, 4)
      [] p = "tank" -> (t = T1 /\ i \in 2 .. 5) \/ (t = T2 /\ i % 5 \in 2 .. 4)
      [] OTHER -> t \in {T1, T2} /\ InRound(i, 4)
Upto(j, n) == IF j <= 0 THEN 0 ELSE IF j <= n THEN j ELSE n
Added(p, x, t, i) ==
    CASE p = "malloc" ->
             LET j == Upto(IF t = LabMain THEN i - 2 ELSE i, 6 * Rounds)
             IN  CASE x = "global" /\ t \in {LabMain, T1, T2} -> (j + 2) \div 6
                   [] x = "main_static" /\ t = LabMain -> j \div 6
                   [] x = "thread_static" /\ t \in {T1, T2} -> j \div 6
                   [] OTHER -> 0
      [] p = "spin" -> IF t \in {T1, T2} /\ i > 0 THEN (i - 1) \div 4 ELSE 0
      [] p = "tank" -> IF t = T1 /\ i >= 5 THEN -50
                       ELSE IF t = T2 THEN 10 * ((i + 1) \div 5) ELSE 0
      [] p = "ex1" -> IF t \in {T1, T2} THEN 10 * (i \div 4) ELSE 0
      [] OTHER -> IF t \in {T1, T2} THEN i \div 4 ELSE 0
-----------------------------------------------------------------------------
(* What scripts consist of.                                                *)
LEMMA ConcatIs ==
    ASSUME NEW S, NEW a \in Seq(S), NEW b \in Seq(S)
    PROVE  /\ a \o b \in Seq(S) /\ Len(a \o b) = Len(a) + Len(b)
           /\ \A i \in 1 .. Len(a) + Len(b) :
                 (a \o b)[i] = IF i <= Len(a) THEN a[i] ELSE b[i - Len(a)]
OBVIOUS

LEMMA RepeatIs ==
    ASSUME NEW S, NEW s \in Seq(S), NEW n \in Nat, NEW k \in Nat \ {0}, Len(s) = k
    PROVE  /\ Labs!Repeat(n, s) \in Seq(S) /\ Len(Labs!Repeat(n, s)) = n * k
           /\ \A i \in 1 .. n * k : Labs!Repeat(n, s)[i] = s[((i - 1) % k) + 1]
<1>1. n * k \in Nat
  OBVIOUS
<1>2. Labs!Repeat(n, s) = [i \in 1 .. n * k |-> s[((i - 1) % k) + 1]]
  BY DEF Labs!Repeat
<1>3. ASSUME NEW i \in 1 .. n * k PROVE s[((i - 1) % k) + 1] \in S
  <2>1. ((i - 1) % k) \in 0 .. k - 1
    OBVIOUS
  <2> QED BY <2>1
<1> QED BY <1>1, <1>2, <1>3

LEMMA RepeatOf ==
    ASSUME NEW S, NEW s \in Seq(S), NEW n \in Nat, Len(s) \in Nat \ {0}
    PROVE  /\ Labs!Repeat(n, s) \in Seq(S) /\ Len(Labs!Repeat(n, s)) = n * Len(s)
           /\ \A i \in 1 .. n * Len(s) :
                 Labs!Repeat(n, s)[i] = s[((i - 1) % Len(s)) + 1]
BY RepeatIs

(* A critical section around two instructions or four.                     *)
LEMMA SectionOfTwo ==
    ASSUME NEW m, NEW a, NEW b
    PROVE  Labs!Locked(m, <<a, b>>) = <<Labs!Lock(m), a, b, Labs!Unlock(m)>>
<1> DEFINE S == {Labs!Lock(m), a, b, Labs!Unlock(m)}
           s == <<Labs!Lock(m)>> \o <<a, b>>
           u == <<Labs!Unlock(m)>>
           r == s \o u
<1>1. /\ s \in Seq(S) /\ Len(s) = 3
      /\ \A i \in 1 .. 3 : s[i] = IF i <= 1 THEN <<Labs!Lock(m)>>[i] ELSE <<a, b>>[i - 1]
  BY ConcatIs
<1>2. u \in Seq(S) /\ Len(u) = 1 /\ u[1] = Labs!Unlock(m)
  OBVIOUS
<1> HIDE DEF s, u, S
<1>3. /\ r \in Seq(S) /\ Len(r) = 4
      /\ \A i \in 1 .. 4 : r[i] = IF i <= 3 THEN s[i] ELSE u[i - 3]
  <2>1. /\ r \in Seq(S) /\ Len(r) = Len(s) + Len(u)
        /\ \A i \in 1 .. Len(s) + Len(u) : r[i] = IF i <= Len(s) THEN s[i] ELSE u[i - Len(s)]
    BY <1>1, <1>2, ConcatIs, Zenon
  <2> HIDE DEF r
  <2> QED BY <1>1, <1>2, <2>1
<1>4. r[1] = Labs!Lock(m) /\ r[2] = a /\ r[3] = b /\ r[4] = Labs!Unlock(m)
  BY <1>1, <1>2, <1>3
<1>5. r = <<Labs!Lock(m), a, b, Labs!Unlock(m)>>
  <2> HIDE DEF r
  <2> QED BY <1>3, <1>4
<1> QED BY <1>5 DEF Labs!Locked, s, u

(* Main of all programs but "malloc": it creates two threads and joins them.*)
LEMMA TwoCalls ==
    ASSUME NEW a, NEW b, NEW c, NEW d
    PROVE  (<<a, b>> \o <<>>) \o <<c, d>> = <<a, b, c, d>>
<1> DEFINE S == {a, b, c, d}
           r == <<a, b>> \o <<c, d>>
<1>1. <<a, b>> \o <<>> = <<a, b>>
  OBVIOUS
<1>2. /\ r \in Seq(S) /\ Len(r) = 4
      /\ \A i \in 1 .. 4 : r[i] = IF i <= 2 THEN <<a, b>>[i] ELSE <<c, d>>[i - 2]
  BY ConcatIs
<1>3. r[1] = a /\ r[2] = b /\ r[3] = c /\ r[4] = d
  BY <1>2
<1>4. r = <<a, b, c, d>>
  <2> HIDE DEF r, S
  <2> QED BY <1>2, <1>3
<1> QED BY <1>1, <1>4

LEMMA EachOfTwo ==
    /\ Labs!Each(Labs!Create, Labs!Pair) = <<Labs!Create(T1), Labs!Create(T2)>>
    /\ Labs!Each(Labs!Join, Labs!Pair) = <<Labs!Join(T1), Labs!Join(T2)>>
<1>1. Labs!Pair = <<T1, T2>> /\ Len(Labs!Pair) = 2
  BY DEF Labs!Pair
<1>2. Labs!Each(Labs!Create, Labs!Pair) = [i \in 1 .. 2 |-> Labs!Create(Labs!Pair[i])]
  BY <1>1 DEF Labs!Each
<1>3. Labs!Each(Labs!Join, Labs!Pair) = [i \in 1 .. 2 |-> Labs!Join(Labs!Pair[i])]
  BY <1>1 DEF Labs!Each
<1>4. [i \in 1 .. 2 |-> Labs!Create(Labs!Pair[i])] = <<Labs!Create(T1), Labs!Create(T2)>>
  BY <1>1
<1>5. [i \in 1 .. 2 |-> Labs!Join(Labs!Pair[i])] = <<Labs!Join(T1), Labs!Join(T2)>>
  BY <1>1
<1> QED BY <1>2, <1>3, <1>4, <1>5

LEMMA MainsAre ==
    /\ Labs!Around(Labs!Pair, <<>>)
          = <<Labs!Create(T1), Labs!Create(T2), Labs!Join(T1), Labs!Join(T2)>>
    /\ Labs!ex1_main
          = <<Labs!Create(T1), Labs!Create(T2), Labs!Join(T2), Labs!Join(T1)>>
<1>1. Labs!Around(Labs!Pair, <<>>)
          = <<Labs!Create(T1), Labs!Create(T2), Labs!Join(T1), Labs!Join(T2)>>
  BY EachOfTwo, TwoCalls DEF Labs!Around
<1>2. <<Labs!Create(T1), Labs!Create(T2)>> = <<Labs!Create(T1), Labs!Create(T2)>> \o <<>>
  OBVIOUS
<1>3. Labs!ex1_main
         = (<<Labs!Create(T1), Labs!Create(T2)>> \o <<>>) \o <<Labs!Join(T2), Labs!Join(T1)>>
  BY <1>2, EachOfTwo DEF Labs!ex1_main
<1> QED BY <1>1, <1>3, TwoCalls

(* Rounds of one increment, one after another.                             *)
Four(x, k) == {Labs!Lock("mutex"), Labs!Load(x), Labs!Store(x, k), Labs!Unlock("mutex")}
Laps(n, x, k) == Labs!Repeat(n, Labs!Locked("mutex", Labs!Add(x, k)))

LEMMA LapsAre ==
    ASSUME NEW n \in Nat, NEW x, NEW k
    PROVE  /\ Laps(n, x, k) \in Seq(Four(x, k)) /\ Len(Laps(n, x, k)) = 4 * n
           /\ \A i \in 1 .. 4 * n :
                 /\ i % 4 = 1 => Laps(n, x, k)[i] = Labs!Lock("mutex")
                 /\ i % 4 = 2 => Laps(n, x, k)[i] = Labs!Load(x)
                 /\ i % 4 = 3 => Laps(n, x, k)[i] = Labs!Store(x, k)
                 /\ i % 4 = 0 => Laps(n, x, k)[i] = Labs!Unlock("mutex")
<1> DEFINE S == Four(x, k)
           r == <<Labs!Lock("mutex"), Labs!Load(x), Labs!Store(x, k), Labs!Unlock("mutex")>>
           s == Labs!Repeat(n, r)
<1>1. Labs!Locked("mutex", Labs!Add(x, k)) = r
  BY SectionOfTwo DEF Labs!Add
<1>2. r \in Seq(S) /\ Len(r) = 4
  BY DEF Four
<1>3. /\ s \in Seq(S) /\ Len(s) = n * 4
      /\ \A i \in 1 .. n * 4 : s[i] = r[((i - 1) % 4) + 1]
  <2>1. Len(r) \in Nat \ {0}
    BY <1>2
  <2>2. n \in Nat
    OBVIOUS
  <2> HIDE DEF r
  <2>3. /\ s \in Seq(S) /\ Len(s) = n * Len(r)
        /\ \A i \in 1 .. n * Len(r) : s[i] = r[((i - 1) % Len(r)) + 1]
    BY <1>2, <2>1, <2>2, RepeatOf, Zenon
  <2> QED BY <1>2, <2>3, Zenon
<1>4. ASSUME NEW i \in 1 .. n * 4
      PROVE  ((i - 1) % 4) + 1 = (IF i % 4 = 0 THEN 4 ELSE i % 4) /\ i % 4 \in 0 .. 3
  OBVIOUS
<1>5. ASSUME NEW i \in 1 .. n * 4
      PROVE  /\ i % 4 = 1 => s[i] = Labs!Lock("mutex")
             /\ i % 4 = 2 => s[i] = Labs!Load(x)
             /\ i % 4 = 3 => s[i] = Labs!Store(x, k)
             /\ i % 4 = 0 => s[i] = Labs!Unlock("mutex")
  <2>1. s[i] = r[IF i % 4 = 0 THEN 4 ELSE i % 4] /\ i % 4 \in 0 .. 3
    BY <1>3, <1>4
  <2>2. /\ r[1] = Labs!Lock("mutex") /\ r[2] = Labs!Load(x)
        /\ r[3] = Labs!Store(x, k) /\ r[4] = Labs!Unlock("mutex")
    OBVIOUS
  <2> HIDE DEF s, r
  <2> QED BY <2>1, <2>2
<1>6. n * 4 = 4 * n
  OBVIOUS
<1> HIDE DEF s, r
<1>7. /\ s \in Seq(S) /\ Len(s) = 4 * n
      /\ \A i \in 1 .. 4 * n :
            /\ i % 4 = 1 => s[i] = Labs!Lock("mutex")
            /\ i % 4 = 2 => s[i] = Labs!Load(x)
            /\ i % 4 = 3 => s[i] = Labs!Store(x, k)
            /\ i % 4 = 0 => s[i] = Labs!Unlock("mutex")
  BY <1>3, <1>5, <1>6
<1>8. Laps(n, x, k) = s
  BY <1>1 DEF s, Laps
<1> QED BY <1>7, <1>8
CreatedAt(t) == IF t = T1 THEN 1 ELSE 2
JoinedAt(p, t) == CASE p = "malloc" -> 6 * Rounds + IF t = T1 THEN 3 ELSE 4
                    [] p = "ex1" -> IF t = T1 THEN 4 ELSE 3
                    [] OTHER -> IF t = T1 THEN 3 ELSE 4
Code(p, t) == Labs!Scripts[p][t]

(* The words a program counts in are stored under the mutex, each by the   *)
(* instruction after its load; main creates two threads and joins them.    *)
Obeys(p, t, i) ==
    LET c == Code(p, t)[i]
    IN  /\ c.op \in {"lock", "unlock", "load", "store", "barrier", "create", "join",
                     "signal", "waitWhile"}
        /\ HasMutex(p, t, i + 1) = (c.op = "lock" \/ (c.op # "unlock" /\ HasMutex(p, t, i)))
        /\ c.op \in {"unlock", "store", "waitWhile"} => HasMutex(p, t, i)
        /\ c.op \in {"lock", "unlock", "waitWhile"} => c.m = "mutex"
        /\ c.op \in {"signal", "waitWhile"} => c.c = "condFuel"
        /\ c.op = "barrier" => c.c = "barrier" /\ ~ HasMutex(p, t, i)
        /\ c.op = "load" => c.x \in CountsIn(p)
        /\ c.op = "store" =>
              /\ i > 1 /\ c.x \in CountsIn(p) /\ c.k \in Int
              /\ Code(p, t)[i - 1].op = "load" /\ Code(p, t)[i - 1].x = c.x
        /\ \A x \in CountsIn(p) :
              Added(p, x, t, i + 1) = Added(p, x, t, i)
                                         + IF c.op = "store" /\ c.x = x THEN c.k ELSE 0
        /\ c.op \in {"create", "join"} => t = LabMain /\ c.t \in {T1, T2}
        /\ c.op = "create" => i = CreatedAt(c.t)
        /\ t = LabMain /\ (\E u \in {T1, T2} : i = JoinedAt(p, u)) => c.op = "join"
        /\ c.op = "join" => i = JoinedAt(p, c.t)

Disciplined(p) ==
    /\ CountsIn(p) \subseteq Words
    /\ \A t \in LabThreads :
          /\ Len(Code(p, t)) \in Nat
          /\ \A i \in 1 .. Len(Code(p, t)) : Obeys(p, t, i)
          /\ \A i \in 0 .. Len(Code(p, t)) + 1 : HasMutex(p, t, i) \in BOOLEAN
          /\ ~ HasMutex(p, t, 0) /\ ~ HasMutex(p, t, 1)
          /\ \A x \in CountsIn(p) :
                /\ Added(p, x, t, 0) = 0 /\ Added(p, x, t, 1) = 0
                /\ \A i \in 0 .. Len(Code(p, t)) + 1 : Added(p, x, t, i) \in Int
    /\ \A t \in {T1, T2} : /\ JoinedAt(p, t) \in Nat /\ CreatedAt(t) < JoinedAt(p, t)
                           /\ JoinedAt(p, t) <= Len(Code(p, LabMain))

LabTypes ==
    /\ lab \in Counting
    /\ script = Labs!Scripts[lab]
    /\ pc \in [LabThreads -> Nat]
    /\ \A t \in LabThreads : pc[t] <= Len(Code(lab, t)) + 1
    /\ asleep \in [LabThreads -> {LabNone, "relock", "barrier", "condFuel"}]
    /\ reg \in [LabThreads -> Int] /\ mem \in [Words -> Int]
    /\ owner \in [Mutexes -> LabThreads \cup {LabNone}]
Inside(t) == pc[t] \in 1 .. Len(Code(lab, t))
Now(t) == Code(lab, t)[pc[t]]

Sleeping == \A t \in LabThreads : asleep[t] # LabNone =>
    Inside(t) /\ \/ Now(t).op = "barrier" /\ asleep[t] = "barrier"
                 \/ Now(t).op = "waitWhile" /\ asleep[t] \in {"relock", "condFuel"}
Exclusive == \A t \in LabThreads :
    owner["mutex"] = t <=> HasMutex(lab, t, pc[t]) /\ asleep[t] = LabNone
JustLoaded == \A t \in LabThreads :
    Inside(t) /\ Now(t).op = "store" => reg[t] = mem[Now(t).x]
Totals == \A x \in CountsIn(lab) :
    mem[x] = Added(lab, x, LabMain, pc[LabMain]) + Added(lab, x, T1, pc[T1])
                + Added(lab, x, T2, pc[T2])
Births ==
    /\ \A t \in LabThreads : pc[t] > 0 => t \in {LabMain, T1, T2}
    /\ \A t \in {T1, T2} :
          /\ pc[LabMain] <= CreatedAt(t) => pc[t] = 0
          /\ pc[LabMain] > JoinedAt(lab, t) => pc[t] = Len(Code(lab, t)) + 1
LabInv == LabTypes /\ Sleeping /\ Exclusive /\ JustLoaded /\ Totals /\ Births
-----------------------------------------------------------------------------
(* What the discipline says of one instruction of one thread.              *)
LEMMA ObeyAt ==
    ASSUME NEW p, Disciplined(p), NEW t \in LabThreads, NEW i \in 1 .. Len(Code(p, t))
    PROVE  Obeys(p, t, i)
BY DEF Disciplined

(* A thread that is at an instruction.                                     *)
LEMMA AtMeans ==
    ASSUME LabInv, Disciplined(lab), NEW t \in LabThreads, NEW op, Labs!At(t, op)
    PROVE  /\ Inside(t) /\ asleep[t] = LabNone
           /\ Labs!I(t) = Now(t) /\ Now(t).op = op /\ Obeys(lab, t, pc[t])
<1>1. /\ script[t] = Code(lab, t) /\ pc[t] \in Nat /\ pc[t] <= Len(Code(lab, t)) + 1
      /\ Len(Code(lab, t)) \in Nat
  BY DEF LabInv, LabTypes, Code, Disciplined
<1>2. Labs!I(t) = Now(t)
  BY <1>1 DEF Labs!I, Now
<1>3. Inside(t) /\ asleep[t] = LabNone /\ Now(t).op = op
  BY <1>1, <1>2 DEF Labs!At, Labs!Ended, Inside
<1> QED BY <1>2, <1>3 DEF Disciplined, Inside

(* A step to the next instruction, whatever else it does to the words and  *)
(* the mutex.                                                              *)
Advances(t) ==
    /\ Inside(t) /\ asleep[t] = LabNone
    /\ Now(t).op \notin {"create", "barrier"}
    /\ Now(t).op = "join" => pc[Now(t).t] = Len(Code(lab, Now(t).t)) + 1
    /\ UNCHANGED <<lab, script>>
    /\ pc' = [pc EXCEPT ![t] = @ + 1]
    /\ asleep' \in [LabThreads -> {LabNone, "relock", "barrier", "condFuel"}]
    /\ \A u \in LabThreads : \/ asleep'[u] = asleep[u]
                             \/ asleep[u] = "condFuel" /\ asleep'[u] = "relock"
    /\ owner' \in [Mutexes -> LabThreads \cup {LabNone}]
    /\ owner'["mutex"] = IF Now(t).op = "lock" THEN t
                         ELSE IF Now(t).op = "unlock" THEN LabNone ELSE owner["mutex"]
    /\ Now(t).op = "lock" => owner["mutex"] = LabNone
    /\ reg' \in [LabThreads -> Int]
    /\ \A u \in LabThreads : u # t => reg'[u] = reg[u]
    /\ Now(t).op = "load" => reg'[t] = mem[Now(t).x]
    /\ mem' \in [Words -> Int]
    /\ \A x \in CountsIn(lab) :
          mem'[x] = IF Now(t).op = "store" /\ Now(t).x = x THEN reg[t] + Now(t).k ELSE mem[x]

LEMMA AdvanceKeeps ==
    ASSUME Labs!ProgramParameters, LabInv, Disciplined(lab),
           NEW t \in LabThreads, Advances(t)
    PROVE  LabInv'
<1> DEFINE c == Now(t)
           i == pc[t]
<1>1. /\ i \in 1 .. Len(Code(lab, t)) /\ Len(Code(lab, t)) \in Nat
      /\ Obeys(lab, t, i) /\ asleep[t] = LabNone /\ UNCHANGED <<lab, script>>
      /\ pc' = [pc EXCEPT ![t] = i + 1] /\ pc \in [LabThreads -> Nat]
      /\ \A u \in LabThreads : pc[u] <= Len(Code(lab, u)) + 1 /\ Len(Code(lab, u)) \in Nat
      /\ t \in {LabMain, T1, T2} /\ {LabMain, T1, T2} \subseteq LabThreads
  <2>1. /\ i \in 1 .. Len(Code(lab, t)) /\ asleep[t] = LabNone /\ UNCHANGED <<lab, script>>
        /\ pc' = [pc EXCEPT ![t] = i + 1]
    BY DEF Advances, Inside
  <2>2. /\ pc \in [LabThreads -> Nat] /\ \A u \in LabThreads : pc[u] <= Len(Code(lab, u)) + 1
    BY DEF LabInv, LabTypes
  <2>3. /\ \A u \in LabThreads : Len(Code(lab, u)) \in Nat
        /\ Obeys(lab, t, i)
    BY <2>1 DEF Disciplined
  <2>4. t \in {LabMain, T1, T2}
    BY <2>1, <2>2, <2>3 DEF LabInv, Births
  <2> QED BY <2>1, <2>2, <2>3, <2>4 DEF Labs!ProgramParameters
<1>2. pc'[t] = i + 1 /\ \A u \in LabThreads : u # t => pc'[u] = pc[u]
  BY <1>1
<1>3. \A u \in LabThreads : u # t => (Inside(u)' <=> Inside(u)) /\ Now(u)' = Now(u)
  BY <1>1, <1>2 DEF Inside, Now, Code
<1>4. LabTypes'
  <2>1. lab' \in Counting /\ script' = Labs!Scripts[lab']
    BY <1>1 DEF LabInv, LabTypes
  <2>2. pc' \in [LabThreads -> Nat]
    BY <1>1
  <2>3. ASSUME NEW u \in LabThreads PROVE pc'[u] <= Len(Code(lab, u)) + 1
    <3>1. CASE u = t
      BY <1>1, <1>2, <3>1
    <3>2. CASE u # t
      <4>1. pc'[u] = pc[u] /\ pc[u] <= Len(Code(lab, u)) + 1
        BY <1>1, <1>2, <3>2
      <4> QED BY <4>1
    <3> QED BY <3>1, <3>2
  <2> QED BY <1>1, <2>1, <2>2, <2>3 DEF LabTypes, Advances, Code
<1>5. Sleeping'
  <2> SUFFICES ASSUME NEW u \in LabThreads, asleep'[u] # LabNone
               PROVE  Inside(u)' /\ \/ Now(u)'.op = "barrier" /\ asleep'[u] = "barrier"
                                    \/ /\ Now(u)'.op = "waitWhile"
                                       /\ asleep'[u] \in {"relock", "condFuel"}
    BY DEF Sleeping
  <2>1. asleep[u] # LabNone /\ u # t
    <3>1. \/ asleep'[u] = asleep[u]
          \/ asleep[u] = "condFuel" /\ asleep'[u] = "relock"
      BY DEF Advances
    <3>2. LabNone # "condFuel"
      BY DEF Labs!ProgramParameters
    <3>3. asleep[u] # LabNone
      BY <3>1, <3>2
    <3> QED BY <1>1, <3>3
  <2>2. Inside(u) /\ \/ Now(u).op = "barrier" /\ asleep[u] = "barrier"
                     \/ Now(u).op = "waitWhile" /\ asleep[u] \in {"relock", "condFuel"}
    BY <2>1 DEF LabInv, Sleeping
  <2> QED BY <1>3, <2>1, <2>2 DEF Advances
<1>6. Exclusive'
  <2> SUFFICES ASSUME NEW u \in LabThreads
               PROVE  owner'["mutex"] = u <=> HasMutex(lab, u, pc'[u]) /\ asleep'[u] = LabNone
    BY <1>1 DEF Exclusive
  <2>1. /\ owner["mutex"] = u <=> HasMutex(lab, u, pc[u]) /\ asleep[u] = LabNone
        /\ owner["mutex"] = t <=> HasMutex(lab, t, i)
    BY <1>1 DEF LabInv, Exclusive
  <2>2. asleep'[u] = LabNone <=> asleep[u] = LabNone
    BY DEF Advances, Labs!ProgramParameters
  <2>3. HasMutex(lab, t, i + 1) = (c.op = "lock" \/ (c.op # "unlock" /\ HasMutex(lab, t, i)))
    BY <1>1 DEF Obeys, Now
  <2>4. c.op = "unlock" => HasMutex(lab, t, i)
    BY <1>1 DEF Obeys, Now
  <2>5. LabNone # u /\ LabNone # t
    BY DEF Labs!ProgramParameters
  <2> HIDE DEF c, i
  <2>6. CASE u = t
    BY <1>1, <1>2, <2>1, <2>2, <2>3, <2>4, <2>5, <2>6 DEF Advances, c, i
  <2>7. CASE u # t
    BY <1>1, <1>2, <2>1, <2>2, <2>3, <2>4, <2>5, <2>7 DEF Advances, c, i
  <2> QED BY <2>6, <2>7
<1>7. ASSUME NEW u \in LabThreads, u # t, Inside(u), Now(u).op = "store", c.op = "store"
      PROVE  FALSE
  <2>1. Obeys(lab, u, pc[u])
    BY <1>7 DEF Disciplined, Inside
  <2>2. HasMutex(lab, u, pc[u]) /\ HasMutex(lab, t, i)
    BY <1>1, <1>7, <2>1 DEF Obeys, Now
  <2>3. asleep[u] = LabNone
    BY <1>7 DEF LabInv, Sleeping
  <2> QED BY <1>1, <1>7, <2>2, <2>3 DEF LabInv, Exclusive
<1>8. JustLoaded'
  <2> SUFFICES ASSUME NEW u \in LabThreads, Inside(u)', Now(u)'.op = "store"
               PROVE  reg'[u] = mem'[Now(u)'.x]
    BY DEF JustLoaded
  <2>1. CASE u # t
    <3>1. /\ Inside(u) /\ Now(u).op = "store" /\ Now(u)' = Now(u) /\ reg[u] = mem[Now(u).x]
          /\ reg'[u] = reg[u] /\ Now(u).x \in CountsIn(lab)
      <4>1. Inside(u) /\ Now(u).op = "store" /\ Now(u)' = Now(u)
        BY <1>3, <2>1
      <4>2. Obeys(lab, u, pc[u])
        BY <4>1 DEF Disciplined, Inside
      <4> QED BY <2>1, <4>1, <4>2 DEF LabInv, JustLoaded, Obeys, Now, Advances
    <3>2. c.op # "store"
      BY <1>7, <2>1, <3>1
    <3> QED BY <3>1, <3>2 DEF Advances
  <2>2. CASE u = t
    <3>1. /\ i + 1 \in 1 .. Len(Code(lab, t)) /\ Code(lab, t)[i + 1].op = "store"
          /\ Now(u)' = Code(lab, t)[i + 1]
      BY <1>1, <1>2, <2>2 DEF Inside, Now, Code
    <3>2. Obeys(lab, t, i + 1) /\ (i + 1) - 1 = i
      <4>1. Obeys(lab, t, i + 1)
        BY <3>1, ObeyAt, Zenon
      <4>2. (i + 1) - 1 = i
        BY <1>1
      <4> QED BY <4>1, <4>2
    <3>3. /\ Code(lab, t)[(i + 1) - 1].op = "load"
          /\ Code(lab, t)[(i + 1) - 1].x = Code(lab, t)[i + 1].x
          /\ Code(lab, t)[i + 1].x \in CountsIn(lab)
      BY <3>1, <3>2 DEF Obeys
    <3>4. c.op = "load" /\ c.x = Code(lab, t)[i + 1].x /\ c.x \in CountsIn(lab)
      BY <3>2, <3>3 DEF Now
    <3> QED BY <2>2, <3>1, <3>4 DEF Advances
  <2> QED BY <2>1, <2>2
<1>9. Totals'
  <2> SUFFICES ASSUME NEW x \in CountsIn(lab)
               PROVE  mem'[x] = Added(lab, x, LabMain, pc'[LabMain]) + Added(lab, x, T1, pc'[T1])
                                   + Added(lab, x, T2, pc'[T2])
    BY <1>1 DEF Totals
  <2> DEFINE k == IF c.op = "store" /\ c.x = x THEN c.k ELSE 0
  <2>1. Added(lab, x, t, i + 1) = Added(lab, x, t, i) + k /\ k \in Int
    BY <1>1 DEF Obeys, Now
  <2>2. /\ mem[x] = Added(lab, x, LabMain, pc[LabMain]) + Added(lab, x, T1, pc[T1])
                       + Added(lab, x, T2, pc[T2])
        /\ mem[x] \in Int
    BY DEF LabInv, Totals, LabTypes, Disciplined
  <2>3. mem'[x] = mem[x] + k
    <3>1. c.op = "store" /\ c.x = x => reg[t] = mem[x]
      BY <1>1 DEF LabInv, JustLoaded, Inside
    <3> QED BY <2>2, <3>1 DEF Advances
  <2>4. ASSUME NEW u \in {LabMain, T1, T2} PROVE Added(lab, x, u, pc[u]) \in Int
    <3>1. u \in LabThreads /\ pc[u] \in 0 .. Len(Code(lab, u)) + 1
      BY <1>1
    <3> QED BY <3>1 DEF Disciplined
  <2>5. LabMain # T1 /\ LabMain # T2 /\ T1 # T2
    BY DEF Labs!ProgramParameters
  <2> HIDE DEF k, i
  <2>6. ASSUME NEW u \in {LabMain, T1, T2}
        PROVE  Added(lab, x, u, pc'[u])
                  = Added(lab, x, u, pc[u]) + (IF u = t THEN k ELSE 0)
    <3>1. u \in LabThreads /\ Added(lab, x, u, pc[u]) \in Int
      BY <1>1, <2>4
    <3>2. CASE u = t
      BY <1>2, <2>1, <3>2 DEF i
    <3>3. CASE u # t
      <4>1. pc'[u] = pc[u]
        BY <1>2, <3>1, <3>3
      <4> QED BY <3>1, <3>3, <4>1
    <3> QED BY <3>2, <3>3
  <2> DEFINE a(u) == Added(lab, x, u, pc[u])
             b(u) == Added(lab, x, u, pc'[u])
  <2>7. /\ a(LabMain) \in Int /\ a(T1) \in Int /\ a(T2) \in Int
        /\ b(LabMain) = a(LabMain) + (IF LabMain = t THEN k ELSE 0)
        /\ b(T1) = a(T1) + (IF T1 = t THEN k ELSE 0)
        /\ b(T2) = a(T2) + (IF T2 = t THEN k ELSE 0)
        /\ mem'[x] = a(LabMain) + a(T1) + a(T2) + k
    BY <2>2, <2>3, <2>4, <2>6
  <2> HIDE DEF a, b
  <2>8. mem'[x] = b(LabMain) + b(T1) + b(T2)
    <3>1. t = LabMain \/ t = T1 \/ t = T2
      BY <1>1
    <3> QED BY <2>1, <2>5, <2>7, <3>1
  <2> QED BY <2>8 DEF b
<1>10. Births'
  <2>1. \A u \in LabThreads : pc'[u] > 0 => u \in {LabMain, T1, T2}
    BY <1>1, <1>2 DEF LabInv, Births
  <2>2. ASSUME NEW u \in {T1, T2}
        PROVE  /\ pc'[LabMain] <= CreatedAt(u) => pc'[u] = 0
               /\ pc'[LabMain] > JoinedAt(lab, u) => pc'[u] = Len(Code(lab, u)) + 1
    <3>1. /\ pc[LabMain] <= CreatedAt(u) => pc[u] = 0
          /\ pc[LabMain] > JoinedAt(lab, u) => pc[u] = Len(Code(lab, u)) + 1
          /\ CreatedAt(u) \in Nat /\ JoinedAt(lab, u) \in Nat /\ u \in LabThreads
      BY <1>1 DEF LabInv, Births, Disciplined, CreatedAt
    <3>2. LabMain # u
      BY DEF Labs!ProgramParameters
    <3>3. CASE t = LabMain
      <4>1. i = JoinedAt(lab, u) => c.op = "join" /\ i = JoinedAt(lab, c.t) /\ c.t \in {T1, T2}
        BY <1>1, <3>3 DEF Obeys, Now
      <4>2. JoinedAt(lab, u) = JoinedAt(lab, c.t) /\ c.t \in {T1, T2} => c.t = u
        BY DEF JoinedAt, Labs!ProgramParameters
      <4>3. i = JoinedAt(lab, u) => pc[u] = Len(Code(lab, u)) + 1
        BY <4>1, <4>2 DEF Advances
      <4> QED BY <1>1, <1>2, <3>1, <3>2, <3>3, <4>3
    <3>4. CASE t = u
      BY <1>1, <1>2, <3>1, <3>2, <3>4
    <3>5. CASE t # LabMain /\ t # u
      BY <1>1, <1>2, <3>1, <3>5
    <3> QED BY <3>3, <3>4, <3>5
  <2> QED BY <1>1, <2>1, <2>2 DEF Births, Code
<1> QED BY <1>4, <1>5, <1>6, <1>8, <1>9, <1>10 DEF LabInv

(* A step that changes only whether t sleeps and has the mutex.            *)
LEMMA RestKeeps ==
    ASSUME Labs!ProgramParameters, LabInv, Disciplined(lab),
           NEW t \in LabThreads, NEW w \in {LabNone, "relock", "barrier", "condFuel"},
           UNCHANGED <<lab, script, pc, reg, mem>>,
           asleep' = [asleep EXCEPT ![t] = w],
           w # LabNone => Inside(t) /\ \/ Now(t).op = "barrier" /\ w = "barrier"
                                       \/ Now(t).op = "waitWhile" /\ w \in {"relock", "condFuel"},
           Inside(t) => Now(t).op # "store",
           owner' \in [Mutexes -> LabThreads \cup {LabNone}],
           \A u \in LabThreads : u # t => (owner'["mutex"] = u <=> owner["mutex"] = u),
           owner'["mutex"] = t <=> HasMutex(lab, t, pc[t]) /\ w = LabNone
    PROVE  LabInv'
<1>1. /\ asleep \in [LabThreads -> {LabNone, "relock", "barrier", "condFuel"}]
      /\ asleep' \in [LabThreads -> {LabNone, "relock", "barrier", "condFuel"}]
      /\ asleep'[t] = w /\ \A u \in LabThreads : u # t => asleep'[u] = asleep[u]
  BY DEF LabInv, LabTypes
<1>2. \A u \in LabThreads : (Inside(u)' <=> Inside(u)) /\ Now(u)' = Now(u)
  BY DEF Inside, Now, Code
<1>3. LabTypes'
  BY <1>1 DEF LabInv, LabTypes, Code
<1>4. Sleeping'
  BY <1>1, <1>2 DEF LabInv, Sleeping
<1>5. Exclusive'
  BY <1>1 DEF LabInv, Exclusive
<1>6. JustLoaded'
  BY <1>1, <1>2 DEF LabInv, JustLoaded
<1>7. Totals' /\ Births'
  BY DEF LabInv, Totals, Births, Code
<1> QED BY <1>3, <1>4, <1>5, <1>6, <1>7 DEF LabInv

(* A step of several threads over a barrier, or of main over a create.     *)
LEMMA LiftKeeps ==
    ASSUME Labs!ProgramParameters, LabInv, Disciplined(lab), NEW G \in SUBSET LabThreads,
           UNCHANGED <<lab, script, reg, mem, owner>>,
           pc' \in [LabThreads -> Nat],
           asleep' \in [LabThreads -> {LabNone, "relock", "barrier", "condFuel"}],
           \A u \in LabThreads \ G : pc'[u] = pc[u] /\ asleep'[u] = asleep[u],
           \A u \in G : asleep'[u] = LabNone,
           \A u \in G :
              \/ /\ Inside(u) /\ pc'[u] = pc[u] + 1
                 /\ Now(u).op = "barrier" \/ (Now(u).op = "create" /\ asleep[u] = LabNone)
              \/ /\ u \in {T1, T2} /\ pc[u] = 0 /\ pc'[u] = 1 /\ asleep[u] = LabNone
                 /\ pc'[LabMain] > CreatedAt(u)
    PROVE  LabInv'
<1>1. /\ pc \in [LabThreads -> Nat] /\ UNCHANGED <<lab, script>>
      /\ \A u \in LabThreads : pc[u] <= Len(Code(lab, u)) + 1 /\ Len(Code(lab, u)) \in Nat
      /\ {LabMain, T1, T2} \subseteq LabThreads
  <2>1. pc \in [LabThreads -> Nat] /\ \A u \in LabThreads : pc[u] <= Len(Code(lab, u)) + 1
    BY DEF LabInv, LabTypes
  <2>2. \A u \in LabThreads : Len(Code(lab, u)) \in Nat
    BY DEF Disciplined
  <2>3. {LabMain, T1, T2} \subseteq LabThreads
    BY DEF Labs!ProgramParameters
  <2> QED BY <2>1, <2>2, <2>3
<1>2. \A u \in LabThreads \ G : (Inside(u)' <=> Inside(u)) /\ Now(u)' = Now(u)
  BY DEF Inside, Now, Code
<1>3. ASSUME NEW u \in G
      PROVE  /\ HasMutex(lab, u, pc'[u]) <=> HasMutex(lab, u, pc[u])
             /\ asleep[u] # LabNone => ~ HasMutex(lab, u, pc[u])
             /\ \A x \in CountsIn(lab) : Added(lab, x, u, pc'[u]) = Added(lab, x, u, pc[u])
             /\ pc'[u] >= pc[u] /\ pc'[u] <= Len(Code(lab, u)) + 1
             /\ Inside(u)' => Now(u)'.op # "store"
  <2>1. CASE /\ Inside(u) /\ pc'[u] = pc[u] + 1
             /\ Now(u).op = "barrier" \/ (Now(u).op = "create" /\ asleep[u] = LabNone)
    <3>1. /\ Obeys(lab, u, pc[u]) /\ pc[u] \in 1 .. Len(Code(lab, u))
          /\ Now(u).op \notin {"lock", "unlock", "load", "store"}
          /\ pc[u] \in 0 .. Len(Code(lab, u)) + 1
      <4>1. u \in LabThreads /\ pc[u] \in 1 .. Len(Code(lab, u))
        BY <2>1 DEF Inside
      <4>2. Obeys(lab, u, pc[u])
        BY <4>1, ObeyAt, Zenon
      <4>3. pc[u] \in 0 .. Len(Code(lab, u)) + 1
        BY <1>1, <4>1
      <4>4. Now(u).op \notin {"lock", "unlock", "load", "store"}
        BY <2>1
      <4> QED BY <4>1, <4>2, <4>3, <4>4
    <3>2. HasMutex(lab, u, pc[u] + 1) <=> HasMutex(lab, u, pc[u])
      BY <3>1 DEF Obeys, Now
    <3>3. asleep[u] # LabNone => ~ HasMutex(lab, u, pc[u])
      BY <2>1, <3>1 DEF Obeys, Now
    <3>4. ASSUME NEW x \in CountsIn(lab)
          PROVE  Added(lab, x, u, pc[u] + 1) = Added(lab, x, u, pc[u])
      <4>1. Added(lab, x, u, pc[u] + 1) = Added(lab, x, u, pc[u]) + 0
        BY <3>1 DEF Obeys, Now
      <4>2. Added(lab, x, u, pc[u]) \in Int
        BY <3>1 DEF Disciplined
      <4> QED BY <4>1, <4>2
    <3>5. Inside(u)' => Now(u)'.op # "store"
      <4> SUFFICES ASSUME Inside(u)', Now(u)'.op = "store" PROVE FALSE
        OBVIOUS
      <4>1. /\ pc[u] + 1 \in 1 .. Len(Code(lab, u)) /\ Code(lab, u)[pc[u] + 1].op = "store"
            /\ (pc[u] + 1) - 1 = pc[u]
        BY <1>1, <2>1 DEF Inside, Now, Code
      <4>2. Obeys(lab, u, pc[u] + 1)
        BY <1>1, <4>1 DEF Disciplined
      <4>3. Code(lab, u)[(pc[u] + 1) - 1].op = "load"
        BY <4>1, <4>2 DEF Obeys
      <4> QED BY <3>1, <4>1, <4>3 DEF Now
    <3>6. pc'[u] = pc[u] + 1 /\ pc'[u] >= pc[u] /\ pc'[u] <= Len(Code(lab, u)) + 1
      BY <2>1, <3>1
    <3>7. \A x \in CountsIn(lab) : Added(lab, x, u, pc'[u]) = Added(lab, x, u, pc[u])
      BY <3>4, <3>6
    <3> QED BY <3>2, <3>3, <3>5, <3>6, <3>7
  <2>2. CASE u \in {T1, T2} /\ pc[u] = 0 /\ pc'[u] = 1 /\ asleep[u] = LabNone
    <3>1. Inside(u)' => Now(u)'.op # "store"
      <4> SUFFICES ASSUME Inside(u)', Now(u)'.op = "store" PROVE FALSE
        OBVIOUS
      <4>1. 1 \in 1 .. Len(Code(lab, u)) /\ Code(lab, u)[1].op = "store"
        BY <1>1, <2>2 DEF Inside, Now, Code
      <4>2. Obeys(lab, u, 1)
        BY <4>1 DEF Disciplined
      <4> QED BY <4>1, <4>2 DEF Obeys
    <3>2. /\ ~ HasMutex(lab, u, 0) /\ ~ HasMutex(lab, u, 1)
          /\ \A x \in CountsIn(lab) : Added(lab, x, u, 0) = 0 /\ Added(lab, x, u, 1) = 0
      BY DEF Disciplined
    <3> QED BY <1>1, <2>2, <3>1, <3>2
  <2> QED BY <2>1, <2>2
<1>4. LabTypes'
  <2>1. lab' \in Counting /\ script' = Labs!Scripts[lab']
    BY <1>1 DEF LabInv, LabTypes
  <2>2. \A u \in LabThreads : pc'[u] <= Len(Code(lab, u)) + 1
    BY <1>1, <1>3
  <2> QED BY <1>1, <2>1, <2>2 DEF LabInv, LabTypes, Code
<1>5. Sleeping'
  <2> SUFFICES ASSUME NEW u \in LabThreads, asleep'[u] # LabNone
               PROVE  Inside(u)' /\ \/ Now(u)'.op = "barrier" /\ asleep'[u] = "barrier"
                                    \/ /\ Now(u)'.op = "waitWhile"
                                       /\ asleep'[u] \in {"relock", "condFuel"}
    BY DEF Sleeping
  <2>1. u \in LabThreads \ G
    OBVIOUS
  <2> QED BY <1>2, <2>1 DEF LabInv, Sleeping
<1>6. Exclusive'
  <2> SUFFICES ASSUME NEW u \in LabThreads
               PROVE  owner["mutex"] = u <=> HasMutex(lab, u, pc'[u]) /\ asleep'[u] = LabNone
    BY DEF Exclusive
  <2>1. owner["mutex"] = u <=> HasMutex(lab, u, pc[u]) /\ asleep[u] = LabNone
    BY DEF LabInv, Exclusive
  <2>2. CASE u \in G
    BY <1>3, <2>1, <2>2
  <2>3. CASE u \notin G
    BY <2>1, <2>3
  <2> QED BY <2>2, <2>3
<1>7. JustLoaded'
  <2> SUFFICES ASSUME NEW u \in LabThreads, Inside(u)', Now(u)'.op = "store"
               PROVE  reg[u] = mem[Now(u)'.x]
    BY DEF JustLoaded
  <2>1. u \in LabThreads \ G
    BY <1>3
  <2> QED BY <1>2, <2>1 DEF LabInv, JustLoaded
<1>8. Totals'
  <2>1. \A u \in LabThreads, x \in CountsIn(lab) :
           Added(lab, x, u, pc'[u]) = Added(lab, x, u, pc[u])
    BY <1>3
  <2> QED BY <1>1, <2>1 DEF LabInv, Totals
<1>9. Births'
  <2>1. \A u \in LabThreads : pc'[u] > 0 => u \in {LabMain, T1, T2}
    <3>1. \A u \in LabThreads : pc[u] > 0 => u \in {LabMain, T1, T2}
      BY DEF LabInv, Births
    <3>2. \A u \in G : Inside(u) => pc[u] > 0
      BY DEF Inside
    <3> QED BY <3>1, <3>2
  <2>2. ASSUME NEW u \in {T1, T2}
        PROVE  /\ pc'[LabMain] <= CreatedAt(u) => pc'[u] = 0
               /\ pc'[LabMain] > JoinedAt(lab, u) => pc'[u] = Len(Code(lab, u)) + 1
    <3>1. /\ pc[LabMain] <= CreatedAt(u) => pc[u] = 0
          /\ pc[LabMain] > JoinedAt(lab, u) => pc[u] = Len(Code(lab, u)) + 1
          /\ CreatedAt(u) \in Nat /\ JoinedAt(lab, u) \in Nat /\ u \in LabThreads
      BY <1>1 DEF LabInv, Births, Disciplined, CreatedAt
    <3>2. pc[LabMain] <= pc'[LabMain]
      BY <1>1, <1>3
    <3>3. pc'[LabMain] > JoinedAt(lab, u) => pc[LabMain] > JoinedAt(lab, u)
      <4> SUFFICES ASSUME pc'[LabMain] > JoinedAt(lab, u), pc[LabMain] <= JoinedAt(lab, u)
                   PROVE  FALSE
        <5>1. pc[LabMain] \in Nat /\ JoinedAt(lab, u) \in Nat
          BY <1>1, <3>1
        <5> QED BY <5>1
      <4>0. LabMain \notin {T1, T2} /\ LabMain \in LabThreads
        BY <1>1 DEF Labs!ProgramParameters
      <4>1. LabMain \in G
        <5>1. pc[LabMain] \in Nat /\ JoinedAt(lab, u) \in Nat
          BY <1>1, <3>1
        <5>2. pc'[LabMain] # pc[LabMain]
          BY <5>1
        <5> QED BY <4>0, <5>2
      <4>2. /\ Inside(LabMain) /\ pc'[LabMain] = pc[LabMain] + 1
            /\ Now(LabMain).op \in {"barrier", "create"}
        BY <4>0, <4>1
      <4>3. pc[LabMain] = JoinedAt(lab, u)
        <5>1. pc[LabMain] \in Nat /\ JoinedAt(lab, u) \in Nat
          BY <1>1, <3>1
        <5>2. pc'[LabMain] = pc[LabMain] + 1
          BY <4>2
        <5> QED BY <5>1, <5>2
      <4>4. Obeys(lab, LabMain, pc[LabMain])
        BY <1>1, <4>2 DEF Disciplined, Inside
      <4> QED BY <4>2, <4>3, <4>4 DEF Obeys, Now
    <3>4. u \in G => pc[u] # Len(Code(lab, u)) + 1
      <4>1. Len(Code(lab, u)) \in Nat
        BY <1>1, <3>1
      <4>2. u \in G => Inside(u) \/ pc[u] = 0
        OBVIOUS
      <4> QED BY <4>1, <4>2 DEF Inside
    <3>5. CASE u \in G
      <4>1. pc'[LabMain] \in Nat /\ pc[LabMain] \in Nat
        BY <1>1
      <4>2. ~ (pc'[LabMain] > JoinedAt(lab, u))
        BY <3>1, <3>3, <3>4, <3>5
      <4>3. Inside(u) => pc[u] # 0
        BY DEF Inside
      <4>4. \/ Inside(u)
            \/ pc'[LabMain] > CreatedAt(u)
        BY <3>5
      <4>5. pc'[LabMain] <= CreatedAt(u) => FALSE
        <5>1. CASE Inside(u)
          <6>1. ~ (pc[LabMain] <= CreatedAt(u))
            BY <3>1, <4>3, <5>1
          <6> QED BY <3>1, <3>2, <4>1, <6>1
        <5>2. CASE pc'[LabMain] > CreatedAt(u)
          BY <3>1, <4>1, <5>2
        <5> QED BY <4>4, <5>1, <5>2
      <4> QED BY <4>2, <4>5
    <3>6. CASE u \notin G
      <4>1. pc'[u] = pc[u]
        BY <3>1, <3>6
      <4>2. pc'[LabMain] <= CreatedAt(u) => pc[LabMain] <= CreatedAt(u)
        <5>1. pc[LabMain] \in Nat /\ pc'[LabMain] \in Nat
          BY <1>1
        <5> QED BY <3>1, <3>2, <5>1
      <4> QED BY <3>1, <3>3, <4>1, <4>2
    <3> QED BY <3>5, <3>6
  <2> QED BY <1>1, <2>1, <2>2 DEF Births, Code
<1> QED BY <1>4, <1>5, <1>6, <1>7, <1>8, <1>9 DEF LabInv

-----------------------------------------------------------------------------
(* The machine's steps.                                                    *)
LEMMA LockKeeps ==
    ASSUME Labs!ProgramParameters, LabInv, Disciplined(lab), UNCHANGED lab,
           NEW t \in LabThreads,
           \/ Labs!DoLock(t) \/ Labs!DoUnlock(t) \/ Labs!DoLoad(t) \/ Labs!DoStore(t)
           \/ Labs!DoneWaiting(t) \/ Labs!DoSignal(t) \/ Labs!DoJoin(t)
    PROVE  LabInv'
<1>1. /\ pc \in [LabThreads -> Nat] /\ reg \in [LabThreads -> Int] /\ mem \in [Words -> Int]
      /\ asleep \in [LabThreads -> {LabNone, "relock", "barrier", "condFuel"}]
      /\ owner \in [Mutexes -> LabThreads \cup {LabNone}] /\ "mutex" \in Mutexes
      /\ CountsIn(lab) \subseteq Words /\ LabNone \notin {"relock", "barrier", "condFuel"}
  BY DEF LabInv, LabTypes, Disciplined, Labs!ProgramParameters
<1>2. ASSUME Labs!DoLock(t) PROVE Advances(t)
  <2>1. /\ Inside(t) /\ asleep[t] = LabNone
        /\ Labs!I(t) = Now(t) /\ Now(t).op = "lock" /\ Now(t).m = "mutex"
    BY <1>2, AtMeans DEF Labs!DoLock, Obeys, Now
  <2>2. /\ pc' = [pc EXCEPT ![t] = @ + 1] /\ owner["mutex"] = LabNone
        /\ owner' = [owner EXCEPT !["mutex"] = t] /\ UNCHANGED <<script, asleep, reg, mem>>
    BY <1>2, <2>1 DEF Labs!DoLock, Labs!Step
  <2> QED BY <1>1, <2>1, <2>2 DEF Advances
<1>3. ASSUME Labs!DoUnlock(t) PROVE Advances(t)
  <2>1. /\ Inside(t) /\ asleep[t] = LabNone
        /\ Labs!I(t) = Now(t) /\ Now(t).op = "unlock" /\ Now(t).m = "mutex"
    BY <1>3, AtMeans DEF Labs!DoUnlock, Obeys, Now
  <2>2. /\ pc' = [pc EXCEPT ![t] = @ + 1]
        /\ owner' = [owner EXCEPT !["mutex"] = LabNone] /\ UNCHANGED <<script, asleep, reg, mem>>
    BY <1>3, <2>1 DEF Labs!DoUnlock, Labs!Step
  <2> QED BY <1>1, <2>1, <2>2 DEF Advances
<1>4. ASSUME Labs!DoLoad(t) PROVE Advances(t)
  <2>1. /\ Inside(t) /\ asleep[t] = LabNone
        /\ Labs!I(t) = Now(t) /\ Now(t).op = "load" /\ Now(t).x \in CountsIn(lab)
    BY <1>4, AtMeans DEF Labs!DoLoad, Obeys, Now
  <2>2. /\ pc' = [pc EXCEPT ![t] = @ + 1]
        /\ reg' = [reg EXCEPT ![t] = mem[Now(t).x]] /\ UNCHANGED <<script, asleep, owner, mem>>
    BY <1>4, <2>1 DEF Labs!DoLoad, Labs!Step
  <2> QED BY <1>1, <2>1, <2>2 DEF Advances
<1>5. ASSUME Labs!DoStore(t) PROVE Advances(t)
  <2>1. /\ Inside(t) /\ asleep[t] = LabNone
        /\ Labs!I(t) = Now(t) /\ Now(t).op = "store" /\ Now(t).x \in CountsIn(lab)
        /\ Now(t).k \in Int
    BY <1>5, AtMeans DEF Labs!DoStore, Obeys, Now
  <2>2. /\ pc' = [pc EXCEPT ![t] = @ + 1]
        /\ mem' = [mem EXCEPT ![Now(t).x] = reg[t] + Now(t).k]
        /\ UNCHANGED <<script, asleep, owner, reg>>
    BY <1>5, <2>1 DEF Labs!DoStore, Labs!Step
  <2> QED BY <1>1, <2>1, <2>2 DEF Advances
<1>6. ASSUME Labs!DoneWaiting(t) PROVE Advances(t)
  <2>1. /\ Inside(t) /\ asleep[t] = LabNone /\ Labs!I(t) = Now(t) /\ Now(t).op = "waitWhile"
    BY <1>6, AtMeans DEF Labs!DoneWaiting
  <2>2. /\ pc' = [pc EXCEPT ![t] = @ + 1] /\ UNCHANGED <<script, asleep, owner, reg, mem>>
    BY <1>6 DEF Labs!DoneWaiting, Labs!Step
  <2> QED BY <1>1, <2>1, <2>2 DEF Advances
<1>7. ASSUME Labs!DoSignal(t) PROVE Advances(t)
  <2>1. /\ Inside(t) /\ asleep[t] = LabNone
        /\ Labs!I(t) = Now(t) /\ Now(t).op = "signal" /\ Now(t).c = "condFuel"
    BY <1>7, AtMeans DEF Labs!DoSignal, Obeys, Now
  <2>2. /\ pc' = [pc EXCEPT ![t] = @ + 1] /\ UNCHANGED <<script, owner, reg, mem>>
    BY <1>7 DEF Labs!DoSignal, Labs!Step
  <2>3. \/ UNCHANGED asleep
        \/ \E w \in LabThreads : asleep[w] = "condFuel" /\ asleep' = [asleep EXCEPT ![w] = "relock"]
    BY <1>7, <2>1 DEF Labs!DoSignal, Labs!Waiters
  <2>4. /\ asleep' \in [LabThreads -> {LabNone, "relock", "barrier", "condFuel"}]
        /\ \A u \in LabThreads : \/ asleep'[u] = asleep[u]
                                 \/ asleep[u] = "condFuel" /\ asleep'[u] = "relock"
    BY <1>1, <2>3
  <2> QED BY <1>1, <2>1, <2>2, <2>4 DEF Advances
<1>8. ASSUME Labs!DoJoin(t) PROVE Advances(t)
  <2>1. /\ Inside(t) /\ asleep[t] = LabNone
        /\ Labs!I(t) = Now(t) /\ Now(t).op = "join" /\ Now(t).t \in {T1, T2}
    BY <1>8, AtMeans DEF Labs!DoJoin, Obeys, Now
  <2>2. pc[Now(t).t] = Len(script[Now(t).t]) + 1
    BY <1>8, <2>1 DEF Labs!DoJoin, Labs!Ended
  <2>3. pc[Now(t).t] = Len(Code(lab, Now(t).t)) + 1
    BY <2>2 DEF LabInv, LabTypes, Code
  <2>4. /\ pc' = [pc EXCEPT ![t] = @ + 1] /\ UNCHANGED <<script, asleep, owner, reg, mem>>
    BY <1>8 DEF Labs!DoJoin, Labs!Step
  <2> QED BY <1>1, <2>1, <2>3, <2>4 DEF Advances
<1> QED BY <1>2, <1>3, <1>4, <1>5, <1>6, <1>7, <1>8, AdvanceKeeps

LEMMA WaitKeeps ==
    ASSUME Labs!ProgramParameters, LabInv, Disciplined(lab), UNCHANGED lab,
           NEW t \in LabThreads,
           Labs!DoWait(t) \/ Labs!Relock(t) \/ Labs!Spurious(t)
    PROVE  LabInv'
<1>1. /\ pc \in [LabThreads -> Nat]
      /\ asleep \in [LabThreads -> {LabNone, "relock", "barrier", "condFuel"}]
      /\ owner \in [Mutexes -> LabThreads \cup {LabNone}] /\ "mutex" \in Mutexes
      /\ LabNone \notin LabThreads \cup {"relock", "barrier", "condFuel"}
  BY DEF LabInv, LabTypes, Labs!ProgramParameters
<1>2. owner["mutex"] = t <=> HasMutex(lab, t, pc[t]) /\ asleep[t] = LabNone
  BY DEF LabInv, Exclusive
<1>3. CASE Labs!DoWait(t)
  <2>1. Labs!At(t, "wait") \/ Labs!At(t, "waitWhile")
    BY <1>3 DEF Labs!DoWait
  <2>2. /\ Inside(t) /\ asleep[t] = LabNone /\ Labs!I(t) = Now(t) /\ Obeys(lab, t, pc[t])
        /\ Now(t).op \in {"wait", "waitWhile"}
    BY <2>1, AtMeans
  <2>3. /\ Now(t).op = "waitWhile" /\ Now(t).m = "mutex" /\ Now(t).c = "condFuel"
        /\ HasMutex(lab, t, pc[t])
    BY <2>2 DEF Obeys, Now
  <2>4. /\ asleep' = [asleep EXCEPT ![t] = "condFuel"]
        /\ owner' = [owner EXCEPT !["mutex"] = LabNone]
        /\ UNCHANGED <<script, pc, reg, mem>>
    BY <1>3, <2>2, <2>3 DEF Labs!DoWait, Labs!Sleep
  <2>5. /\ owner' \in [Mutexes -> LabThreads \cup {LabNone}]
        /\ owner["mutex"] = t /\ owner'["mutex"] = LabNone
    BY <1>1, <1>2, <2>2, <2>3, <2>4
  <2> QED BY <1>1, <2>2, <2>3, <2>4, <2>5, RestKeeps
<1>4. CASE Labs!Relock(t)
  <2>1. asleep[t] = "relock" /\ Inside(t) /\ Now(t).op = "waitWhile"
    BY <1>1, <1>4 DEF Labs!Relock, LabInv, Sleeping
  <2>2. /\ Labs!I(t) = Now(t) /\ Now(t).m = "mutex" /\ HasMutex(lab, t, pc[t])
    <3>1. Obeys(lab, t, pc[t])
      BY <2>1 DEF Disciplined, Inside
    <3>2. Labs!I(t) = Now(t)
      BY DEF LabInv, LabTypes, Labs!I, Now, Code
    <3> QED BY <2>1, <3>1, <3>2 DEF Obeys, Now
  <2>3. /\ asleep' = [asleep EXCEPT ![t] = LabNone] /\ owner["mutex"] = LabNone
        /\ owner' = [owner EXCEPT !["mutex"] = t]
        /\ UNCHANGED <<script, pc, reg, mem>>
    BY <1>4, <2>1, <2>2 DEF Labs!Relock
  <2>4. /\ owner' \in [Mutexes -> LabThreads \cup {LabNone}]
        /\ owner'["mutex"] = t
    BY <1>1, <2>3
  <2> QED BY <1>1, <2>1, <2>2, <2>3, <2>4, RestKeeps
<1>5. CASE Labs!Spurious(t)
  <2>1. asleep[t] # LabNone /\ Labs!I(t).op \in {"wait", "waitWhile"}
    BY <1>5 DEF Labs!Spurious
  <2>2. Labs!I(t) = Now(t)
    BY DEF LabInv, LabTypes, Labs!I, Now, Code
  <2>3. Inside(t) /\ Now(t).op = "waitWhile"
    BY <2>1, <2>2 DEF LabInv, Sleeping
  <2>4. /\ asleep' = [asleep EXCEPT ![t] = "relock"] /\ UNCHANGED <<script, pc, reg, mem, owner>>
    BY <1>5 DEF Labs!Spurious
  <2> QED BY <1>1, <1>2, <2>1, <2>3, <2>4, RestKeeps
<1> QED BY <1>3, <1>4, <1>5

LEMMA ArriveKeeps ==
    ASSUME Labs!ProgramParameters, LabInv, Disciplined(lab), UNCHANGED lab,
           NEW t \in LabThreads, Labs!Arrive(t)
    PROVE  LabInv'
<1>1. /\ pc \in [LabThreads -> Nat]
      /\ asleep \in [LabThreads -> {LabNone, "relock", "barrier", "condFuel"}]
      /\ owner \in [Mutexes -> LabThreads \cup {LabNone}] /\ "mutex" \in Mutexes
      /\ LabNone \notin LabThreads \cup {"relock", "barrier", "condFuel"}
  BY DEF LabInv, LabTypes, Labs!ProgramParameters
<1>2. /\ Inside(t) /\ asleep[t] = LabNone /\ Labs!I(t) = Now(t)
      /\ Now(t).op = "barrier" /\ Obeys(lab, t, pc[t])
  BY AtMeans DEF Labs!Arrive
<1>3. Now(t).c = "barrier" /\ ~ HasMutex(lab, t, pc[t])
  BY <1>2 DEF Obeys, Now
<1>4. owner["mutex"] # t
  BY <1>3 DEF LabInv, Exclusive
<1> DEFINE G == Labs!Waiters("barrier") \cup {t}
<1>5. UNCHANGED <<script, reg, mem, owner>>
  BY DEF Labs!Arrive
<1>6. \/ asleep' = [asleep EXCEPT ![t] = "barrier"] /\ UNCHANGED pc
      \/ /\ asleep' = [w \in LabThreads |-> IF w \in G THEN LabNone ELSE asleep[w]]
         /\ pc' = [w \in LabThreads |-> IF w \in G THEN pc[w] + 1 ELSE pc[w]]
  BY <1>2, <1>3 DEF Labs!Arrive
<1>7. CASE asleep' = [asleep EXCEPT ![t] = "barrier"] /\ UNCHANGED pc
  BY <1>1, <1>2, <1>3, <1>4, <1>5, <1>7, RestKeeps
<1>8. CASE /\ asleep' = [w \in LabThreads |-> IF w \in G THEN LabNone ELSE asleep[w]]
           /\ pc' = [w \in LabThreads |-> IF w \in G THEN pc[w] + 1 ELSE pc[w]]
  <2>1. \A u \in G : u \in LabThreads /\ Inside(u) /\ Now(u).op = "barrier"
    BY <1>1, <1>2 DEF Labs!Waiters, LabInv, Sleeping
  <2> HIDE DEF G
  <2>2. /\ pc' \in [LabThreads -> Nat]
        /\ asleep' \in [LabThreads -> {LabNone, "relock", "barrier", "condFuel"}]
        /\ \A u \in LabThreads \ G : pc'[u] = pc[u] /\ asleep'[u] = asleep[u]
        /\ \A u \in G : asleep'[u] = LabNone /\ pc'[u] = pc[u] + 1
    BY <1>1, <1>8, <2>1
  <2> QED BY <1>5, <2>1, <2>2, LiftKeeps
<1> QED BY <1>6, <1>7, <1>8

LEMMA CreateKeepsLab ==
    ASSUME Labs!ProgramParameters, LabInv, Disciplined(lab), UNCHANGED lab,
           NEW t \in LabThreads, Labs!DoCreate(t)
    PROVE  LabInv'
<1>1. /\ pc \in [LabThreads -> Nat]
      /\ asleep \in [LabThreads -> {LabNone, "relock", "barrier", "condFuel"}]
      /\ {LabMain, T1, T2} \subseteq LabThreads /\ LabMain \notin {T1, T2}
  BY DEF LabInv, LabTypes, Labs!ProgramParameters
<1>2. /\ Inside(t) /\ asleep[t] = LabNone /\ Labs!I(t) = Now(t)
      /\ Now(t).op = "create" /\ Obeys(lab, t, pc[t])
  BY AtMeans DEF Labs!DoCreate
<1> DEFINE new == Now(t).t
           G == {t, new}
<1>3. t = LabMain /\ new \in {T1, T2} /\ pc[t] = CreatedAt(new)
  BY <1>2 DEF Obeys, Now
<1>4. pc[new] = 0
  <2>1. CreatedAt(new) \in Nat
    BY DEF CreatedAt
  <2> QED BY <1>3, <2>1 DEF LabInv, Births
<1>5. asleep[new] = LabNone
  BY <1>1, <1>3, <1>4 DEF LabInv, Sleeping, Inside
<1>6. /\ pc' = [pc EXCEPT ![t] = @ + 1, ![new] = 1]
      /\ UNCHANGED <<script, asleep, reg, mem, owner>>
  BY <1>2 DEF Labs!DoCreate
<1> HIDE DEF new
<1>7. /\ pc' \in [LabThreads -> Nat] /\ pc'[t] = pc[t] + 1 /\ pc'[new] = 1
      /\ \A u \in LabThreads \ G : pc'[u] = pc[u] /\ asleep'[u] = asleep[u]
      /\ \A u \in G : asleep'[u] = LabNone
  BY <1>1, <1>2, <1>3, <1>5, <1>6
<1>8. pc'[LabMain] > CreatedAt(new)
  BY <1>1, <1>3, <1>7
<1>9. G \in SUBSET LabThreads
  BY <1>1, <1>3
<1>10. \A u \in G :
          \/ /\ Inside(u) /\ pc'[u] = pc[u] + 1
             /\ Now(u).op = "barrier" \/ (Now(u).op = "create" /\ asleep[u] = LabNone)
          \/ /\ u \in {T1, T2} /\ pc[u] = 0 /\ pc'[u] = 1 /\ asleep[u] = LabNone
             /\ pc'[LabMain] > CreatedAt(u)
  BY <1>2, <1>3, <1>4, <1>5, <1>7, <1>8
<1> HIDE DEF G
<1> QED BY <1>1, <1>6, <1>7, <1>9, <1>10, LiftKeeps

(* No other instruction occurs in these programs.                          *)
LEMMA LabKeeps ==
    ASSUME Labs!ProgramParameters, LabInv, Disciplined(lab), [Labs!Next]_(Labs!threadVars)
    PROVE  LabInv'
<1>1. CASE UNCHANGED Labs!threadVars
  BY <1>1 DEF Labs!threadVars, Labs!machine, LabInv, LabTypes, Sleeping, Exclusive,
              JustLoaded, Totals, Births, Inside, Now, Code
<1>2. ASSUME NEW t \in LabThreads, Labs!Act(t) \/ Labs!Spurious(t), UNCHANGED lab
      PROVE  LabInv'
  <2>1. ASSUME NEW op, op \in {"test", "goto", "sem", "put", "get", "shift", "exit"},
               Labs!At(t, op)
        PROVE  FALSE
    BY <2>1, AtMeans DEF Obeys, Now
  <2>2. ~ (\/ Labs!DoTest(t) \/ Labs!DoGoto(t) \/ Labs!DoSem(t) \/ Labs!DoPut(t)
           \/ Labs!Overrun(t) \/ Labs!DoGet(t) \/ Labs!DoShift(t) \/ Labs!DoExit(t))
    BY <2>1 DEF Labs!DoTest, Labs!DoGoto, Labs!DoSem, Labs!DoPut, Labs!Overrun, Labs!DoGet,
                Labs!DoShift, Labs!DoExit
  <2> QED BY <1>2, <2>2, LockKeeps, WaitKeeps, ArriveKeeps, CreateKeepsLab DEF Labs!Act
<1> QED BY <1>1, <1>2 DEF Labs!Next

-----------------------------------------------------------------------------
(* When an instruction keeps the discipline.                               *)
Steady(p, t, i) == \A x \in CountsIn(p) :
    Added(p, x, t, i) \in Int /\ Added(p, x, t, i + 1) = Added(p, x, t, i)
NotJoining(p, t, i) == t = LabMain => \A u \in {T1, T2} : i # JoinedAt(p, u)

LEMMA SteadyObeys ==
    ASSUME NEW p, NEW t, NEW i, Steady(p, t, i), NEW c, Code(p, t)[i] = c,
           c.op \in {"lock", "unlock", "load", "barrier", "create", "join", "signal",
                    "waitWhile"},
           HasMutex(p, t, i) \in BOOLEAN, HasMutex(p, t, i + 1) \in BOOLEAN,
           HasMutex(p, t, i + 1) <=> (c.op = "lock" \/ (c.op # "unlock" /\ HasMutex(p, t, i))),
           c.op \in {"unlock", "waitWhile"} => HasMutex(p, t, i),
           c.op \in {"lock", "unlock", "waitWhile"} => c.m = "mutex",
           c.op \in {"signal", "waitWhile"} => c.c = "condFuel",
           c.op = "barrier" => c.c = "barrier" /\ ~ HasMutex(p, t, i),
           c.op = "load" => c.x \in CountsIn(p),
           c.op \in {"create", "join"} => t = LabMain /\ c.t \in {T1, T2},
           c.op = "create" => i = CreatedAt(c.t),
           c.op = "join" => i = JoinedAt(p, c.t),
           c.op # "join" => NotJoining(p, t, i)
    PROVE  Obeys(p, t, i)
<1>1. \A x \in CountsIn(p) :
         Added(p, x, t, i + 1) = Added(p, x, t, i) + IF c.op = "store" /\ c.x = x THEN c.k ELSE 0
  BY DEF Steady
<1>2. HasMutex(p, t, i + 1) = (c.op = "lock" \/ (c.op # "unlock" /\ HasMutex(p, t, i)))
  OBVIOUS
<1>3. t = LabMain /\ (\E u \in {T1, T2} : i = JoinedAt(p, u)) => c.op = "join"
  BY DEF NotJoining
<1> QED BY <1>1, <1>2, <1>3 DEF Obeys

LEMMA LockObeys ==
    ASSUME NEW p, NEW t, NEW i, Steady(p, t, i), NotJoining(p, t, i),
           HasMutex(p, t, i) \in BOOLEAN, HasMutex(p, t, i + 1) \in BOOLEAN,
           Code(p, t)[i] = Labs!Lock("mutex"),
           HasMutex(p, t, i + 1)
    PROVE  Obeys(p, t, i)
<1> DEFINE c == Labs!Lock("mutex")
<1>1. c.op = "lock" /\ c.m = "mutex"
  BY DEF Labs!Lock
<1> HIDE DEF c
<1>2. Code(p, t)[i] = c
  BY DEF c
<1> QED BY <1>1, <1>2, SteadyObeys

LEMMA UnlockObeys ==
    ASSUME NEW p, NEW t, NEW i, Steady(p, t, i), NotJoining(p, t, i),
           HasMutex(p, t, i) \in BOOLEAN, HasMutex(p, t, i + 1) \in BOOLEAN,
           Code(p, t)[i] = Labs!Unlock("mutex"),
           HasMutex(p, t, i), ~ HasMutex(p, t, i + 1)
    PROVE  Obeys(p, t, i)
<1> DEFINE c == Labs!Unlock("mutex")
<1>1. c.op = "unlock" /\ c.m = "mutex"
  BY DEF Labs!Unlock
<1> HIDE DEF c
<1>2. Code(p, t)[i] = c
  BY DEF c
<1> QED BY <1>1, <1>2, SteadyObeys

LEMMA LoadObeys ==
    ASSUME NEW p, NEW t, NEW i, Steady(p, t, i), NotJoining(p, t, i),
           HasMutex(p, t, i) \in BOOLEAN, HasMutex(p, t, i + 1) \in BOOLEAN,
           NEW x \in CountsIn(p), Code(p, t)[i] = Labs!Load(x),
           HasMutex(p, t, i) <=> HasMutex(p, t, i + 1)
    PROVE  Obeys(p, t, i)
<1> DEFINE c == Labs!Load(x)
<1>1. c.op = "load" /\ c.x = x
  BY DEF Labs!Load
<1> HIDE DEF c
<1>2. Code(p, t)[i] = c
  BY DEF c
<1> QED BY <1>1, <1>2, SteadyObeys

LEMMA BarrierObeys ==
    ASSUME NEW p, NEW t, NEW i, Steady(p, t, i), NotJoining(p, t, i),
           HasMutex(p, t, i) \in BOOLEAN, HasMutex(p, t, i + 1) \in BOOLEAN,
           NEW n, Code(p, t)[i] = Labs!Barrier("barrier", n),
           ~ HasMutex(p, t, i), ~ HasMutex(p, t, i + 1)
    PROVE  Obeys(p, t, i)
<1> DEFINE c == Labs!Barrier("barrier", n)
<1>1. c.op = "barrier" /\ c.c = "barrier"
  BY DEF Labs!Barrier
<1> HIDE DEF c
<1>2. Code(p, t)[i] = c
  BY DEF c
<1> QED BY <1>1, <1>2, SteadyObeys

LEMMA SignalObeys ==
    ASSUME NEW p, NEW t, NEW i, Steady(p, t, i), NotJoining(p, t, i),
           HasMutex(p, t, i) \in BOOLEAN, HasMutex(p, t, i + 1) \in BOOLEAN,
           Code(p, t)[i] = Labs!Signal("condFuel"),
           HasMutex(p, t, i) <=> HasMutex(p, t, i + 1)
    PROVE  Obeys(p, t, i)
<1> DEFINE c == Labs!Signal("condFuel")
<1>1. c.op = "signal" /\ c.c = "condFuel"
  BY DEF Labs!Signal
<1> HIDE DEF c
<1>2. Code(p, t)[i] = c
  BY DEF c
<1> QED BY <1>1, <1>2, SteadyObeys

LEMMA WaitWhileObeys ==
    ASSUME NEW p, NEW t, NEW i, Steady(p, t, i), NotJoining(p, t, i),
           HasMutex(p, t, i) \in BOOLEAN, HasMutex(p, t, i + 1) \in BOOLEAN,
           NEW x, NEW V, Code(p, t)[i] = Labs!WaitWhile(x, V, "condFuel", "mutex"),
           HasMutex(p, t, i), HasMutex(p, t, i + 1)
    PROVE  Obeys(p, t, i)
<1> DEFINE c == Labs!WaitWhile(x, V, "condFuel", "mutex")
<1>1. c.op = "waitWhile" /\ c.m = "mutex" /\ c.c = "condFuel"
  BY DEF Labs!WaitWhile
<1> HIDE DEF c
<1>2. Code(p, t)[i] = c
  BY DEF c
<1> QED BY <1>1, <1>2, SteadyObeys

LEMMA CreateObeys ==
    ASSUME NEW p, NEW t, NEW i, Steady(p, t, i), NotJoining(p, t, i),
           HasMutex(p, t, i) \in BOOLEAN, HasMutex(p, t, i + 1) \in BOOLEAN,
           NEW u \in {T1, T2}, Code(p, t)[i] = Labs!Create(u),
           t = LabMain, i = CreatedAt(u),
           ~ HasMutex(p, t, i), ~ HasMutex(p, t, i + 1)
    PROVE  Obeys(p, t, i)
<1> DEFINE c == Labs!Create(u)
<1>1. c.op = "create" /\ c.t = u
  BY DEF Labs!Create
<1> HIDE DEF c
<1>2. Code(p, t)[i] = c
  BY DEF c
<1> QED BY <1>1, <1>2, SteadyObeys

LEMMA JoinObeys ==
    ASSUME NEW p, NEW t, NEW i, Steady(p, t, i),
           HasMutex(p, t, i) \in BOOLEAN, HasMutex(p, t, i + 1) \in BOOLEAN,
           NEW u \in {T1, T2}, Code(p, t)[i] = Labs!Join(u),
           t = LabMain, i = JoinedAt(p, u),
           ~ HasMutex(p, t, i), ~ HasMutex(p, t, i + 1)
    PROVE  Obeys(p, t, i)
<1> DEFINE c == Labs!Join(u)
<1>1. c.op = "join" /\ c.t = u
  BY DEF Labs!Join
<1> HIDE DEF c
<1>2. Code(p, t)[i] = c
  BY DEF c
<1> QED BY <1>1, <1>2, SteadyObeys

LEMMA StoreObeys ==
    ASSUME NEW p, NEW t, NEW i, NotJoining(p, t, i), i > 1,
           HasMutex(p, t, i) = TRUE, HasMutex(p, t, i + 1) = TRUE,
           NEW x \in CountsIn(p), NEW k \in Int,
           Code(p, t)[i - 1] = Labs!Load(x), Code(p, t)[i] = Labs!Store(x, k),
           \A y \in CountsIn(p) :
               /\ Added(p, y, t, i) \in Int
               /\ Added(p, y, t, i + 1) = Added(p, y, t, i) + IF y = x THEN k ELSE 0
    PROVE  Obeys(p, t, i)
<1>1. /\ Code(p, t)[i].op = "store" /\ Code(p, t)[i].x = x /\ Code(p, t)[i].k = k
      /\ Code(p, t)[i - 1].op = "load" /\ Code(p, t)[i - 1].x = x
  BY DEF Labs!Load, Labs!Store
<1> QED BY <1>1 DEF Obeys, NotJoining


-----------------------------------------------------------------------------
(* The programs keep the discipline.                                       *)
LEMMA CastIs ==
    ASSUME Labs!ProgramParameters, NEW a, NEW b, NEW c, NEW d
    PROVE  /\ Labs!Cast(a, b, c, d)[LabMain] = a
           /\ Labs!Cast(a, b, c, d)[T1] = b /\ Labs!Cast(a, b, c, d)[T2] = c
           /\ \A t \in LabThreads \ {LabMain, T1, T2} : Labs!Cast(a, b, c, d)[t] = d
BY DEF Labs!Cast, Labs!ProgramParameters

LEMMA CodeIs ==
    ASSUME Labs!ProgramParameters
    PROVE  /\ \A p \in Counting : \A t \in LabThreads \ {LabMain, T1, T2} : Code(p, t) = <<>>
           /\ \A p \in {"second", "spin", "tank"} : Code(p, LabMain)
                 = <<Labs!Create(T1), Labs!Create(T2), Labs!Join(T1), Labs!Join(T2)>>
           /\ Code("ex1", LabMain)
                 = <<Labs!Create(T1), Labs!Create(T2), Labs!Join(T2), Labs!Join(T1)>>
           /\ Code("malloc", LabMain) = Labs!malloc_main
           /\ \A t \in {T1, T2} : /\ Code("second", t) = Labs!routine
                                  /\ Code("ex1", t) = Labs!routine_2
                                  /\ Code("spin", t) = Labs!spin_thread
                                  /\ Code("malloc", t) = Labs!malloc_thread
           /\ Code("tank", T1) = Labs!car /\ Code("tank", T2) = Labs!filling_tank
<1>1. /\ Labs!Scripts["malloc"] = Labs!Cast(Labs!malloc_main, Labs!malloc_thread,
                                            Labs!malloc_thread, Labs!Idle)
      /\ Labs!Scripts["spin"] = Labs!Cast(Labs!spin_main, Labs!spin_thread,
                                          Labs!spin_thread, Labs!Idle)
      /\ Labs!Scripts["second"] = Labs!Cast(Labs!second_main, Labs!routine,
                                            Labs!routine, Labs!Idle)
      /\ Labs!Scripts["ex1"] = Labs!Cast(Labs!ex1_main, Labs!routine_2,
                                         Labs!routine_2, Labs!Idle)
      /\ Labs!Scripts["tank"] = Labs!Cast(Labs!tank_main, Labs!car,
                                          Labs!filling_tank, Labs!Idle)
  BY DEF Labs!Scripts
<1>2. Labs!Idle = <<>>
  BY DEF Labs!Idle
<1>3. \A p \in {"second", "spin", "tank"} : Code(p, LabMain) = Labs!Around(Labs!Pair, <<>>)
  BY <1>1, CastIs DEF Code, Labs!second_main, Labs!spin_main, Labs!tank_main
<1>4. \A p \in Counting : \A t \in LabThreads \ {LabMain, T1, T2} : Code(p, t) = <<>>
  BY <1>1, <1>2, CastIs DEF Code, Counting
<1>5. Code("malloc", LabMain) = Labs!malloc_main /\ Code("ex1", LabMain) = Labs!ex1_main
  BY <1>1, CastIs DEF Code
<1>6. /\ \A t \in {T1, T2} : /\ Code("second", t) = Labs!routine
                             /\ Code("ex1", t) = Labs!routine_2
                             /\ Code("spin", t) = Labs!spin_thread
                             /\ Code("malloc", t) = Labs!malloc_thread
      /\ Code("tank", T1) = Labs!car /\ Code("tank", T2) = Labs!filling_tank
  BY <1>1, CastIs DEF Code
<1> QED BY <1>3, <1>4, <1>5, <1>6, MainsAre

(* A thread that keeps it.                                                 *)
Keeps(p, t) ==
    /\ Len(Code(p, t)) \in Nat
    /\ \A i \in 1 .. Len(Code(p, t)) : Obeys(p, t, i)
    /\ \A i \in 0 .. Len(Code(p, t)) + 1 : HasMutex(p, t, i) \in BOOLEAN
    /\ ~ HasMutex(p, t, 0) /\ ~ HasMutex(p, t, 1)
    /\ \A x \in CountsIn(p) :
          /\ Added(p, x, t, 0) = 0 /\ Added(p, x, t, 1) = 0
          /\ \A i \in 0 .. Len(Code(p, t)) + 1 : Added(p, x, t, i) \in Int

LEMMA MainKeeps ==
    ASSUME Labs!ProgramParameters, NEW p \in Counting \ {"malloc"}
    PROVE  Keeps(p, LabMain) /\ Len(Code(p, LabMain)) = 4
<1>1. LabMain \notin {T1, T2} /\ T1 # T2
  BY DEF Labs!ProgramParameters
<1>2. /\ Len(Code(p, LabMain)) = 4
      /\ Code(p, LabMain)[1] = Labs!Create(T1) /\ Code(p, LabMain)[2] = Labs!Create(T2)
      /\ IF p = "ex1" THEN /\ Code(p, LabMain)[3] = Labs!Join(T2)
                           /\ Code(p, LabMain)[4] = Labs!Join(T1)
                      ELSE /\ Code(p, LabMain)[3] = Labs!Join(T1)
                           /\ Code(p, LabMain)[4] = Labs!Join(T2)
  BY CodeIs DEF Counting
<1>3. \A i \in Nat : ~ HasMutex(p, LabMain, i) /\ HasMutex(p, LabMain, i) \in BOOLEAN
  BY <1>1 DEF HasMutex, Counting
<1>4. \A i \in Nat : \A x \in CountsIn(p) : Added(p, x, LabMain, i) = 0
  BY <1>1 DEF Added, Counting
<1>5. ASSUME NEW i \in 1 .. 4 PROVE Obeys(p, LabMain, i)
  <2>1. /\ i \in Nat /\ i + 1 \in Nat /\ Steady(p, LabMain, i)
        /\ ~ HasMutex(p, LabMain, i) /\ HasMutex(p, LabMain, i) \in BOOLEAN
        /\ ~ HasMutex(p, LabMain, i + 1) /\ HasMutex(p, LabMain, i + 1) \in BOOLEAN
    BY <1>3, <1>4 DEF Steady
  <2>2. CASE i \in {1, 2}
    <3> DEFINE u == IF i = 1 THEN T1 ELSE T2
    <3>1. /\ u \in {T1, T2} /\ i = CreatedAt(u) /\ Code(p, LabMain)[i] = Labs!Create(u)
          /\ NotJoining(p, LabMain, i)
      BY <1>1, <1>2, <2>2 DEF CreatedAt, NotJoining, JoinedAt, Counting
    <3> QED BY <2>1, <3>1, CreateObeys
  <2>3. CASE i \in {3, 4}
    <3> DEFINE u == IF (i = 3) <=> (p = "ex1") THEN T2 ELSE T1
    <3>1. u \in {T1, T2} /\ i = JoinedAt(p, u) /\ Code(p, LabMain)[i] = Labs!Join(u)
      BY <1>1, <1>2, <2>3 DEF JoinedAt, Counting
    <3> QED BY <2>1, <3>1, JoinObeys
  <2> QED BY <2>2, <2>3
<1>6. \A i \in 0 .. 5 : i \in Nat
  OBVIOUS
<1> QED BY <1>2, <1>3, <1>4, <1>5, <1>6 DEF Keeps

(* Rounds of four instructions, the first of them at first.                *)
LEMMA Quarters ==
    ASSUME NEW j \in Nat
    PROVE  /\ j % 4 \in 0 .. 3 /\ j \div 4 \in Nat /\ 0 % 4 = 0 /\ 1 % 4 = 1
           /\ 0 \div 4 = 0 /\ 1 \div 4 = 0
           /\ (j + 1) % 4 = (IF j % 4 = 3 THEN 0 ELSE (j % 4) + 1)
           /\ (j + 1) \div 4 = (j \div 4) + (IF j % 4 = 3 THEN 1 ELSE 0)
           /\ j % 4 = 3 => j > 1 /\ (j - 1) % 4 = 2
OBVIOUS

LEMMA LapIs ==
    ASSUME NEW n \in Nat, NEW x, NEW k, NEW j \in 1 .. 4 * n
    PROVE  /\ j % 4 = 1 => Laps(n, x, k)[j] = Labs!Lock("mutex")
           /\ j % 4 = 2 => Laps(n, x, k)[j] = Labs!Load(x)
           /\ j % 4 = 3 => Laps(n, x, k)[j] = Labs!Store(x, k)
           /\ j % 4 = 0 => Laps(n, x, k)[j] = Labs!Unlock("mutex")
BY LapsAre

(* An instruction i of a script that is instruction j of laps.             *)
LEMMA LapObeys ==
    ASSUME NEW p, NEW t, t # LabMain, CountsIn(p) = {"global"},
           NEW n \in Nat, NEW k \in {1, 10}, NEW j \in 1 .. 4 * n, NEW i \in Nat, i >= j,
           Code(p, t)[i] = Laps(n, "global", k)[j],
           j > 1 => Code(p, t)[i - 1] = Laps(n, "global", k)[j - 1],
           HasMutex(p, t, i) \in BOOLEAN, HasMutex(p, t, i + 1) \in BOOLEAN,
           HasMutex(p, t, i) <=> j % 4 # 1,
           HasMutex(p, t, i + 1) <=> (j + 1) % 4 # 1,
           Added(p, "global", t, i) = k * (j \div 4),
           Added(p, "global", t, i + 1) = k * ((j + 1) \div 4)
    PROVE  Obeys(p, t, i)
<1> DEFINE q == j \div 4
<1>1. j \in Nat /\ k \in Int /\ j % 4 \in {0, 1, 2, 3} /\ q \in Nat
  BY Quarters
<1>2. j % 4 = 3 => j > 1 /\ i > 1 /\ j - 1 \in 1 .. 4 * n /\ (j - 1) % 4 = 2
  BY Quarters
<1>3. /\ j % 4 = 1 => Code(p, t)[i] = Labs!Lock("mutex")
      /\ j % 4 = 2 => Code(p, t)[i] = Labs!Load("global")
      /\ j % 4 = 3 => /\ Code(p, t)[i] = Labs!Store("global", k)
                      /\ Code(p, t)[i - 1] = Labs!Load("global")
      /\ j % 4 = 0 => Code(p, t)[i] = Labs!Unlock("mutex")
  <2>1. /\ j % 4 = 1 => Laps(n, "global", k)[j] = Labs!Lock("mutex")
        /\ j % 4 = 2 => Laps(n, "global", k)[j] = Labs!Load("global")
        /\ j % 4 = 3 => Laps(n, "global", k)[j] = Labs!Store("global", k)
        /\ j % 4 = 0 => Laps(n, "global", k)[j] = Labs!Unlock("mutex")
    BY LapIs
  <2>2. j % 4 = 3 => Laps(n, "global", k)[j - 1] = Labs!Load("global")
    BY <1>2, LapIs
  <2> QED BY <1>2, <2>1, <2>2
<1>4. HasMutex(p, t, i + 1) <=> j % 4 # 0
  <2> DEFINE a == j % 4
             b == (j + 1) % 4
  <2>1. b = IF a = 3 THEN 0 ELSE a + 1
    BY <1>1, Quarters
  <2>2. a \in {0, 1, 2, 3}
    BY <1>1
  <2>3. HasMutex(p, t, i + 1) <=> b # 1
    OBVIOUS
  <2> HIDE DEF a, b
  <2>4. b # 1 <=> a # 0
    BY <2>1, <2>2
  <2> QED BY <2>3, <2>4 DEF a
<1>5. /\ Added(p, "global", t, i) \in Int
      /\ Added(p, "global", t, i + 1) = Added(p, "global", t, i) + (IF j % 4 = 3 THEN k ELSE 0)
  <2>1. (j + 1) \div 4 = q + (IF j % 4 = 3 THEN 1 ELSE 0)
    BY <1>1, Quarters
  <2>2. Added(p, "global", t, i) = k * q
    OBVIOUS
  <2> HIDE DEF q
  <2>3. k * q \in Int /\ k * (q + 1) = k * q + k /\ k * (q + 0) = k * q
    BY <1>1
  <2> QED BY <1>1, <2>1, <2>2, <2>3
<1>6. NotJoining(p, t, i) /\ (j % 4 # 3 => Steady(p, t, i))
  BY <1>1, <1>5 DEF NotJoining, Steady
<1>7. CASE j % 4 = 1
  BY <1>3, <1>4, <1>6, <1>7, LockObeys
<1>8. CASE j % 4 = 2
  BY <1>3, <1>4, <1>6, <1>8, LoadObeys
<1>9. CASE j % 4 = 3
  <2>1. \A y \in CountsIn(p) :
           /\ Added(p, y, t, i) \in Int
           /\ Added(p, y, t, i + 1) = Added(p, y, t, i) + IF y = "global" THEN k ELSE 0
    BY <1>5, <1>9
  <2>2. HasMutex(p, t, i) = TRUE /\ HasMutex(p, t, i + 1) = TRUE
    BY <1>4, <1>9
  <2> QED BY <1>1, <1>2, <1>3, <1>6, <1>9, <2>1, <2>2, StoreObeys
<1>10. CASE j % 4 = 0
  BY <1>3, <1>4, <1>6, <1>10, UnlockObeys
<1> QED BY <1>1, <1>7, <1>8, <1>9, <1>10

LEMMA RoutineKeeps ==
    ASSUME Labs!ProgramParameters, NEW p \in {"second", "ex1"}, NEW t \in {T1, T2}
    PROVE  Keeps(p, t) /\ Len(Code(p, t)) = 4 * Rounds
<1> DEFINE k == IF p = "ex1" THEN 10 ELSE 1
<1>1. Rounds \in Nat /\ t # LabMain /\ 4 * Rounds \in Nat /\ k \in {1, 10}
  BY DEF Labs!ProgramParameters
<1>2. Code(p, t) = Laps(Rounds, "global", k) /\ Len(Code(p, t)) = 4 * Rounds
  <2>1. Code(p, t) = Laps(Rounds, "global", k)
    BY CodeIs DEF Labs!routine, Labs!routine_2, Laps
  <2> QED BY <1>1, <2>1, LapsAre
<1>3. \A i \in Nat : /\ HasMutex(p, t, i) \in BOOLEAN
                     /\ HasMutex(p, t, i) <=> i > 0 /\ i % 4 # 1
                     /\ Added(p, "global", t, i) = k * (i \div 4)
  <2>1. \A i \in Nat : /\ HasMutex(p, t, i) \in BOOLEAN
                       /\ HasMutex(p, t, i) <=> i > 0 /\ i % 4 # 1
    BY DEF HasMutex, InRound
  <2>2. \A i \in Nat : Added(p, "global", t, i) = k * (i \div 4)
    BY DEF Added
  <2> QED BY <2>1, <2>2
<1>4. CountsIn(p) = {"global"}
  BY DEF CountsIn
<1> HIDE DEF k
<1>5. ASSUME NEW i \in 1 .. 4 * Rounds PROVE Obeys(p, t, i)
  <2>1. i \in Nat /\ i + 1 \in Nat /\ i > 0 /\ i + 1 > 0 /\ i >= i
    BY <1>1
  <2>2. /\ HasMutex(p, t, i) \in BOOLEAN /\ HasMutex(p, t, i + 1) \in BOOLEAN
        /\ HasMutex(p, t, i) <=> i % 4 # 1
        /\ HasMutex(p, t, i + 1) <=> (i + 1) % 4 # 1
        /\ Added(p, "global", t, i) = k * (i \div 4)
        /\ Added(p, "global", t, i + 1) = k * ((i + 1) \div 4)
    BY <1>3, <2>1
  <2>3. /\ Code(p, t)[i] = Laps(Rounds, "global", k)[i]
        /\ Code(p, t)[i - 1] = Laps(Rounds, "global", k)[i - 1]
    BY <1>2
  <2> QED BY <1>1, <1>4, <2>1, <2>2, <2>3, LapObeys, Zenon
<1>6. /\ ~ HasMutex(p, t, 0) /\ ~ HasMutex(p, t, 1)
      /\ Added(p, "global", t, 0) = 0 /\ Added(p, "global", t, 1) = 0
  <2>1. 0 \in Nat /\ 1 \in Nat /\ 0 % 4 = 0 /\ 1 % 4 = 1 /\ 0 \div 4 = 0 /\ 1 \div 4 = 0
    BY Quarters
  <2> QED BY <1>1, <1>3, <2>1
<1>7. \A i \in Nat : HasMutex(p, t, i) \in BOOLEAN /\ Added(p, "global", t, i) \in Int
  BY <1>1, <1>3, Quarters
<1>8. \A i \in 0 .. 4 * Rounds + 1 : i \in Nat
  BY <1>1
<1> QED BY <1>1, <1>2, <1>4, <1>5, <1>6, <1>7, <1>8 DEF Keeps

LEMMA SpinKeeps ==
    ASSUME Labs!ProgramParameters, NEW t \in {T1, T2}
    PROVE  Keeps("spin", t) /\ Len(Code("spin", t)) = 4 * Rounds + 1
<1> DEFINE p == "spin"
           b == Labs!Barrier("barrier", 2)
           S == Four("global", 1) \cup {b}
           laps == Laps(Rounds, "global", 1)
<1>1. Rounds \in Nat /\ t # LabMain /\ 4 * Rounds \in Nat
  BY DEF Labs!ProgramParameters
<1>2. laps \in Seq(S) /\ Len(laps) = 4 * Rounds
  <2>1. laps \in Seq(Four("global", 1)) /\ Len(laps) = 4 * Rounds
    BY <1>1, LapsAre
  <2> HIDE DEF laps
  <2> QED BY <2>1
<1>3. Code(p, t) = <<b>> \o laps
  BY CodeIs DEF Labs!spin_thread, Laps
<1> HIDE DEF laps
<1>4. <<b>> \in Seq(S) /\ Len(<<b>>) = 1 /\ <<b>>[1] = b
  OBVIOUS
<1> HIDE DEF S, b
<1>5. /\ Len(Code(p, t)) = 4 * Rounds + 1 /\ Code(p, t)[1] = b
      /\ \A j \in 1 .. 4 * Rounds : Code(p, t)[1 + j] = laps[j]
  <2>1. /\ Len(<<b>> \o laps) = 1 + 4 * Rounds
        /\ \A i \in 1 .. 1 + 4 * Rounds :
              (<<b>> \o laps)[i] = IF i <= 1 THEN <<b>>[i] ELSE laps[i - 1]
    BY <1>2, <1>4, ConcatIs
  <2> DEFINE c == <<b>> \o laps
  <2> HIDE DEF c
  <2>2. /\ Len(c) = 1 + 4 * Rounds
        /\ \A i \in 1 .. 1 + 4 * Rounds : c[i] = IF i <= 1 THEN <<b>>[i] ELSE laps[i - 1]
    BY <2>1 DEF c
  <2>3. /\ c[1] = b /\ \A j \in 1 .. 4 * Rounds : c[1 + j] = laps[j]
    BY <1>1, <1>4, <2>2
  <2>4. Code(p, t) = c
    BY <1>3 DEF c
  <2> QED BY <1>1, <2>2, <2>3, <2>4
<1>6. \A j \in Nat : /\ HasMutex(p, t, 1 + j) \in BOOLEAN
                     /\ HasMutex(p, t, 1 + j) <=> j > 0 /\ j % 4 # 1
                     /\ Added(p, "global", t, 1 + j) = 1 * (j \div 4)
  BY DEF HasMutex, InRound, Added
<1>7. ~ HasMutex(p, t, 0) /\ HasMutex(p, t, 0) \in BOOLEAN /\ Added(p, "global", t, 0) = 0
  BY DEF HasMutex, InRound, Added
<1>8. CountsIn(p) = {"global"}
  BY DEF CountsIn
<1>9. /\ ~ HasMutex(p, t, 1) /\ HasMutex(p, t, 1) \in BOOLEAN /\ Added(p, "global", t, 1) = 0
      /\ ~ HasMutex(p, t, 2) /\ HasMutex(p, t, 2) \in BOOLEAN /\ Added(p, "global", t, 2) = 0
  <2>1. 1 + 0 = 1 /\ 1 + 1 = 2 /\ 0 \in Nat /\ 1 \in Nat
    OBVIOUS
  <2> QED BY <1>6, <2>1, Quarters
<1>10. ASSUME NEW i \in 1 .. 4 * Rounds + 1 PROVE Obeys(p, t, i)
  <2>1. CASE i = 1
    <3>1. Steady(p, t, 1) /\ NotJoining(p, t, 1)
      BY <1>1, <1>8, <1>9 DEF Steady, NotJoining
    <3> QED BY <1>5, <1>9, <2>1, <3>1, BarrierObeys DEF b
  <2>2. CASE i > 1
    <3>1. i - 1 \in 1 .. 4 * Rounds /\ 1 + (i - 1) = i
      BY <1>1, <2>2
    <3> DEFINE j == i - 1
    <3> HIDE DEF j
    <3>2. /\ j \in 1 .. 4 * Rounds /\ i \in Nat /\ i = 1 + j /\ i + 1 = 1 + (j + 1) /\ i >= j
          /\ j \in Nat /\ j + 1 \in Nat /\ j > 0 /\ j + 1 > 0
          /\ j > 1 => j - 1 \in 1 .. 4 * Rounds /\ i - 1 = 1 + (j - 1)
      BY <1>1, <2>2, <3>1 DEF j
    <3>3. /\ Code(p, t)[i] = laps[j]
          /\ j > 1 => Code(p, t)[i - 1] = laps[j - 1]
      BY <1>5, <3>2
    <3>4. /\ HasMutex(p, t, i) \in BOOLEAN /\ HasMutex(p, t, i + 1) \in BOOLEAN
          /\ HasMutex(p, t, i) <=> j % 4 # 1
          /\ HasMutex(p, t, i + 1) <=> (j + 1) % 4 # 1
          /\ Added(p, "global", t, i) = 1 * (j \div 4)
          /\ Added(p, "global", t, i + 1) = 1 * ((j + 1) \div 4)
      BY <1>6, <3>2
    <3>5. 1 \in {1, 10}
      OBVIOUS
    <3> QED BY <1>1, <1>8, <3>2, <3>3, <3>4, <3>5, LapObeys, Zenon DEF laps
  <2> QED BY <1>1, <2>1, <2>2
<1>11. \A i \in 0 .. 4 * Rounds + 2 :
          HasMutex(p, t, i) \in BOOLEAN /\ Added(p, "global", t, i) \in Int
  <2> SUFFICES ASSUME NEW i \in 0 .. 4 * Rounds + 2, i # 0
               PROVE  HasMutex(p, t, i) \in BOOLEAN /\ Added(p, "global", t, i) \in Int
    BY <1>7
  <2>1. i - 1 \in Nat /\ i = 1 + (i - 1)
    BY <1>1
  <2> QED BY <1>6, <2>1, Quarters
<1>12. 4 * Rounds + 1 \in Nat /\ (4 * Rounds + 1) + 1 = 4 * Rounds + 2
  BY <1>1
<1> QED BY <1>5, <1>7, <1>8, <1>9, <1>10, <1>11, <1>12 DEF Keeps

-----------------------------------------------------------------------------
(* "malloc": laps of six instructions.                                     *)
SectionOf(own) == <<Labs!Lock("mutex"), Labs!Load("global"), Labs!Store("global", 1),
                    Labs!Load(own), Labs!Store(own, 1), Labs!Unlock("mutex")>>
SixOf(own) == {Labs!Lock("mutex"), Labs!Load("global"), Labs!Store("global", 1),
               Labs!Load(own), Labs!Store(own, 1), Labs!Unlock("mutex")}

LEMMA SectionOfFour ==
    ASSUME NEW own
    PROVE  <<Labs!acquire_lock>> \o Labs!increase_numbers(own) \o <<Labs!release_lock>>
              = SectionOf(own)
<1> DEFINE S == SixOf(own)
           l == <<Labs!Lock("mutex")>>
           u == <<Labs!Unlock("mutex")>>
           b == <<Labs!Load("global"), Labs!Store("global", 1), Labs!Load(own),
                  Labs!Store(own, 1)>>
<1>1. Labs!increase_numbers(own) = b
  <2>1. /\ Labs!Add("global", 1) = <<Labs!Load("global"), Labs!Store("global", 1)>>
        /\ Labs!Add(own, 1) = <<Labs!Load(own), Labs!Store(own, 1)>>
    BY DEF Labs!Add
  <2>2. Labs!Add("global", 1) = Labs!Add("global", 1) \o <<>>
    BY <2>1
  <2>3. Labs!increase_numbers(own)
          = (<<Labs!Load("global"), Labs!Store("global", 1)>> \o <<>>)
               \o <<Labs!Load(own), Labs!Store(own, 1)>>
    BY <2>1, <2>2, Zenon DEF Labs!increase_numbers
  <2> QED BY <2>3, TwoCalls, Zenon
<1>2. l = <<Labs!acquire_lock>> /\ u = <<Labs!release_lock>>
  BY DEF Labs!acquire_lock, Labs!release_lock
<1>3. l \in Seq(S) /\ Len(l) = 1 /\ l[1] = Labs!Lock("mutex")
  BY DEF SixOf
<1>4. u \in Seq(S) /\ Len(u) = 1 /\ u[1] = Labs!Unlock("mutex")
  BY DEF SixOf
<1>5. /\ b \in Seq(S) /\ Len(b) = 4
      /\ b[1] = Labs!Load("global") /\ b[2] = Labs!Store("global", 1)
      /\ b[3] = Labs!Load(own) /\ b[4] = Labs!Store(own, 1)
  BY DEF SixOf
<1> HIDE DEF S, l, u, b
<1> DEFINE lb == l \o b
           r == lb \o u
<1>6. /\ lb \in Seq(S) /\ Len(lb) = 5
      /\ \A i \in 1 .. 5 : lb[i] = IF i <= 1 THEN l[i] ELSE b[i - 1]
  <2>1. /\ lb \in Seq(S) /\ Len(lb) = Len(l) + Len(b)
        /\ \A i \in 1 .. Len(l) + Len(b) : lb[i] = IF i <= Len(l) THEN l[i] ELSE b[i - Len(l)]
    BY <1>3, <1>5, ConcatIs, Zenon
  <2> HIDE DEF lb
  <2> QED BY <1>3, <1>5, <2>1
<1> HIDE DEF lb
<1>7. /\ r \in Seq(S) /\ Len(r) = 6
      /\ \A i \in 1 .. 6 : r[i] = IF i <= 5 THEN lb[i] ELSE u[i - 5]
  <2>1. /\ r \in Seq(S) /\ Len(r) = Len(lb) + Len(u)
        /\ \A i \in 1 .. Len(lb) + Len(u) : r[i] = IF i <= Len(lb) THEN lb[i] ELSE u[i - Len(lb)]
    BY <1>4, <1>6, ConcatIs, Zenon
  <2> HIDE DEF r
  <2> QED BY <1>4, <1>6, <2>1
<1> HIDE DEF r
<1>8. /\ r[1] = Labs!Lock("mutex") /\ r[2] = Labs!Load("global")
      /\ r[3] = Labs!Store("global", 1) /\ r[4] = Labs!Load(own)
      /\ r[5] = Labs!Store(own, 1) /\ r[6] = Labs!Unlock("mutex")
  BY <1>3, <1>4, <1>5, <1>6, <1>7
<1>9. r = SectionOf(own)
  BY <1>7, <1>8 DEF SectionOf
<1> QED BY <1>1, <1>2, <1>9 DEF r, lb

LEMMA SixLapsAre ==
    ASSUME Labs!ProgramParameters, NEW own
    PROVE  /\ Labs!count_rounds(own) \in Seq(SixOf(own))
           /\ Len(Labs!count_rounds(own)) = 6 * Rounds
           /\ \A i \in 1 .. 6 * Rounds :
                 /\ i % 6 = 1 => Labs!count_rounds(own)[i] = Labs!Lock("mutex")
                 /\ i % 6 = 2 => Labs!count_rounds(own)[i] = Labs!Load("global")
                 /\ i % 6 = 3 => Labs!count_rounds(own)[i] = Labs!Store("global", 1)
                 /\ i % 6 = 4 => Labs!count_rounds(own)[i] = Labs!Load(own)
                 /\ i % 6 = 5 => Labs!count_rounds(own)[i] = Labs!Store(own, 1)
                 /\ i % 6 = 0 => Labs!count_rounds(own)[i] = Labs!Unlock("mutex")
<1> DEFINE S == SixOf(own)
           n == Rounds
           r == SectionOf(own)
           s == Labs!Repeat(n, r)
<1>1. n \in Nat /\ 6 \in Nat \ {0} /\ n * 6 = 6 * n
  BY DEF Labs!ProgramParameters
<1>2. /\ r \in Seq(S) /\ Len(r) = 6
      /\ r[1] = Labs!Lock("mutex") /\ r[2] = Labs!Load("global")
      /\ r[3] = Labs!Store("global", 1) /\ r[4] = Labs!Load(own)
      /\ r[5] = Labs!Store(own, 1) /\ r[6] = Labs!Unlock("mutex")
  BY DEF SixOf, SectionOf
<1> HIDE DEF n, r, S
<1>3. /\ s \in Seq(S) /\ Len(s) = n * 6
      /\ \A i \in 1 .. n * 6 : s[i] = r[((i - 1) % 6) + 1]
  <2>1. Len(r) \in Nat \ {0}
    BY <1>2
  <2>2. /\ s \in Seq(S) /\ Len(s) = n * Len(r)
        /\ \A i \in 1 .. n * Len(r) : s[i] = r[((i - 1) % Len(r)) + 1]
    BY <1>1, <1>2, <2>1, RepeatOf, Zenon
  <2> QED BY <1>2, <2>2, Zenon
<1> HIDE DEF s
<1>4. ASSUME NEW i \in 1 .. n * 6
      PROVE  /\ i % 6 = 1 => s[i] = Labs!Lock("mutex")
             /\ i % 6 = 2 => s[i] = Labs!Load("global")
             /\ i % 6 = 3 => s[i] = Labs!Store("global", 1)
             /\ i % 6 = 4 => s[i] = Labs!Load(own)
             /\ i % 6 = 5 => s[i] = Labs!Store(own, 1)
             /\ i % 6 = 0 => s[i] = Labs!Unlock("mutex")
  <2>1. ((i - 1) % 6) + 1 = (IF i % 6 = 0 THEN 6 ELSE i % 6) /\ i % 6 \in 0 .. 5
    BY <1>1
  <2>2. s[i] = r[((i - 1) % 6) + 1]
    BY <1>3
  <2> QED BY <1>2, <2>1, <2>2
<1>5. Labs!count_rounds(own) = s
  BY SectionOfFour DEF Labs!count_rounds, s, r, n
<1> QED BY <1>1, <1>3, <1>4, <1>5 DEF n, S

LEMMA SixLapIs ==
    ASSUME Labs!ProgramParameters, NEW own, NEW j \in 1 .. 6 * Rounds
    PROVE  /\ j % 6 = 1 => Labs!count_rounds(own)[j] = Labs!Lock("mutex")
           /\ j % 6 = 2 => Labs!count_rounds(own)[j] = Labs!Load("global")
           /\ j % 6 = 3 => Labs!count_rounds(own)[j] = Labs!Store("global", 1)
           /\ j % 6 = 4 => Labs!count_rounds(own)[j] = Labs!Load(own)
           /\ j % 6 = 5 => Labs!count_rounds(own)[j] = Labs!Store(own, 1)
           /\ j % 6 = 0 => Labs!count_rounds(own)[j] = Labs!Unlock("mutex")
BY SixLapsAre

LEMMA Sixths ==
    ASSUME NEW j \in Nat
    PROVE  /\ j % 6 \in {0, 1, 2, 3, 4, 5} /\ j \div 6 \in Nat /\ (j + 2) \div 6 \in Nat
           /\ (j + 1) \div 6 = (j \div 6) + (IF j % 6 = 5 THEN 1 ELSE 0)
           /\ (j + 3) \div 6 = ((j + 2) \div 6) + (IF j % 6 = 3 THEN 1 ELSE 0)
           /\ (j + 1) % 6 = (IF j % 6 = 5 THEN 0 ELSE (j % 6) + 1)
           /\ j % 6 = 3 => j > 1 /\ (j - 1) % 6 = 2
           /\ j % 6 = 5 => j > 1 /\ (j - 1) % 6 = 4
OBVIOUS

LEMMA SixObeys ==
    ASSUME Labs!ProgramParameters, NEW t, NEW own \in {"main_static", "thread_static"},
           NEW j \in 1 .. 6 * Rounds, NEW i \in Nat, i >= j, NotJoining("malloc", t, i),
           Code("malloc", t)[i] = Labs!count_rounds(own)[j],
           j > 1 => Code("malloc", t)[i - 1] = Labs!count_rounds(own)[j - 1],
           HasMutex("malloc", t, i) \in BOOLEAN, HasMutex("malloc", t, i + 1) \in BOOLEAN,
           HasMutex("malloc", t, i) <=> j % 6 # 1,
           HasMutex("malloc", t, i + 1) <=> j % 6 # 0,
           Added("malloc", "global", t, i) = (j + 2) \div 6,
           Added("malloc", "global", t, i + 1) = (j + 3) \div 6,
           Added("malloc", own, t, i) = j \div 6,
           Added("malloc", own, t, i + 1) = (j + 1) \div 6,
           \A x \in CountsIn("malloc") \ {"global", own} :
               Added("malloc", x, t, i) = 0 /\ Added("malloc", x, t, i + 1) = 0
    PROVE  Obeys("malloc", t, i)
<1> DEFINE p == "malloc"
<1>1. j \in Nat /\ j % 6 \in {0, 1, 2, 3, 4, 5}
  BY Sixths DEF Labs!ProgramParameters
<1>2. j % 6 \in {3, 5} => i > 1 /\ j > 1 /\ j - 1 \in 1 .. 6 * Rounds
  BY <1>1, Sixths DEF Labs!ProgramParameters
<1>3. /\ j % 6 = 1 => Code(p, t)[i] = Labs!Lock("mutex")
      /\ j % 6 = 2 => Code(p, t)[i] = Labs!Load("global")
      /\ j % 6 = 3 => Code(p, t)[i] = Labs!Store("global", 1)
      /\ j % 6 = 4 => Code(p, t)[i] = Labs!Load(own)
      /\ j % 6 = 5 => Code(p, t)[i] = Labs!Store(own, 1)
      /\ j % 6 = 0 => Code(p, t)[i] = Labs!Unlock("mutex")
  BY SixLapIs
<1>4. /\ j % 6 = 3 => Code(p, t)[i - 1] = Labs!Load("global")
      /\ j % 6 = 5 => Code(p, t)[i - 1] = Labs!Load(own)
  <2>1. /\ j % 6 = 3 => (j - 1) % 6 = 2
        /\ j % 6 = 5 => (j - 1) % 6 = 4
    BY <1>1, Sixths
  <2> QED BY <1>2, <2>1, SixLapIs
<1>5. CountsIn(p) = {"global", "main_static", "thread_static"}
  BY DEF CountsIn
<1>6. ASSUME NEW x \in CountsIn(p)
      PROVE  /\ Added(p, x, t, i) \in Int
             /\ Added(p, x, t, i + 1)
                   = Added(p, x, t, i)
                        + IF (x = "global" /\ j % 6 = 3) \/ (x = own /\ j % 6 = 5)
                          THEN 1 ELSE 0
  <2>1. CASE x = "global"
    BY <1>1, <2>1, Sixths
  <2>2. CASE x = own
    <3>1. /\ j \div 6 \in Nat
          /\ (j + 1) \div 6 = (j \div 6) + (IF j % 6 = 5 THEN 1 ELSE 0)
      BY <1>1, Sixths
    <3>2. own # "global" /\ own \in CountsIn(p)
      BY <2>2
    <3>3. /\ Added(p, own, t, i) = j \div 6
          /\ Added(p, own, t, i + 1) = (j + 1) \div 6
      OBVIOUS
    <3> QED BY <2>2, <3>1, <3>2, <3>3
  <2>3. CASE x \notin {"global", own}
    BY <2>3
  <2> QED BY <2>1, <2>2, <2>3
<1>7. j % 6 \notin {3, 5} => Steady(p, t, i)
  BY <1>6 DEF Steady
<1>8. CASE j % 6 = 1
  BY <1>3, <1>7, <1>8, LockObeys
<1>9. CASE j % 6 = 2
  BY <1>3, <1>5, <1>7, <1>9, LoadObeys
<1>10. CASE j % 6 = 4
  BY <1>3, <1>5, <1>7, <1>10, LoadObeys
<1>11. CASE j % 6 = 0
  BY <1>3, <1>7, <1>11, UnlockObeys
<1>12. CASE j % 6 \in {3, 5}
  <2> DEFINE x == IF j % 6 = 3 THEN "global" ELSE own
  <2>1. \A y \in CountsIn(p) :
           /\ Added(p, y, t, i) \in Int
           /\ Added(p, y, t, i + 1) = Added(p, y, t, i) + IF y = x THEN 1 ELSE 0
    BY <1>5, <1>6, <1>12
  <2>2. HasMutex(p, t, i) = TRUE /\ HasMutex(p, t, i + 1) = TRUE
    BY <1>12
  <2>3. /\ Code(p, t)[i - 1] = Labs!Load(x) /\ Code(p, t)[i] = Labs!Store(x, 1)
        /\ x \in CountsIn(p) /\ 1 \in Int /\ i > 1
    BY <1>2, <1>3, <1>4, <1>5, <1>12
  <2> HIDE DEF x
  <2> QED BY <2>1, <2>2, <2>3, StoreObeys
<1> QED BY <1>1, <1>8, <1>9, <1>10, <1>11, <1>12

(* Where the laps end, and what comes behind them.                         *)
LEMMA LapsEnd ==
    ASSUME Labs!ProgramParameters
    PROVE  /\ Rounds \in Nat /\ 6 * Rounds \in Nat
           /\ (6 * Rounds) % 6 = 0 /\ (6 * Rounds + 1) % 6 = 1
           /\ (6 * Rounds) \div 6 = Rounds /\ (6 * Rounds + 1) \div 6 = Rounds
           /\ (6 * Rounds + 2) \div 6 = Rounds /\ (6 * Rounds + 3) \div 6 = Rounds
           /\ 0 \div 6 = 0 /\ 2 \div 6 = 0
BY DEF Labs!ProgramParameters

LEMMA UptoIs ==
    ASSUME NEW n \in Nat, NEW j \in Int
    PROVE  /\ Upto(j, n) \in 0 .. n
           /\ j <= 0 => Upto(j, n) = 0
           /\ j >= n => Upto(j, n) = n
           /\ j \in 0 .. n => Upto(j, n) = j
BY DEF Upto

(* What a thread of "malloc" that is j instructions into its laps has      *)
(* counted, and whether it has the mutex.                                  *)
LEMMA MallocCounts ==
    ASSUME Labs!ProgramParameters, NEW t \in {LabMain, T1, T2}, NEW i \in Nat
    PROVE  LET j == IF t = LabMain THEN i - 2 ELSE i
               u == Upto(j, 6 * Rounds)
               own == IF t = LabMain THEN "main_static" ELSE "thread_static"
           IN  /\ Added("malloc", "global", t, i) = (u + 2) \div 6
               /\ Added("malloc", own, t, i) = u \div 6
               /\ \A x \in CountsIn("malloc") \ {"global", own} : Added("malloc", x, t, i) = 0
<1>1. LabMain \notin {T1, T2}
  BY DEF Labs!ProgramParameters
<1> DEFINE j == IF t = LabMain THEN i - 2 ELSE i
           u == Upto(j, 6 * Rounds)
           own == IF t = LabMain THEN "main_static" ELSE "thread_static"
<1>2. CountsIn("malloc") = {"global", "main_static", "thread_static"}
  BY DEF CountsIn
<1>3. /\ Added("malloc", "global", t, i) = (u + 2) \div 6
      /\ Added("malloc", own, t, i) = u \div 6
      /\ \A x \in CountsIn("malloc") \ {"global", own} : Added("malloc", x, t, i) = 0
  <2>1. \A x : Added("malloc", x, t, i)
            = CASE x = "global" /\ t \in {LabMain, T1, T2} -> (u + 2) \div 6
                [] x = "main_static" /\ t = LabMain -> u \div 6
                [] x = "thread_static" /\ t \in {T1, T2} -> u \div 6
                [] OTHER -> 0
    BY DEF Added
  <2> HIDE DEF u
  <2> QED BY <1>1, <1>2, <2>1
<1> QED BY <1>3

LEMMA MallocHolds ==
    ASSUME Labs!ProgramParameters, NEW t \in {LabMain, T1, T2}, NEW i \in Nat,
           NEW j, j = IF t = LabMain THEN i - 2 ELSE i,
           NEW tail, tail = IF t = LabMain THEN 6 * Rounds + 4 ELSE 6 * Rounds + 2
    PROVE  /\ HasMutex("malloc", t, i) \in BOOLEAN
           /\ HasMutex("malloc", t, i)
                 <=> (j <= 6 * Rounds /\ j > 0 /\ j % 6 # 1) \/ j = tail
BY DEF HasMutex, InRound

LEMMA MallocLapObeys ==
    ASSUME Labs!ProgramParameters, NEW t \in {LabMain, T1, T2},
           NEW own, own = IF t = LabMain THEN "main_static" ELSE "thread_static",
           NEW j \in 1 .. 6 * Rounds, NEW i \in Nat, i = IF t = LabMain THEN j + 2 ELSE j,
           Code("malloc", t)[i] = Labs!count_rounds(own)[j],
           j > 1 => Code("malloc", t)[i - 1] = Labs!count_rounds(own)[j - 1]
    PROVE  Obeys("malloc", t, i)
<1> DEFINE p == "malloc"
           N == 6 * Rounds
<1>1. /\ N \in Nat /\ j \in Nat /\ j + 1 \in Nat /\ j > 0 /\ j <= N /\ i + 1 \in Nat
      /\ i >= j
      /\ j = IF t = LabMain THEN i - 2 ELSE i
      /\ j + 1 = IF t = LabMain THEN (i + 1) - 2 ELSE i + 1
  <2>1. N \in Nat
    BY LapsEnd
  <2> HIDE DEF N
  <2>2. j \in 1 .. N
    BY DEF N
  <2>3. i = j + 2 \/ i = j
    OBVIOUS
  <2> QED BY <2>1, <2>2, <2>3
<1>2. own \in {"main_static", "thread_static"}
  OBVIOUS
<1>3. NotJoining(p, t, i)
  <2>1. \A u \in {T1, T2} : JoinedAt(p, u) \in {N + 3, N + 4}
    BY DEF JoinedAt
  <2> HIDE DEF N
  <2> QED BY <1>1, <2>1 DEF NotJoining
<1>4. /\ HasMutex(p, t, i) \in BOOLEAN /\ HasMutex(p, t, i + 1) \in BOOLEAN
      /\ HasMutex(p, t, i) <=> j % 6 # 1
      /\ HasMutex(p, t, i + 1) <=> j % 6 # 0
  <2> DEFINE tail == IF t = LabMain THEN N + 4 ELSE N + 2
  <2>1. /\ HasMutex(p, t, i) \in BOOLEAN
        /\ HasMutex(p, t, i) <=> (j <= N /\ j > 0 /\ j % 6 # 1) \/ j = tail
    BY <1>1, MallocHolds
  <2>2. /\ HasMutex(p, t, i + 1) \in BOOLEAN
        /\ HasMutex(p, t, i + 1)
              <=> (j + 1 <= N /\ j + 1 > 0 /\ (j + 1) % 6 # 1) \/ j + 1 = tail
    BY <1>1, MallocHolds
  <2>3. j # tail /\ j + 1 # tail /\ (j + 1 <= N \/ j = N) /\ j + 1 > 0
    BY <1>1
  <2>4. /\ (j + 1) % 6 = (IF j % 6 = 5 THEN 0 ELSE (j % 6) + 1)
        /\ j % 6 \in {0, 1, 2, 3, 4, 5}
        /\ j = N => j % 6 = 0
    BY <1>1, Sixths, LapsEnd
  <2> HIDE DEF N, tail
  <2>5. j + 1 <= N <=> j # N
    BY <1>1
  <2> QED BY <1>1, <2>1, <2>2, <2>3, <2>4, <2>5
<1>5. /\ Added(p, "global", t, i) = (j + 2) \div 6
      /\ Added(p, own, t, i) = j \div 6
      /\ \A x \in CountsIn(p) \ {"global", own} : Added(p, x, t, i) = 0
  <2>1. Upto(j, N) = j
    BY <1>1, UptoIs
  <2> QED BY <1>1, <2>1, MallocCounts
<1>6. /\ Added(p, "global", t, i + 1) = (j + 3) \div 6
      /\ Added(p, own, t, i + 1) = (j + 1) \div 6
      /\ \A x \in CountsIn(p) \ {"global", own} : Added(p, x, t, i + 1) = 0
  <2> DEFINE u == Upto(j + 1, N)
  <2>1. u = IF j = N THEN N ELSE j + 1
    <3> HIDE DEF N
    <3>1. j + 1 \in Int /\ (j = N => j + 1 >= N) /\ (j # N => j + 1 \in 0 .. N)
      BY <1>1
    <3> DEFINE m == j + 1
    <3> HIDE DEF m
    <3>2. /\ m \in Int /\ (j = N => m >= N) /\ (j # N => m \in 0 .. N)
          /\ u = Upto(m, N)
      BY <3>1 DEF m
    <3> HIDE DEF u
    <3>3. u = IF j = N THEN N ELSE m
      BY <1>1, <3>2, UptoIs
    <3> QED BY <3>3 DEF m
  <2>2. (u + 2) \div 6 = (j + 3) \div 6 /\ u \div 6 = (j + 1) \div 6
    <3>1. CASE j = N
      <4>1. /\ (N + 2) \div 6 = Rounds /\ (N + 3) \div 6 = Rounds
            /\ N \div 6 = Rounds /\ (N + 1) \div 6 = Rounds
        BY LapsEnd
      <4> HIDE DEF u, N
      <4> QED BY <2>1, <3>1, <4>1
    <3>2. CASE j # N
      <4>1. u = j + 1 /\ (j + 1) + 2 = j + 3
        BY <1>1, <2>1, <3>2
      <4> HIDE DEF u
      <4> QED BY <4>1
    <3> QED BY <3>1, <3>2
  <2>3. /\ Added(p, "global", t, i + 1) = (u + 2) \div 6
        /\ Added(p, own, t, i + 1) = u \div 6
        /\ \A x \in CountsIn(p) \ {"global", own} : Added(p, x, t, i + 1) = 0
    BY <1>1, MallocCounts
  <2> QED BY <2>2, <2>3
<1> HIDE DEF N
<1> QED BY <1>1, <1>2, <1>3, <1>4, <1>5, <1>6, SixObeys

(* Everywhere, and at the two ends.                                        *)
LEMMA MallocEnds ==
    ASSUME Labs!ProgramParameters, NEW t \in {LabMain, T1, T2}
    PROVE  /\ \A i \in Nat : /\ HasMutex("malloc", t, i) \in BOOLEAN
                             /\ \A x \in CountsIn("malloc") : Added("malloc", x, t, i) \in Int
           /\ ~ HasMutex("malloc", t, 0) /\ ~ HasMutex("malloc", t, 1)
           /\ \A x \in CountsIn("malloc") :
                 Added("malloc", x, t, 0) = 0 /\ Added("malloc", x, t, 1) = 0
<1> DEFINE p == "malloc"
           N == 6 * Rounds
           own == IF t = LabMain THEN "main_static" ELSE "thread_static"
<1>1. N \in Nat /\ CountsIn(p) = {"global", "main_static", "thread_static"}
  BY LapsEnd DEF CountsIn
<1>2. ASSUME NEW i \in Nat
      PROVE  /\ HasMutex(p, t, i) \in BOOLEAN
             /\ \A x \in CountsIn(p) : Added(p, x, t, i) \in Int
             /\ i < 2 => /\ ~ HasMutex(p, t, i)
                         /\ \A x \in CountsIn(p) : Added(p, x, t, i) = 0
  <2> DEFINE j == IF t = LabMain THEN i - 2 ELSE i
             u == Upto(j, N)
             tail == IF t = LabMain THEN N + 4 ELSE N + 2
  <2>1. u \in Nat /\ (i < 2 => u \in {0, 1}) /\ j \in Int
    <3>1. j \in Int /\ (i < 2 => j <= 0 \/ j = 1)
      OBVIOUS
    <3>2. Upto(1, N) \in {0, 1}
      BY <1>1 DEF Upto
    <3> HIDE DEF j, N
    <3> QED BY <1>1, <3>1, <3>2, UptoIs
  <2>2. /\ Added(p, "global", t, i) = (u + 2) \div 6
        /\ Added(p, own, t, i) = u \div 6
        /\ \A x \in CountsIn(p) \ {"global", own} : Added(p, x, t, i) = 0
    BY MallocCounts
  <2>3. /\ HasMutex(p, t, i) \in BOOLEAN
        /\ HasMutex(p, t, i) <=> (j <= N /\ j > 0 /\ j % 6 # 1) \/ j = tail
    BY MallocHolds
  <2>4. i < 2 => (j <= 0 \/ j % 6 = 1) /\ j # tail
    <3>1. i < 2 => (j <= 0 \/ j = 1) /\ j # tail
      BY <1>1
    <3>2. 1 % 6 = 1
      OBVIOUS
    <3> HIDE DEF j, tail
    <3> QED BY <3>1, <3>2
  <2> HIDE DEF u
  <2>5. /\ (u + 2) \div 6 \in Int /\ u \div 6 \in Int
        /\ u \in {0, 1} => (u + 2) \div 6 = 0 /\ u \div 6 = 0
    BY <2>1
  <2>6. \A x \in CountsIn(p) : /\ Added(p, x, t, i) \in Int
                               /\ u \in {0, 1} => Added(p, x, t, i) = 0
    BY <2>2, <2>5
  <2> HIDE DEF j, tail
  <2> QED BY <2>1, <2>3, <2>4, <2>6
<1>3. 0 \in Nat /\ 1 \in Nat /\ 0 < 2 /\ 1 < 2
  OBVIOUS
<1> QED BY <1>2, <1>3

(* The thread: its laps, and print_stats.                                  *)
LEMMA MallocThread ==
    ASSUME Labs!ProgramParameters, NEW t \in {T1, T2}
    PROVE  LET s == Labs!count_rounds("thread_static")
               N == 6 * Rounds
           IN  /\ Len(Code("malloc", t)) = N + 2
               /\ \A j \in 1 .. N : Code("malloc", t)[j] = s[j]
               /\ Code("malloc", t)[N + 1] = Labs!Lock("mutex")
               /\ Code("malloc", t)[N + 2] = Labs!Unlock("mutex")
<1> DEFINE s == Labs!count_rounds("thread_static")
           N == 6 * Rounds
           S == SixOf("thread_static")
           l == <<Labs!Lock("mutex"), Labs!Unlock("mutex")>>
           r == s \o l
<1>1. N \in Nat /\ s \in Seq(S) /\ Len(s) = N
  BY LapsEnd, SixLapsAre
<1>2. /\ l \in Seq(S) /\ Len(l) = 2
      /\ l[1] = Labs!Lock("mutex") /\ l[2] = Labs!Unlock("mutex")
  BY DEF SixOf
<1>3. Code("malloc", t) = r
  BY CodeIs DEF Labs!malloc_thread, Labs!print_stats, Labs!acquire_lock, Labs!release_lock
<1> HIDE DEF s, S, l, N
<1>4. /\ Len(r) = Len(s) + Len(l)
      /\ \A i \in 1 .. Len(s) + Len(l) : r[i] = IF i <= Len(s) THEN s[i] ELSE l[i - Len(s)]
  BY <1>1, <1>2, ConcatIs, Zenon
<1> HIDE DEF r
<1>5. /\ Len(r) = N + 2 /\ \A j \in 1 .. N : r[j] = s[j]
      /\ r[N + 1] = Labs!Lock("mutex") /\ r[N + 2] = Labs!Unlock("mutex")
  <2>1. /\ N + 1 \in 1 .. N + 2 /\ N + 2 \in 1 .. N + 2 /\ ~ (N + 1 <= N) /\ ~ (N + 2 <= N)
        /\ (N + 1) - N = 1 /\ (N + 2) - N = 2
        /\ \A j \in 1 .. N : j \in 1 .. N + 2 /\ j <= N
    BY <1>1
  <2> QED BY <1>1, <1>2, <1>4, <2>1
<1> QED BY <1>3, <1>5 DEF s, N

(* Main: it creates the threads, does its laps, joins them, print_stats.   *)
LEMMA MallocMain ==
    ASSUME Labs!ProgramParameters
    PROVE  LET s == Labs!count_rounds("main_static")
               N == 6 * Rounds
               c == Code("malloc", LabMain)
           IN  /\ Len(c) = N + 6
               /\ c[1] = Labs!Create(T1) /\ c[2] = Labs!Create(T2)
               /\ \A j \in 1 .. N : c[j + 2] = s[j]
               /\ c[N + 3] = Labs!Join(T1) /\ c[N + 4] = Labs!Join(T2)
               /\ c[N + 5] = Labs!Lock("mutex") /\ c[N + 6] = Labs!Unlock("mutex")
<1> DEFINE s == Labs!count_rounds("main_static")
           N == 6 * Rounds
           a == <<Labs!Create(T1), Labs!Create(T2)>>
           b == <<Labs!Join(T1), Labs!Join(T2)>>
           l == <<Labs!Lock("mutex"), Labs!Unlock("mutex")>>
           S == SixOf("main_static") \cup {a[1], a[2], b[1], b[2]}
           as == a \o s
           asb == as \o b
           r == asb \o l
<1>1. N \in Nat /\ s \in Seq(S) /\ Len(s) = N
  <2>1. s \in Seq(SixOf("main_static")) /\ Len(s) = N /\ N \in Nat
    BY LapsEnd, SixLapsAre
  <2> HIDE DEF s, N
  <2> QED BY <2>1
<1>2. /\ l \in Seq(S) /\ Len(l) = 2
      /\ l[1] = Labs!Lock("mutex") /\ l[2] = Labs!Unlock("mutex")
  BY DEF SixOf
<1>3. /\ a \in Seq(S) /\ Len(a) = 2 /\ a[1] = Labs!Create(T1) /\ a[2] = Labs!Create(T2)
      /\ b \in Seq(S) /\ Len(b) = 2 /\ b[1] = Labs!Join(T1) /\ b[2] = Labs!Join(T2)
  OBVIOUS
<1>4. Code("malloc", LabMain) = r
  BY CodeIs, EachOfTwo
  DEF Labs!malloc_main, Labs!Around, Labs!print_stats, Labs!acquire_lock, Labs!release_lock
<1> HIDE DEF s, S, l, a, b, N
<1>5. /\ as \in Seq(S) /\ Len(as) = N + 2
      /\ \A i \in 1 .. N + 2 : as[i] = IF i <= 2 THEN a[i] ELSE s[i - 2]
  <2>1. /\ as \in Seq(S) /\ Len(as) = Len(a) + Len(s)
        /\ \A i \in 1 .. Len(a) + Len(s) : as[i] = IF i <= Len(a) THEN a[i] ELSE s[i - Len(a)]
    BY <1>1, <1>3, ConcatIs, Zenon
  <2> HIDE DEF as
  <2>2. Len(a) + Len(s) = N + 2
    BY <1>1, <1>3
  <2> QED BY <1>3, <2>1, <2>2
<1> HIDE DEF as
<1>6. /\ asb \in Seq(S) /\ Len(asb) = N + 4
      /\ \A i \in 1 .. N + 4 : asb[i] = IF i <= N + 2 THEN as[i] ELSE b[i - (N + 2)]
  <2>1. /\ asb \in Seq(S) /\ Len(asb) = Len(as) + Len(b)
        /\ \A i \in 1 .. Len(as) + Len(b) :
              asb[i] = IF i <= Len(as) THEN as[i] ELSE b[i - Len(as)]
    BY <1>3, <1>5, ConcatIs, Zenon
  <2> HIDE DEF asb
  <2>2. Len(as) + Len(b) = N + 4 /\ Len(as) = N + 2
    BY <1>1, <1>3, <1>5
  <2> QED BY <2>1, <2>2
<1> HIDE DEF asb
<1>7. /\ Len(r) = N + 6
      /\ \A i \in 1 .. N + 6 : r[i] = IF i <= N + 4 THEN asb[i] ELSE l[i - (N + 4)]
  <2>1. /\ Len(r) = Len(asb) + Len(l)
        /\ \A i \in 1 .. Len(asb) + Len(l) :
              r[i] = IF i <= Len(asb) THEN asb[i] ELSE l[i - Len(asb)]
    BY <1>2, <1>6, ConcatIs, Zenon
  <2> HIDE DEF r
  <2>2. Len(asb) + Len(l) = N + 6 /\ Len(asb) = N + 4
    BY <1>1, <1>2, <1>6
  <2> QED BY <2>1, <2>2
<1> HIDE DEF r
<1>8. \A j \in 1 .. N : r[j + 2] = s[j]
  <2> SUFFICES ASSUME NEW j \in 1 .. N PROVE r[j + 2] = s[j]
    OBVIOUS
  <2>1. /\ j + 2 \in 1 .. N + 6 /\ j + 2 <= N + 4 /\ j + 2 \in 1 .. N + 4 /\ j + 2 <= N + 2
        /\ j + 2 \in 1 .. N + 2 /\ ~ (j + 2 <= 2) /\ (j + 2) - 2 = j
    BY <1>1
  <2> QED BY <1>5, <1>6, <1>7, <2>1
<1>9. r[1] = Labs!Create(T1) /\ r[2] = Labs!Create(T2)
  <2>1. \A i \in {1, 2} : /\ i \in 1 .. N + 6 /\ i <= N + 4 /\ i \in 1 .. N + 4 /\ i <= N + 2
                          /\ i \in 1 .. N + 2 /\ i <= 2
    BY <1>1
  <2>2. \A i \in {1, 2} : r[i] = a[i]
    <3> SUFFICES ASSUME NEW i \in {1, 2} PROVE r[i] = a[i]
      OBVIOUS
    <3>1. r[i] = asb[i]
      BY <1>7, <2>1
    <3>2. asb[i] = as[i]
      BY <1>6, <2>1
    <3>3. as[i] = a[i]
      BY <1>5, <2>1
    <3> QED BY <3>1, <3>2, <3>3
  <2> QED BY <1>3, <2>2
<1>10. r[N + 3] = Labs!Join(T1) /\ r[N + 4] = Labs!Join(T2)
  <2>1. \A i \in {N + 3, N + 4} : /\ i \in 1 .. N + 6 /\ i <= N + 4 /\ i \in 1 .. N + 4
                                  /\ ~ (i <= N + 2)
    BY <1>1
  <2>2. \A i \in {N + 3, N + 4} : r[i] = b[i - (N + 2)]
    <3> SUFFICES ASSUME NEW i \in {N + 3, N + 4} PROVE r[i] = b[i - (N + 2)]
      OBVIOUS
    <3>1. r[i] = asb[i]
      BY <1>7, <2>1
    <3>2. asb[i] = b[i - (N + 2)]
      BY <1>6, <2>1
    <3> QED BY <3>1, <3>2
  <2>3. (N + 3) - (N + 2) = 1 /\ (N + 4) - (N + 2) = 2
    BY <1>1
  <2> QED BY <1>3, <2>2, <2>3
<1>11. r[N + 5] = Labs!Lock("mutex") /\ r[N + 6] = Labs!Unlock("mutex")
  <2>1. \A i \in {N + 5, N + 6} : i \in 1 .. N + 6 /\ ~ (i <= N + 4)
    BY <1>1
  <2>2. \A i \in {N + 5, N + 6} : r[i] = l[i - (N + 4)]
    BY <1>7, <2>1
  <2>3. (N + 5) - (N + 4) = 1 /\ (N + 6) - (N + 4) = 2
    BY <1>1
  <2> QED BY <1>2, <2>2, <2>3
<1> QED BY <1>4, <1>7, <1>8, <1>9, <1>10, <1>11 DEF s, N

(* Outside of the laps no word changes; print_stats takes the mutex.       *)
LEMMA MallocTail ==
    ASSUME Labs!ProgramParameters, NEW t \in {LabMain, T1, T2},
           NEW i \in Nat, NEW j \in Int, j = IF t = LabMain THEN i - 2 ELSE i,
           j <= -1 \/ j > 6 * Rounds,
           NEW tail, tail = IF t = LabMain THEN 6 * Rounds + 4 ELSE 6 * Rounds + 2
    PROVE  /\ Steady("malloc", t, i)
           /\ HasMutex("malloc", t, i) <=> j = tail
           /\ HasMutex("malloc", t, i + 1) <=> j + 1 = tail
           /\ HasMutex("malloc", t, i) \in BOOLEAN /\ HasMutex("malloc", t, i + 1) \in BOOLEAN
<1> DEFINE N == 6 * Rounds
           own == IF t = LabMain THEN "main_static" ELSE "thread_static"
<1>1. N \in Nat /\ i + 1 \in Nat /\ j + 1 = IF t = LabMain THEN (i + 1) - 2 ELSE i + 1
  BY LapsEnd
<1>2. /\ HasMutex("malloc", t, i) \in BOOLEAN
      /\ HasMutex("malloc", t, i) <=> (j <= N /\ j > 0 /\ j % 6 # 1) \/ j = tail
  BY MallocHolds
<1>3. /\ HasMutex("malloc", t, i + 1) \in BOOLEAN
      /\ HasMutex("malloc", t, i + 1)
            <=> (j + 1 <= N /\ j + 1 > 0 /\ (j + 1) % 6 # 1) \/ j + 1 = tail
  BY <1>1, MallocHolds
<1>4. Upto(j, N) = Upto(j + 1, N)
  <2> HIDE DEF N
  <2>1. (j <= 0 /\ j + 1 <= 0) \/ (j >= N /\ j + 1 >= N)
    BY <1>1 DEF N
  <2>2. j + 1 \in Int
    OBVIOUS
  <2>3. /\ j <= 0 => Upto(j, N) = 0
        /\ j >= N => Upto(j, N) = N
    BY <1>1, UptoIs
  <2>4. /\ j + 1 <= 0 => Upto(j + 1, N) = 0
        /\ j + 1 >= N => Upto(j + 1, N) = N
    BY <1>1, <2>2, UptoIs
  <2> QED BY <1>1, <2>1, <2>3, <2>4
<1>5. Steady("malloc", t, i)
  <2>1. /\ Added("malloc", "global", t, i) = (Upto(j, N) + 2) \div 6
        /\ Added("malloc", own, t, i) = Upto(j, N) \div 6
        /\ \A x \in CountsIn("malloc") \ {"global", own} : Added("malloc", x, t, i) = 0
    BY MallocCounts
  <2>2. /\ Added("malloc", "global", t, i + 1) = (Upto(j + 1, N) + 2) \div 6
        /\ Added("malloc", own, t, i + 1) = Upto(j + 1, N) \div 6
        /\ \A x \in CountsIn("malloc") \ {"global", own} : Added("malloc", x, t, i + 1) = 0
    BY <1>1, MallocCounts
  <2>3. \A x \in CountsIn("malloc") : Added("malloc", x, t, i) \in Int
    BY MallocEnds
  <2> QED BY <1>4, <2>1, <2>2, <2>3 DEF Steady
<1>6. (j <= 0 /\ j + 1 <= 0) \/ (j > N /\ j + 1 > N)
  BY <1>1
<1>7. ~ (j <= N /\ j > 0) /\ ~ (j + 1 <= N /\ j + 1 > 0)
  <2> HIDE DEF N
  <2> QED BY <1>1, <1>6
<1> HIDE DEF N
<1> QED BY <1>2, <1>3, <1>5, <1>7

LEMMA MallocThreadKeeps ==
    ASSUME Labs!ProgramParameters, NEW t \in {T1, T2}
    PROVE  Keeps("malloc", t) /\ Len(Code("malloc", t)) = 6 * Rounds + 2
<1> DEFINE p == "malloc"
           N == 6 * Rounds
           s == Labs!count_rounds("thread_static")
           c == Code(p, t)
<1>1. N \in Nat /\ t # LabMain
  BY LapsEnd DEF Labs!ProgramParameters
<1>2. /\ Len(c) = N + 2 /\ \A j \in 1 .. N : c[j] = s[j]
      /\ c[N + 1] = Labs!Lock("mutex") /\ c[N + 2] = Labs!Unlock("mutex")
  BY MallocThread
<1>3. ASSUME NEW i \in 1 .. N + 2 PROVE Obeys(p, t, i)
  <2>1. CASE i <= N
    <3>1. i \in 1 .. N /\ i \in Nat /\ (i > 1 => i - 1 \in 1 .. N)
      BY <1>1, <2>1
    <3>2. c[i] = s[i] /\ (i > 1 => c[i - 1] = s[i - 1])
      BY <1>2, <3>1
    <3> QED BY <1>1, <3>1, <3>2, MallocLapObeys
  <2>2. CASE i = N + 1 \/ i = N + 2
    <3>1. NotJoining(p, t, i) /\ i \in Nat /\ i \in Int
      BY <1>1 DEF NotJoining
    <3>2. /\ Steady(p, t, i) /\ HasMutex(p, t, i) \in BOOLEAN /\ HasMutex(p, t, i + 1) \in BOOLEAN
          /\ HasMutex(p, t, i) <=> i = N + 2
          /\ HasMutex(p, t, i + 1) <=> i + 1 = N + 2
      BY <1>1, <2>2, <3>1, MallocTail
    <3>3. CASE i = N + 1
      BY <1>1, <1>2, <3>1, <3>2, <3>3, LockObeys
    <3>4. CASE i = N + 2
      BY <1>1, <1>2, <3>1, <3>2, <3>4, UnlockObeys
    <3> QED BY <2>2, <3>3, <3>4
  <2> QED BY <1>1, <2>1, <2>2
<1>4. \A i \in 0 .. N + 2 + 1 : i \in Nat
  BY <1>1
<1>5. N + 2 \in Nat
  BY <1>1
<1> QED BY <1>2, <1>3, <1>4, <1>5, MallocEnds DEF Keeps

LEMMA MallocMainKeeps ==
    ASSUME Labs!ProgramParameters
    PROVE  Keeps("malloc", LabMain) /\ Len(Code("malloc", LabMain)) = 6 * Rounds + 6
<1> DEFINE p == "malloc"
           t == LabMain
           N == 6 * Rounds
           s == Labs!count_rounds("main_static")
           c == Code(p, LabMain)
<1>1. N \in Nat /\ LabMain \notin {T1, T2} /\ T1 # T2
  BY LapsEnd DEF Labs!ProgramParameters
<1>2. /\ Len(c) = N + 6
      /\ c[1] = Labs!Create(T1) /\ c[2] = Labs!Create(T2)
      /\ \A j \in 1 .. N : c[j + 2] = s[j]
      /\ c[N + 3] = Labs!Join(T1) /\ c[N + 4] = Labs!Join(T2)
      /\ c[N + 5] = Labs!Lock("mutex") /\ c[N + 6] = Labs!Unlock("mutex")
  BY MallocMain
<1>3. JoinedAt(p, T1) = N + 3 /\ JoinedAt(p, T2) = N + 4
      /\ CreatedAt(T1) = 1 /\ CreatedAt(T2) = 2
  BY <1>1 DEF JoinedAt, CreatedAt
<1>4. \A i \in Nat : i \notin {N + 3, N + 4} => NotJoining(p, t, i)
  BY <1>3 DEF NotJoining
<1>5. ASSUME NEW i \in Nat, i = 1 \/ i > N + 2
      PROVE  /\ Steady(p, t, i)
             /\ HasMutex(p, t, i) \in BOOLEAN /\ HasMutex(p, t, i + 1) \in BOOLEAN
             /\ HasMutex(p, t, i) <=> i = N + 6
             /\ HasMutex(p, t, i + 1) <=> i = N + 5
  <2> DEFINE j == i - 2
  <2>1. j \in Int /\ (j <= -1 \/ j > N) /\ (j = N + 4 <=> i = N + 6)
        /\ (j + 1 = N + 4 <=> i = N + 5)
    BY <1>1, <1>5
  <2>2. /\ Steady(p, t, i)
        /\ HasMutex(p, t, i) \in BOOLEAN /\ HasMutex(p, t, i + 1) \in BOOLEAN
        /\ HasMutex(p, t, i) <=> j = N + 4
        /\ HasMutex(p, t, i + 1) <=> j + 1 = N + 4
    BY <2>1, MallocTail
  <2> HIDE DEF j
  <2> QED BY <2>1, <2>2
<1>6. /\ Steady(p, t, 2)
      /\ HasMutex(p, t, 2) \in BOOLEAN /\ HasMutex(p, t, 3) \in BOOLEAN
      /\ ~ HasMutex(p, t, 2) /\ ~ HasMutex(p, t, 3)
  <2>1. /\ HasMutex(p, t, 2) \in BOOLEAN /\ HasMutex(p, t, 3) \in BOOLEAN
        /\ HasMutex(p, t, 2) <=> (0 <= N /\ 0 > 0 /\ 0 % 6 # 1) \/ 0 = N + 4
        /\ HasMutex(p, t, 3) <=> (1 <= N /\ 1 > 0 /\ 1 % 6 # 1) \/ 1 = N + 4
    <3>1. 0 = 2 - 2 /\ 1 = 3 - 2 /\ 2 \in Nat /\ 3 \in Nat
      OBVIOUS
    <3> QED BY <3>1, MallocHolds
  <2>2. ~ (0 > 0) /\ 0 # N + 4 /\ 1 % 6 = 1 /\ 1 # N + 4
    BY <1>1
  <2>3. \A i \in {2, 3} : \A x \in CountsIn(p) : Added(p, x, t, i) = 0
    <3> SUFFICES ASSUME NEW i \in {2, 3}
                 PROVE  \A x \in CountsIn(p) : Added(p, x, t, i) = 0
      OBVIOUS
    <3> DEFINE u == Upto(i - 2, N)
    <3>1. u \in {0, 1}
      <4>1. i - 2 = 0 \/ i - 2 = 1
        OBVIOUS
      <4> HIDE DEF N
      <4> QED BY <1>1, <4>1 DEF Upto
    <3>2. /\ Added(p, "global", t, i) = (u + 2) \div 6
          /\ Added(p, "main_static", t, i) = u \div 6
          /\ \A x \in CountsIn(p) \ {"global", "main_static"} : Added(p, x, t, i) = 0
      <4>1. i \in Nat
        OBVIOUS
      <4> QED BY <4>1, MallocCounts
    <3> HIDE DEF u
    <3>3. (u + 2) \div 6 = 0 /\ u \div 6 = 0
      BY <3>1
    <3> QED BY <3>2, <3>3
  <2>4. 2 + 1 = 3
    OBVIOUS
  <2> QED BY <2>1, <2>2, <2>3, <2>4 DEF Steady
<1>7. Obeys(p, t, 1)
  <2>1. 1 \in Nat /\ 1 # N + 6 /\ 1 # N + 5 /\ 1 \notin {N + 3, N + 4}
    BY <1>1
  <2> QED BY <1>2, <1>3, <1>4, <1>5, <2>1, CreateObeys
<1>8. Obeys(p, t, 2)
  <2>1. 2 \in Nat /\ 2 \notin {N + 3, N + 4} /\ 2 + 1 = 3
    BY <1>1
  <2> QED BY <1>2, <1>3, <1>4, <1>6, <2>1, CreateObeys
<1>9. ASSUME NEW j \in 1 .. N PROVE Obeys(p, t, j + 2)
  <2>1. j + 2 \in Nat /\ (j > 1 => j - 1 \in 1 .. N /\ (j - 1) + 2 = (j + 2) - 1)
    BY <1>1
  <2>2. c[j + 2] = s[j] /\ (j > 1 => c[(j + 2) - 1] = s[j - 1])
    BY <1>2, <2>1
  <2> QED BY <2>1, <2>2, MallocLapObeys
<1>10. ASSUME NEW i \in {N + 3, N + 4} PROVE Obeys(p, t, i)
  <2> DEFINE u == IF i = N + 3 THEN T1 ELSE T2
  <2>1. i \in Nat /\ i > N + 2 /\ i # N + 6 /\ i # N + 5 /\ (i = N + 3 \/ i = N + 4)
        /\ N + 3 # N + 4
    BY <1>1
  <2>2. u \in {T1, T2} /\ i = JoinedAt(p, u) /\ c[i] = Labs!Join(u)
    BY <1>2, <1>3, <2>1
  <2> QED BY <1>5, <2>1, <2>2, JoinObeys
<1>11. Obeys(p, t, N + 5)
  <2>1. N + 5 \in Nat /\ N + 5 > N + 2 /\ N + 5 \notin {N + 3, N + 4}
    BY <1>1
  <2> QED BY <1>2, <1>4, <1>5, <2>1, LockObeys
<1>12. Obeys(p, t, N + 6)
  <2>1. /\ N + 6 \in Nat /\ N + 6 > N + 2 /\ N + 6 \notin {N + 3, N + 4}
        /\ N + 6 # N + 5
    BY <1>1
  <2> QED BY <1>2, <1>4, <1>5, <2>1, UnlockObeys
<1>13. ASSUME NEW i \in 1 .. N + 6 PROVE Obeys(p, t, i)
  <2>1. \/ i = 1 \/ i = 2 \/ i \in {N + 3, N + 4} \/ i = N + 5 \/ i = N + 6
        \/ i - 2 \in 1 .. N /\ i = (i - 2) + 2
    BY <1>1
  <2> QED BY <1>7, <1>8, <1>9, <1>10, <1>11, <1>12, <2>1
<1>14. N + 6 \in Nat /\ \A i \in 0 .. N + 6 + 1 : i \in Nat
  BY <1>1
<1> QED BY <1>2, <1>13, <1>14, MallocEnds DEF Keeps

-----------------------------------------------------------------------------
(* "tank": a car of five instructions and a filler of five laps.           *)
Await == Labs!WaitWhile("tank", -50 .. 39, "condFuel", "mutex")

LEMMA CarIs ==
    /\ Len(Labs!car) = 5
    /\ Labs!car[1] = Labs!Lock("mutex") /\ Labs!car[2] = Await
    /\ Labs!car[3] = Labs!Load("tank") /\ Labs!car[4] = Labs!Store("tank", -50)
    /\ Labs!car[5] = Labs!Unlock("mutex")
<1> DEFINE l == <<Labs!Lock("mutex")>>
           w == <<Await>>
           a == <<Labs!Load("tank"), Labs!Store("tank", -50)>>
           u == <<Labs!Unlock("mutex")>>
           S == {l[1], w[1], a[1], a[2], u[1]}
           wa == w \o a
           lwa == l \o wa
           r == lwa \o u
<1>1. Labs!car = r
  BY DEF Labs!car, Labs!Locked, Labs!Add, Await
<1>2. /\ l \in Seq(S) /\ Len(l) = 1 /\ l[1] = Labs!Lock("mutex")
      /\ w \in Seq(S) /\ Len(w) = 1 /\ w[1] = Await
      /\ u \in Seq(S) /\ Len(u) = 1 /\ u[1] = Labs!Unlock("mutex")
  OBVIOUS
<1>3. /\ a \in Seq(S) /\ Len(a) = 2 /\ a[1] = Labs!Load("tank")
      /\ a[2] = Labs!Store("tank", -50)
  OBVIOUS
<1> HIDE DEF l, w, a, u, S
<1>4. /\ wa \in Seq(S) /\ Len(wa) = 3
      /\ \A i \in 1 .. 3 : wa[i] = IF i <= 1 THEN w[i] ELSE a[i - 1]
  <2>1. /\ wa \in Seq(S) /\ Len(wa) = Len(w) + Len(a)
        /\ \A i \in 1 .. Len(w) + Len(a) : wa[i] = IF i <= Len(w) THEN w[i] ELSE a[i - Len(w)]
    BY <1>2, <1>3, ConcatIs, Zenon
  <2> HIDE DEF wa
  <2> QED BY <1>2, <1>3, <2>1
<1> HIDE DEF wa
<1>5. /\ lwa \in Seq(S) /\ Len(lwa) = 4
      /\ \A i \in 1 .. 4 : lwa[i] = IF i <= 1 THEN l[i] ELSE wa[i - 1]
  <2>1. /\ lwa \in Seq(S) /\ Len(lwa) = Len(l) + Len(wa)
        /\ \A i \in 1 .. Len(l) + Len(wa) : lwa[i] = IF i <= Len(l) THEN l[i] ELSE wa[i - Len(l)]
    BY <1>2, <1>4, ConcatIs, Zenon
  <2> HIDE DEF lwa
  <2> QED BY <1>2, <1>4, <2>1
<1> HIDE DEF lwa
<1>6. /\ Len(r) = 5
      /\ \A i \in 1 .. 5 : r[i] = IF i <= 4 THEN lwa[i] ELSE u[i - 4]
  <2>1. /\ r \in Seq(S) /\ Len(r) = Len(lwa) + Len(u)
        /\ \A i \in 1 .. Len(lwa) + Len(u) :
              r[i] = IF i <= Len(lwa) THEN lwa[i] ELSE u[i - Len(lwa)]
    BY <1>2, <1>5, ConcatIs, Zenon
  <2> HIDE DEF r
  <2> QED BY <1>2, <1>5, <2>1
<1> HIDE DEF r
<1>7. /\ r[1] = Labs!Lock("mutex") /\ r[2] = Await /\ r[3] = Labs!Load("tank")
      /\ r[4] = Labs!Store("tank", -50) /\ r[5] = Labs!Unlock("mutex")
  BY <1>2, <1>3, <1>4, <1>5, <1>6
<1> QED BY <1>1, <1>6, <1>7

LEMMA FillingIs ==
    /\ Len(Labs!filling_tank) = 25
    /\ \A i \in 1 .. 25 :
          /\ i % 5 = 1 => Labs!filling_tank[i] = Labs!Lock("mutex")
          /\ i % 5 = 2 => Labs!filling_tank[i] = Labs!Load("tank")
          /\ i % 5 = 3 => Labs!filling_tank[i] = Labs!Store("tank", 10)
          /\ i % 5 = 4 => Labs!filling_tank[i] = Labs!Unlock("mutex")
          /\ i % 5 = 0 => Labs!filling_tank[i] = Labs!Signal("condFuel")
<1> DEFINE a == <<Labs!Lock("mutex"), Labs!Load("tank"), Labs!Store("tank", 10),
                  Labs!Unlock("mutex")>>
           g == <<Labs!Signal("condFuel")>>
           S == {a[1], a[2], a[3], a[4], g[1]}
           r == a \o g
           s == Labs!Repeat(5, r)
<1>1. Labs!filling_tank = s
  BY SectionOfTwo DEF Labs!filling_tank, Labs!Add, Labs!Fills
<1>2. /\ a \in Seq(S) /\ Len(a) = 4
      /\ a[1] = Labs!Lock("mutex") /\ a[2] = Labs!Load("tank")
      /\ a[3] = Labs!Store("tank", 10) /\ a[4] = Labs!Unlock("mutex")
  OBVIOUS
<1>3. g \in Seq(S) /\ Len(g) = 1 /\ g[1] = Labs!Signal("condFuel")
  OBVIOUS
<1> HIDE DEF a, g, S
<1>4. /\ r \in Seq(S) /\ Len(r) = 5
      /\ \A i \in 1 .. 5 : r[i] = IF i <= 4 THEN a[i] ELSE g[i - 4]
  <2>1. /\ r \in Seq(S) /\ Len(r) = Len(a) + Len(g)
        /\ \A i \in 1 .. Len(a) + Len(g) : r[i] = IF i <= Len(a) THEN a[i] ELSE g[i - Len(a)]
    BY <1>2, <1>3, ConcatIs, Zenon
  <2> HIDE DEF r
  <2> QED BY <1>2, <1>3, <2>1
<1>5. /\ r[1] = Labs!Lock("mutex") /\ r[2] = Labs!Load("tank")
      /\ r[3] = Labs!Store("tank", 10) /\ r[4] = Labs!Unlock("mutex")
      /\ r[5] = Labs!Signal("condFuel")
  <2> HIDE DEF r
  <2> QED BY <1>2, <1>3, <1>4
<1> HIDE DEF r
<1>6. Len(s) = 25 /\ \A i \in 1 .. 25 : s[i] = r[((i - 1) % 5) + 1]
  <2>1. 5 \in Nat /\ 5 \in Nat \ {0} /\ 5 * 5 = 25
    OBVIOUS
  <2>2. Len(s) = 5 * 5 /\ \A i \in 1 .. 5 * 5 : s[i] = r[((i - 1) % 5) + 1]
    <3>1. Len(r) \in Nat \ {0}
      BY <1>4
    <3>2. /\ Len(s) = 5 * Len(r)
          /\ \A i \in 1 .. 5 * Len(r) : s[i] = r[((i - 1) % Len(r)) + 1]
      BY <1>4, <2>1, <3>1, RepeatOf, Zenon
    <3> QED BY <1>4, <3>2, Zenon
  <2> QED BY <2>1, <2>2, Zenon
<1> HIDE DEF s
<1>7. ASSUME NEW i \in 1 .. 25
      PROVE  /\ i % 5 = 1 => s[i] = Labs!Lock("mutex")
             /\ i % 5 = 2 => s[i] = Labs!Load("tank")
             /\ i % 5 = 3 => s[i] = Labs!Store("tank", 10)
             /\ i % 5 = 4 => s[i] = Labs!Unlock("mutex")
             /\ i % 5 = 0 => s[i] = Labs!Signal("condFuel")
  <2>1. ((i - 1) % 5) + 1 = IF i % 5 = 0 THEN 5 ELSE i % 5
    OBVIOUS
  <2> QED BY <1>5, <1>6, <2>1
<1> QED BY <1>1, <1>6, <1>7

LEMMA CarKeeps ==
    ASSUME Labs!ProgramParameters
    PROVE  Keeps("tank", T1) /\ Len(Code("tank", T1)) = 5
<1> DEFINE p == "tank"
           t == T1
<1>1. T1 # LabMain /\ T1 # T2 /\ Code(p, t) = Labs!car /\ CountsIn(p) = {"tank"}
  BY CodeIs DEF Labs!ProgramParameters, CountsIn
<1>2. \A i \in Nat : /\ HasMutex(p, t, i) \in BOOLEAN
                     /\ HasMutex(p, t, i) <=> i \in 2 .. 5
                     /\ Added(p, "tank", t, i) = IF i >= 5 THEN -50 ELSE 0
  <2>1. \A i \in Nat : /\ HasMutex(p, t, i) \in BOOLEAN
                       /\ HasMutex(p, t, i) <=> i \in 2 .. 5
    BY <1>1 DEF HasMutex
  <2>2. \A i \in Nat : Added(p, "tank", t, i) = IF i >= 5 THEN -50 ELSE 0
    BY <1>1 DEF Added
  <2> QED BY <2>1, <2>2
<1>3. ASSUME NEW i \in 1 .. 5 PROVE Obeys(p, t, i)
  <2>1. /\ NotJoining(p, t, i) /\ i \in Nat /\ i + 1 \in Nat
        /\ HasMutex(p, t, i) \in BOOLEAN /\ HasMutex(p, t, i + 1) \in BOOLEAN
        /\ HasMutex(p, t, i) <=> i # 1
        /\ HasMutex(p, t, i + 1) <=> i # 5
    BY <1>1, <1>2 DEF NotJoining
  <2>2. i # 4 => Steady(p, t, i)
    BY <1>1, <1>2, <2>1 DEF Steady
  <2>3. CASE i = 1
    BY <1>1, <2>1, <2>2, <2>3, CarIs, LockObeys
  <2>4. CASE i = 2
    BY <1>1, <2>1, <2>2, <2>4, CarIs, WaitWhileObeys DEF Await
  <2>5. CASE i = 3
    BY <1>1, <2>1, <2>2, <2>5, CarIs, LoadObeys
  <2>6. CASE i = 4
    <3>1. \A y \in CountsIn(p) :
             /\ Added(p, y, t, i) \in Int
             /\ Added(p, y, t, i + 1) = Added(p, y, t, i) + IF y = "tank" THEN -50 ELSE 0
      BY <1>1, <1>2, <2>1, <2>6
    <3>2. HasMutex(p, t, i) = TRUE /\ HasMutex(p, t, i + 1) = TRUE
      BY <2>1, <2>6
    <3>3. /\ Code(p, t)[i - 1] = Labs!Load("tank") /\ Code(p, t)[i] = Labs!Store("tank", -50)
          /\ i > 1 /\ -50 \in Int /\ "tank" \in CountsIn(p)
      BY <1>1, <2>6, CarIs
    <3> QED BY <2>1, <3>1, <3>2, <3>3, StoreObeys
  <2>7. CASE i = 5
    BY <1>1, <2>1, <2>2, <2>7, CarIs, UnlockObeys
  <2> QED BY <2>3, <2>4, <2>5, <2>6, <2>7
<1>4. /\ ~ HasMutex(p, t, 0) /\ ~ HasMutex(p, t, 1)
      /\ Added(p, "tank", t, 0) = 0 /\ Added(p, "tank", t, 1) = 0
  BY <1>2
<1>5. \A i \in Nat : Added(p, "tank", t, i) \in Int
  BY <1>2
<1>6. \A i \in 0 .. 5 + 1 : i \in Nat
  OBVIOUS
<1>7. Len(Code(p, t)) = 5 /\ 5 \in Nat
  BY <1>1, CarIs
<1> QED BY <1>1, <1>2, <1>3, <1>4, <1>5, <1>6, <1>7 DEF Keeps

LEMMA Fifths ==
    ASSUME NEW j \in Nat
    PROVE  /\ j % 5 \in {0, 1, 2, 3, 4} /\ (j + 1) \div 5 \in Nat
           /\ (j + 2) \div 5 = ((j + 1) \div 5) + (IF j % 5 = 3 THEN 1 ELSE 0)
           /\ (j + 1) % 5 = (IF j % 5 = 4 THEN 0 ELSE (j % 5) + 1)
           /\ j % 5 = 3 => j > 1 /\ (j - 1) % 5 = 2
           /\ 0 % 5 = 0 /\ 1 % 5 = 1 /\ 1 \div 5 = 0 /\ 2 \div 5 = 0
OBVIOUS

LEMMA FillingKeeps ==
    ASSUME Labs!ProgramParameters
    PROVE  Keeps("tank", T2) /\ Len(Code("tank", T2)) = 25
<1> DEFINE p == "tank"
           t == T2
<1>1. T2 # LabMain /\ T1 # T2 /\ Code(p, t) = Labs!filling_tank /\ CountsIn(p) = {"tank"}
  BY CodeIs DEF Labs!ProgramParameters, CountsIn
<1>2. \A i \in Nat : /\ HasMutex(p, t, i) \in BOOLEAN
                     /\ HasMutex(p, t, i) <=> i % 5 \in 2 .. 4
                     /\ Added(p, "tank", t, i) = 10 * ((i + 1) \div 5)
  <2>1. \A i \in Nat : /\ HasMutex(p, t, i) \in BOOLEAN
                       /\ HasMutex(p, t, i) <=> i % 5 \in 2 .. 4
    BY <1>1 DEF HasMutex
  <2>2. \A i \in Nat : Added(p, "tank", t, i) = 10 * ((i + 1) \div 5)
    BY <1>1 DEF Added
  <2> QED BY <2>1, <2>2
<1>3. ASSUME NEW i \in 1 .. 25 PROVE Obeys(p, t, i)
  <2> DEFINE j == i % 5
             q == (i + 1) \div 5
  <2>1. /\ i \in Nat /\ i + 1 \in Nat /\ j \in {0, 1, 2, 3, 4} /\ q \in Nat
        /\ (i + 1) + 1 = i + 2
        /\ (i + 2) \div 5 = q + (IF j = 3 THEN 1 ELSE 0)
        /\ (i + 1) % 5 = (IF j = 4 THEN 0 ELSE j + 1)
        /\ j = 3 => i > 1 /\ i - 1 \in 1 .. 25 /\ (i - 1) % 5 = 2
    BY Fifths
  <2>2. /\ HasMutex(p, t, i) \in BOOLEAN /\ HasMutex(p, t, i + 1) \in BOOLEAN
        /\ HasMutex(p, t, i) <=> j \in 2 .. 4
        /\ HasMutex(p, t, i + 1) <=> (i + 1) % 5 \in 2 .. 4
        /\ Added(p, "tank", t, i) = 10 * q
        /\ Added(p, "tank", t, i + 1) = 10 * ((i + 2) \div 5)
    BY <1>2, <2>1
  <2>3. /\ j = 1 => Code(p, t)[i] = Labs!Lock("mutex")
        /\ j = 2 => Code(p, t)[i] = Labs!Load("tank")
        /\ j = 3 => /\ Code(p, t)[i] = Labs!Store("tank", 10)
                    /\ Code(p, t)[i - 1] = Labs!Load("tank")
        /\ j = 4 => Code(p, t)[i] = Labs!Unlock("mutex")
        /\ j = 0 => Code(p, t)[i] = Labs!Signal("condFuel")
    <3>1. j = 3 => Code(p, t)[i - 1] = Labs!Load("tank")
      BY <1>1, <2>1, FillingIs
    <3> QED BY <1>1, <3>1, FillingIs
  <2> HIDE DEF j, q
  <2>4. /\ Added(p, "tank", t, i) \in Int
        /\ Added(p, "tank", t, i + 1) = Added(p, "tank", t, i) + (IF j = 3 THEN 10 ELSE 0)
        /\ HasMutex(p, t, i + 1) <=> j \in 1 .. 3
    BY <2>1, <2>2
  <2>5. NotJoining(p, t, i) /\ (j # 3 => Steady(p, t, i))
    BY <1>1, <2>4 DEF Steady, NotJoining
  <2>6. CASE j = 1
    BY <2>2, <2>3, <2>4, <2>5, <2>6, LockObeys
  <2>7. CASE j = 2
    BY <1>1, <2>2, <2>3, <2>4, <2>5, <2>7, LoadObeys
  <2>8. CASE j = 3
    <3>1. \A y \in CountsIn(p) :
             /\ Added(p, y, t, i) \in Int
             /\ Added(p, y, t, i + 1) = Added(p, y, t, i) + IF y = "tank" THEN 10 ELSE 0
      BY <1>1, <2>4, <2>8
    <3>2. HasMutex(p, t, i) = TRUE /\ HasMutex(p, t, i + 1) = TRUE
      BY <2>2, <2>4, <2>8
    <3>3. 10 \in Int /\ "tank" \in CountsIn(p)
      BY <1>1
    <3> QED BY <2>1, <2>3, <2>5, <2>8, <3>1, <3>2, <3>3, StoreObeys
  <2>9. CASE j = 4
    BY <2>2, <2>3, <2>4, <2>5, <2>9, UnlockObeys
  <2>10. CASE j = 0
    BY <2>2, <2>3, <2>4, <2>5, <2>10, SignalObeys
  <2> QED BY <2>1, <2>6, <2>7, <2>8, <2>9, <2>10
<1>4. /\ ~ HasMutex(p, t, 0) /\ ~ HasMutex(p, t, 1)
      /\ Added(p, "tank", t, 0) = 0 /\ Added(p, "tank", t, 1) = 0
  <2>1. /\ 0 \in Nat /\ 1 \in Nat /\ 0 + 1 = 1 /\ 1 + 1 = 2
        /\ 0 % 5 = 0 /\ 1 % 5 = 1 /\ 1 \div 5 = 0 /\ 2 \div 5 = 0
    BY Fifths
  <2> QED BY <1>2, <2>1
<1>5. \A i \in Nat : Added(p, "tank", t, i) \in Int
  BY <1>2, Fifths
<1>6. \A i \in 0 .. 25 + 1 : i \in Nat
  OBVIOUS
<1>7. Len(Code(p, t)) = 25 /\ 25 \in Nat
  BY <1>1, FillingIs
<1> QED BY <1>1, <1>2, <1>3, <1>4, <1>5, <1>6, <1>7 DEF Keeps

(* A thread the program does not use.                                      *)
LEMMA IdleKeeps ==
    ASSUME Labs!ProgramParameters, NEW p \in Counting,
           NEW t \in LabThreads \ {LabMain, T1, T2}
    PROVE  Keeps(p, t) /\ Len(Code(p, t)) = 0
<1>1. Code(p, t) = <<>> /\ Len(<<>>) = 0
  BY CodeIs
<1>2. \A i \in {0, 1} : HasMutex(p, t, i) = FALSE
  BY DEF HasMutex, Counting
<1>3. \A i \in {0, 1} : \A x \in CountsIn(p) : Added(p, x, t, i) = 0
  BY DEF Added, Counting
<1>4. 0 \in Nat /\ (1 .. 0) = {} /\ (0 .. 0 + 1) = {0, 1} /\ 0 \in {0, 1} /\ 1 \in {0, 1}
  OBVIOUS
<1>5. \A i \in {0, 1} : HasMutex(p, t, i) \in BOOLEAN /\ ~ HasMutex(p, t, i)
  BY <1>2
<1>6. \A i \in {0, 1} : \A x \in CountsIn(p) : Added(p, x, t, i) \in Int
  BY <1>3
<1>7. Len(Code(p, t)) = 0
  BY <1>1
<1>8. \A i \in 1 .. 0 : Obeys(p, t, i)
  BY <1>4, Zenon
<1> QED BY <1>3, <1>4, <1>5, <1>6, <1>7, <1>8, Zenon DEF Keeps

LEMMA AllObey ==
    ASSUME Labs!ProgramParameters, NEW p \in Counting
    PROVE  Disciplined(p)
<1>1. ASSUME NEW t \in LabThreads PROVE Keeps(p, t)
  <2>1. CASE t \notin {LabMain, T1, T2}
    BY <2>1, IdleKeeps
  <2>2. CASE t = LabMain
    BY <2>2, MainKeeps, MallocMainKeeps
  <2>3. CASE t \in {T1, T2}
    BY <2>3, RoutineKeeps, SpinKeeps, MallocThreadKeeps, CarKeeps, FillingKeeps DEF Counting
  <2> QED BY <2>1, <2>2, <2>3
<1>2. CountsIn(p) \subseteq Words
  BY DEF CountsIn, Counting, Labs!ProgramParameters
<1>3. ASSUME NEW t \in {T1, T2}
      PROVE  /\ JoinedAt(p, t) \in Nat /\ CreatedAt(t) < JoinedAt(p, t)
             /\ JoinedAt(p, t) <= Len(Code(p, LabMain))
  <2>1. CASE p = "malloc"
    <3>1. Rounds \in Nat /\ Len(Code(p, LabMain)) = 6 * Rounds + 6
      BY <2>1, MallocMainKeeps DEF Labs!ProgramParameters
    <3>2. JoinedAt(p, t) \in {6 * Rounds + 3, 6 * Rounds + 4} /\ CreatedAt(t) \in {1, 2}
      BY <2>1 DEF JoinedAt, CreatedAt
    <3> QED BY <3>1, <3>2
  <2>2. CASE p # "malloc"
    <3>1. Len(Code(p, LabMain)) = 4
      BY <2>2, MainKeeps
    <3>2. JoinedAt(p, t) \in {3, 4} /\ CreatedAt(t) \in {1, 2}
      BY <2>2 DEF JoinedAt, CreatedAt, Counting
    <3> QED BY <3>1, <3>2
  <2> QED BY <2>1, <2>2
<1> QED BY <1>1, <1>2, <1>3 DEF Disciplined, Keeps

-----------------------------------------------------------------------------
(* The beginning, and the end.                                             *)
LEMMA LabStarts ==
    ASSUME Labs!ProgramParameters, Labs!Init, lab \in Counting
    PROVE  LabInv
<1>1. lab # "tasks" /\ Disciplined(lab)
  BY AllObey DEF Counting
<1>2. /\ script = Labs!Scripts[lab]
      /\ pc = [t \in LabThreads |-> IF t = LabMain THEN 1 ELSE 0]
      /\ asleep = [t \in LabThreads |-> LabNone]
      /\ reg = [t \in LabThreads |-> 0] /\ mem = [x \in Words |-> 0]
      /\ owner = [m \in Mutexes |-> LabNone]
  BY <1>1 DEF Labs!Init, Labs!Boot
<1>3. /\ {LabMain, T1, T2} \subseteq LabThreads /\ LabMain \notin {T1, T2}
      /\ LabNone \notin LabThreads /\ "mutex" \in Mutexes
  BY DEF Labs!ProgramParameters
<1>4. /\ \A t \in LabThreads : pc[t] \in {0, 1} /\ (t # LabMain => pc[t] = 0)
      /\ pc[LabMain] = 1
  BY <1>2, <1>3
<1>5. \A t \in LabThreads : Len(Code(lab, t)) \in Nat
  BY <1>1 DEF Disciplined
<1>6. LabTypes
  BY <1>2, <1>4, <1>5 DEF LabTypes
<1>7. Sleeping
  BY <1>2 DEF Sleeping
<1>8. Exclusive
  <2> SUFFICES ASSUME NEW t \in LabThreads
               PROVE  owner["mutex"] # t /\ ~ HasMutex(lab, t, pc[t])
    BY DEF Exclusive
  <2>1. ~ HasMutex(lab, t, 0) /\ ~ HasMutex(lab, t, 1)
    BY <1>1 DEF Disciplined
  <2> QED BY <1>2, <1>3, <1>4, <2>1
<1>9. JustLoaded
  <2> SUFFICES ASSUME NEW t \in LabThreads, Inside(t), Now(t).op = "store" PROVE FALSE
    BY DEF JustLoaded
  <2>1. Obeys(lab, t, pc[t])
    BY <1>1 DEF Disciplined, Inside
  <2>2. pc[t] > 1
    BY <2>1 DEF Obeys, Now
  <2> QED BY <1>4, <2>2
<1>10. Totals
  <2> SUFFICES ASSUME NEW x \in CountsIn(lab)
               PROVE  mem[x] = Added(lab, x, LabMain, pc[LabMain]) + Added(lab, x, T1, pc[T1])
                                  + Added(lab, x, T2, pc[T2])
    BY DEF Totals
  <2>1. x \in Words /\ \A t \in LabThreads : Added(lab, x, t, 0) = 0 /\ Added(lab, x, t, 1) = 0
    BY <1>1 DEF Disciplined
  <2>2. /\ Added(lab, x, LabMain, pc[LabMain]) = 0 /\ Added(lab, x, T1, pc[T1]) = 0
        /\ Added(lab, x, T2, pc[T2]) = 0
    BY <1>3, <1>4, <2>1
  <2> QED BY <1>2, <2>1, <2>2
<1>11. Births
  <2>1. \A t \in {T1, T2} : pc[t] = 0
    BY <1>3, <1>4
  <2>2. \A t \in {T1, T2} : ~ (pc[LabMain] > JoinedAt(lab, t))
    <3>1. \A t \in {T1, T2} : JoinedAt(lab, t) \in Nat /\ CreatedAt(t) < JoinedAt(lab, t)
      BY <1>1 DEF Disciplined
    <3>2. \A t \in {T1, T2} : CreatedAt(t) \in {1, 2}
      BY DEF CreatedAt
    <3>3. \A j, k \in Nat : k \in {1, 2} /\ k < j => ~ (1 > j)
      OBVIOUS
    <3> SUFFICES ASSUME NEW t \in {T1, T2} PROVE ~ (1 > JoinedAt(lab, t))
      BY <1>4
    <3> QED BY <3>1, <3>2, <3>3
  <2>3. \A t \in LabThreads : pc[t] > 0 => t = LabMain
    BY <1>4
  <2>4. \A t \in LabThreads : pc[t] > 0 => t \in {LabMain, T1, T2}
    BY <2>3
  <2>5. \A t \in {T1, T2} :
           /\ pc[LabMain] <= CreatedAt(t) => pc[t] = 0
           /\ pc[LabMain] > JoinedAt(lab, t) => pc[t] = Len(Code(lab, t)) + 1
    BY <2>1, <2>2
  <2> QED BY <2>4, <2>5 DEF Births
<1> QED BY <1>6, <1>7, <1>8, <1>9, <1>10, <1>11 DEF LabInv

(* Once main has ended, every thread has run to its end.                   *)
LEMMA LabEnds ==
    ASSUME Labs!ProgramParameters, LabInv, Labs!Done
    PROVE  \A x \in CountsIn(lab) :
              mem[x] = Added(lab, x, LabMain, Len(Code(lab, LabMain)) + 1)
                          + Added(lab, x, T1, Len(Code(lab, T1)) + 1)
                          + Added(lab, x, T2, Len(Code(lab, T2)) + 1)
<1>1. Disciplined(lab) /\ pc[LabMain] = Len(Code(lab, LabMain)) + 1
  BY AllObey DEF LabInv, LabTypes, Labs!Done, Labs!Ended, Code
<1>2. \A t \in {T1, T2} : pc[LabMain] > JoinedAt(lab, t)
  <2>1. \A t \in {T1, T2} : JoinedAt(lab, t) \in Nat /\ JoinedAt(lab, t) <= Len(Code(lab, LabMain))
    BY <1>1 DEF Disciplined
  <2>2. Len(Code(lab, LabMain)) \in Nat
    BY <1>1 DEF Disciplined, Labs!ProgramParameters
  <2> QED BY <1>1, <2>1, <2>2
<1>3. \A t \in {T1, T2} : pc[t] = Len(Code(lab, t)) + 1
  BY <1>2 DEF LabInv, Births
<1> QED BY <1>1, <1>3 DEF LabInv, Totals

(* Of all increments none is missing.                                      *)
LEMMA SumsExact ==
    ASSUME Labs!ProgramParameters, LabInv, Labs!Done
    PROVE  Labs!CountsExact
<1> DEFINE Total(x) == Added(lab, x, LabMain, Len(Code(lab, LabMain)) + 1)
                          + Added(lab, x, T1, Len(Code(lab, T1)) + 1)
                          + Added(lab, x, T2, Len(Code(lab, T2)) + 1)
<1>1. lab \in Counting /\ Rounds \in Nat /\ LabMain \notin {T1, T2} /\ T1 # T2
  BY DEF LabInv, LabTypes, Labs!ProgramParameters
<1>2. \A x \in CountsIn(lab) : mem[x] = Total(x)
  BY LabEnds
<1>3. CASE lab = "malloc"
  <2>1. /\ Len(Code(lab, LabMain)) + 1 = 6 * Rounds + 7
        /\ Len(Code(lab, T1)) + 1 = 6 * Rounds + 3
        /\ Len(Code(lab, T2)) + 1 = 6 * Rounds + 3
    <3>1. /\ Len(Code(lab, LabMain)) = 6 * Rounds + 6
          /\ Len(Code(lab, T1)) = 6 * Rounds + 2 /\ Len(Code(lab, T2)) = 6 * Rounds + 2
      BY <1>3, MallocMainKeeps, MallocThreadKeeps
    <3> QED BY <1>1, <3>1
  <2>2. /\ Upto((6 * Rounds + 7) - 2, 6 * Rounds) = 6 * Rounds
        /\ Upto(6 * Rounds + 3, 6 * Rounds) = 6 * Rounds
    <3> DEFINE N == 6 * Rounds
    <3>1. N \in Nat
      BY LapsEnd
    <3> HIDE DEF N
    <3>2. (N + 7) - 2 \in Int /\ (N + 7) - 2 >= N /\ N + 3 \in Int /\ N + 3 >= N
      BY <3>1
    <3>3. Upto((N + 7) - 2, N) = N /\ Upto(N + 3, N) = N
      BY <3>1, <3>2, UptoIs
    <3> QED BY <3>3 DEF N
  <2>3. /\ Added(lab, "global", LabMain, 6 * Rounds + 7) = Rounds
        /\ Added(lab, "main_static", LabMain, 6 * Rounds + 7) = Rounds
        /\ Added(lab, "thread_static", LabMain, 6 * Rounds + 7) = 0
    BY <1>1, <1>3, <2>2, LapsEnd DEF Added
  <2>4. \A t \in {T1, T2} :
           /\ Added(lab, "global", t, 6 * Rounds + 3) = Rounds
           /\ Added(lab, "main_static", t, 6 * Rounds + 3) = 0
           /\ Added(lab, "thread_static", t, 6 * Rounds + 3) = Rounds
    BY <1>1, <1>3, <2>2, LapsEnd DEF Added
  <2>5. CountsIn(lab) = {"global", "main_static", "thread_static"}
    BY <1>3 DEF CountsIn
  <2>6. /\ mem["global"] = 3 * Rounds /\ mem["thread_static"] = 2 * Rounds
        /\ mem["main_static"] = Rounds
    BY <1>1, <1>2, <2>1, <2>3, <2>4, <2>5
  <2> QED BY <1>3, <2>6 DEF Labs!CountsExact
<1>4. CASE lab = "spin"
  <2>1. \A t \in {T1, T2} : Added(lab, "global", t, Len(Code(lab, t)) + 1) = Rounds
    <3>1. \A t \in {T1, T2} : Len(Code(lab, t)) = 4 * Rounds + 1
      BY <1>4, SpinKeeps
    <3>2. /\ 4 * Rounds + 1 + 1 > 0 /\ (4 * Rounds + 1 + 1 - 1) \div 4 = Rounds
      BY <1>1
    <3> QED BY <1>4, <3>1, <3>2 DEF Added
  <2>2. Added(lab, "global", LabMain, Len(Code(lab, LabMain)) + 1) = 0
    BY <1>1, <1>4 DEF Added
  <2>3. "global" \in CountsIn(lab)
    BY <1>4 DEF CountsIn
  <2>4. mem["global"] = 2 * Rounds
    BY <1>1, <1>2, <2>1, <2>2, <2>3
  <2> QED BY <1>4, <2>4 DEF Labs!CountsExact
<1>5. CASE lab \in {"second", "ex1"}
  <2> DEFINE k == IF lab = "ex1" THEN 10 ELSE 1
  <2>1. \A t \in {T1, T2} : Added(lab, "global", t, Len(Code(lab, t)) + 1) = k * Rounds
    <3>1. \A t \in {T1, T2} : Len(Code(lab, t)) = 4 * Rounds
      BY <1>5, RoutineKeeps
    <3>2. (4 * Rounds + 1) \div 4 = Rounds
      BY <1>1
    <3>3. \A t \in {T1, T2} : \A i : Added(lab, "global", t, i) = k * (i \div 4)
                                      \/ (lab = "second" /\ Added(lab, "global", t, i) = i \div 4)
      BY <1>5 DEF Added
    <3> QED BY <1>1, <3>1, <3>2, <3>3
  <2>2. Added(lab, "global", LabMain, Len(Code(lab, LabMain)) + 1) = 0
    BY <1>1, <1>5 DEF Added
  <2>3. "global" \in CountsIn(lab)
    BY <1>5 DEF CountsIn
  <2>4. mem["global"] = IF lab = "ex1" THEN 20 * Rounds ELSE 2 * Rounds
    BY <1>1, <1>2, <2>1, <2>2, <2>3
  <2> QED BY <1>5, <2>4 DEF Labs!CountsExact
<1>6. CASE lab = "tank"
  <2>1. Len(Code(lab, T1)) = 5 /\ Len(Code(lab, T2)) = 25
    BY <1>6, CarKeeps, FillingKeeps
  <2>2. /\ Added(lab, "tank", T1, 6) = -50 /\ Added(lab, "tank", T2, 26) = 50
        /\ Added(lab, "tank", LabMain, Len(Code(lab, LabMain)) + 1) = 0
    BY <1>1, <1>6 DEF Added
  <2>3. "tank" \in CountsIn(lab)
    BY <1>6 DEF CountsIn
  <2>4. mem["tank"] = 0
    BY <1>2, <2>1, <2>2, <2>3
  <2> QED BY <1>6, <2>4 DEF Labs!CountsExact
<1> QED BY <1>1, <1>3, <1>4, <1>5, <1>6 DEF Counting

(* What every state of a program that counts under one mutex satisfies.    *)
THEOREM CountingInvariant ==
    ASSUME Labs!ProgramParameters
    PROVE  Labs!Init /\ [][Labs!Next]_(Labs!threadVars) => [](lab \in Counting => LabInv)
<1>1. Labs!Init => (lab \in Counting => LabInv)
  BY LabStarts
<1>2. /\ lab \in Counting => LabInv
      /\ [Labs!Next]_(Labs!threadVars)
      => (lab \in Counting => LabInv)'
  <2> SUFFICES ASSUME lab \in Counting => LabInv, [Labs!Next]_(Labs!threadVars),
                      lab' \in Counting
               PROVE  LabInv'
    OBVIOUS
  <2>1. lab' = lab
    BY DEF Labs!Next, Labs!threadVars
  <2>2. LabInv /\ Disciplined(lab)
    BY <2>1, AllObey
  <2> QED BY <2>2, LabKeeps
<1> QED BY <1>1, <1>2, PTL

(* However the threads interleave, and however many rounds they run: when  *)
(* main has joined them, no increment of a program that counts under one   *)
(* mutex is missing, and each thread's own count is in its own word.       *)
THEOREM IncrementsExact ==
    ASSUME Labs!ProgramParameters
    PROVE  Labs!Init /\ [][Labs!Next]_(Labs!threadVars)
              => [](lab \in Counting => Labs!CountsExact)
<1>1. ASSUME LabInv PROVE Labs!CountsExact
  <2>1. CASE Labs!Done
    BY <1>1, <2>1, SumsExact
  <2>2. CASE ~ Labs!Done
    BY <2>2 DEF Labs!CountsExact
  <2> QED BY <2>1, <2>2
<1>2. (lab \in Counting => LabInv) => (lab \in Counting => Labs!CountsExact)
  BY <1>1
<1> QED BY CountingInvariant, <1>2, PTL
=============================================================================
