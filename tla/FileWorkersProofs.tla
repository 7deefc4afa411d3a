------------------------- MODULE FileWorkersProofs --------------------------
(***************************************************************************)
(* Proofs about FileWorkers for every command file, up to the moment, if   *)
(* it comes, when the list of files overruns its array.  Four invariants   *)
(* that do not need each other: one of the semaphore around the command    *)
(* file, one of the semaphore and the pipe to the child, one of the count  *)
(* of running tasks, and one of the list of files. The last one rests on   *)
(* the list only growing, so that the first entry of a name stays the      *)
(* first whatever is appended behind it.  A fifth, on top of them, bounds  *)
(* the list by what the lines read so far may add, and shows which files   *)
(* cannot bring it to its end.                                             *)
(***************************************************************************)
EXTENDS FileWorkers, CountingLemmas

(* The operands of a line: as many to add as to take, and the same ones.   *)
LEMMA Operands ==
    ASSUME NEW n \in 1 .. line_counter
    PROVE  /\ Takes(Lines[n]) \in Seq(Files) /\ Adds(Lines[n]) \in Seq(Files)
           /\ Len(Takes(Lines[n])) \in 1 .. 2
           /\ Len(Adds(Lines[n])) = Len(Takes(Lines[n]))
           /\ \A k \in 1 .. Len(Takes(Lines[n])) :
                 /\ Takes(Lines[n])[k] \in Files /\ Adds(Lines[n])[k] \in Files
                 /\ \E m \in 1 .. Len(Takes(Lines[n])) :
                       Takes(Lines[n])[k] = Adds(Lines[n])[m]
<1>1. Lines[n] \in
        [op : {"generate", "checksum"}, file1 : Files, file2 : Files]
  BY LinesAssumption, ElementOfSeq DEF line_counter
<1>2. CASE Lines[n].op = "generate"
  BY <1>1, <1>2 DEF Takes, Adds
<1>3. CASE Lines[n].op # "generate"
  <2>1. /\ Takes(Lines[n]) = <<Lines[n].file1, Lines[n].file2>>
        /\ Adds(Lines[n]) = <<Lines[n].file2, Lines[n].file1>>
    BY <1>3 DEF Takes, Adds
  <2>2. Lines[n].file1 \in Files /\ Lines[n].file2 \in Files
    BY <1>1
  <2>3. \A k \in 1 .. 2 : k = 1 \/ k = 2
    OBVIOUS
  <2> QED BY <2>1, <2>2, <2>3
<1> QED BY <1>2, <1>3

(* There is one thread per line.                                           *)
LEMMA ThreadsFinite ==
    /\ line_counter \in Nat
    /\ IsFiniteSet(Threads) /\ Cardinality(Threads) = line_counter
BY LinesAssumption, IntervalSize DEF line_counter, Threads

(* The threads at some places, and how a step of one thread changes their  *)
(* number.                                                                 *)
At(P) == {t \in Threads : pc[t] \in P}

LEMMA AtMoved ==
    ASSUME pc \in [Threads -> PCs], NEW t \in Threads, NEW to \in PCs, NEW P,
           pc' = [pc EXCEPT ![t] = to]
    PROVE  /\ Cardinality(At(P)) \in Nat /\ Cardinality(At(P)') \in Nat
           /\ Cardinality(At(P)') = Cardinality(At(P))
                + (IF to \in P THEN 1 ELSE 0) - (IF pc[t] \in P THEN 1 ELSE 0)
<1>1. /\ t \in At(P)' <=> to \in P
      /\ t \in At(P) <=> pc[t] \in P
      /\ At(P) \in SUBSET Threads /\ At(P)' \in SUBSET Threads
      /\ \A u \in Threads : u # t => (u \in At(P) <=> u \in At(P)')
  BY DEF At
<1> HIDE DEF At
<1>2. /\ Cardinality(At(P)) \in Nat /\ Cardinality(At(P)') \in Nat
      /\ Cardinality(At(P)') = Cardinality(At(P))
            + (IF t \in At(P)' THEN 1 ELSE 0) - (IF t \in At(P) THEN 1 ELSE 0)
  BY <1>1, ThreadsFinite, MovedSize
<1> QED BY <1>1, <1>2

-----------------------------------------------------------------------------
(* The semaphore around the command file: its holder is the only thread    *)
(* that has read and not counted yet, and until then position and count    *)
(* differ by that line.                                                    *)
Fetching == {"read", "count"}
Working  == PCs \ {"barrier", "arrived", "fetch", "read", "done"}

FetchInv ==
    /\ pc \in [Threads -> PCs]
    /\ sem \in 0 .. 1 /\ citit \in Nat
    /\ filepos \in 0 .. line_counter
    /\ line \in [Threads -> 0 .. line_counter]
    /\ \A t \in Threads : pc[t] \in Working => line[t] \in 1 .. line_counter
    /\ \A t \in Threads : pc[t] \in Fetching => sem = 0
    /\ \A t, u \in Threads : pc[t] \in Fetching /\ pc[u] \in Fetching => t = u
    /\ \A t \in Threads : pc[t] = "count" => filepos = citit + 1
    /\ (\A t \in Threads : pc[t] # "count") => filepos = citit

(* Every step that does not touch the command file: one thread moves       *)
(* between places outside the critical section.                            *)
Moves(t) ==
    /\ UNCHANGED fileVars
    /\ \E to \in PCs \ Fetching :
          /\ pc[t] \notin Fetching
          /\ pc' = [pc EXCEPT ![t] = to]
          /\ to \in Working => pc[t] \in Working

(* A step is one of the four on the command file or leaves it alone.       *)
LEMMA StepsOnTheFile ==
    ASSUME pc \in [Threads -> PCs], NEW t \in Threads, ThreadStep(t)
    PROVE  \/ FetchWait(t) \/ AllRead(t) \/ ReadLine(t) \/ CountLine(t)
           \/ Moves(t)
<1> USE DEF Goto, Moves, Fetching, Working, PCs
<1>1. CASE Barrier(t)
  BY <1>1 DEF Barrier
<1>2. CASE StartWait(t) \/ StopWait(t)
  BY <1>2 DEF StartWait, StopWait, SendWait
<1>3. CASE StartWrite(t) \/ StopWrite(t)
  BY <1>3 DEF StartWrite, StopWrite, SendWrite
<1>4. CASE VerifyPresent(t) \/ VerifyAbsent(t) \/ AppendFile(t)
  BY <1>4 DEF VerifyPresent, VerifyAbsent, AppendFile, NextAdd
<1>5. CASE TaskUp(t) \/ LookUp(t) \/ Take(t)
  BY <1>5 DEF TaskUp, LookUp, Take
<1>6. CASE Release(t) \/ TaskDown(t) \/ PassBarrier(t)
  BY <1>6 DEF Release, TaskDown, PassBarrier
<1> QED BY <1>1, <1>2, <1>3, <1>4, <1>5, <1>6 DEF ThreadStep

(* Every step keeps the invariant of the command file.                     *)
LEMMA NextKeepsFetchInv == FetchInv /\ [Next]_vars => FetchInv'
<1> SUFFICES ASSUME FetchInv, [Next]_vars PROVE FetchInv'
  OBVIOUS
<1> USE ThreadsFinite DEF FetchInv, Fetching, Working, PCs, Goto
<1>1. ASSUME NEW t \in Threads, FetchWait(t) PROVE FetchInv'
  BY <1>1 DEF FetchWait
<1>2. ASSUME NEW t \in Threads, AllRead(t) PROVE FetchInv'
  BY <1>2 DEF AllRead
<1>3. ASSUME NEW t \in Threads, ReadLine(t) PROVE FetchInv'
  BY <1>3 DEF ReadLine
<1>4. ASSUME NEW t \in Threads, CountLine(t) PROVE FetchInv'
  BY <1>4 DEF CountLine
<1>5. ASSUME NEW t \in Threads, Moves(t) PROVE FetchInv'
  BY <1>5 DEF Moves, fileVars
<1>6. CASE ChildStep \/ UNCHANGED working
  BY <1>6 DEF ChildStep, ChildPoll, ChildRead, ChildPost, working, fileVars
<1> QED BY <1>1, <1>2, <1>3, <1>4, <1>5, <1>6, StepsOnTheFile DEF Next, ThreadRuns, ChildRuns,
         CreateThreads, Overrun, vars

(* The threads of server.c take the lines of the command file one by one.  *)
THEOREM FetchInvariant == Spec => []FetchInv
<1>1. ASSUME Init PROVE FetchInv
  <2>1. pc \in [Threads -> PCs] /\ \A t \in Threads : pc[t] = "barrier"
    BY <1>1 DEF Init, PCs
  <2>2. /\ sem \in 0 .. 1 /\ citit \in Nat
        /\ filepos \in 0 .. line_counter /\ filepos = citit
        /\ line \in [Threads -> 0 .. line_counter]
    BY <1>1, ThreadsFinite DEF Init
  <2>3. \A t \in Threads : /\ pc[t] \notin Working /\ pc[t] \notin Fetching
                            /\ pc[t] # "count"
    BY <2>1 DEF Working, Fetching
  <2> QED BY <2>1, <2>2, <2>3 DEF FetchInv
<1> QED BY <1>1, NextKeepsFetchInv, PTL DEF Spec

(* A thread that has seen lines left gets one.                             *)
THEOREM NobodyReadsNull == Spec => []NoNullRead
<1>1. ASSUME FetchInv, NEW t \in Threads, pc[t] = "read",
             citit # line_counter
      PROVE  filepos < line_counter
  <2>1. \A u \in Threads : pc[u] # "count"
    BY <1>1 DEF FetchInv, Fetching
  <2> QED BY <1>1, <2>1, ThreadsFinite DEF FetchInv
<1>2. FetchInv => NoNullRead
  BY <1>1 DEF NoNullRead
<1> QED BY <1>2, FetchInvariant, PTL

-----------------------------------------------------------------------------
(* The semaphore of the pipe counts down once per message: the one unit is *)
(* in the semaphore, with a thread about to write, in the pipe or with the *)
(* child about to give it back.                                            *)
Writers == {t \in Threads : pc[t] \in {"start_write", "stop_write"}}

PipeInv ==
    /\ pc \in [Threads -> PCs]
    /\ sem_pipe \in Nat
    /\ pipe \in Seq(Threads \X {"START", "STOP"})
    /\ child \in {"poll", "read", "post"}
    /\ OneMessage

(* How a step of one thread changes the number of those about to write.    *)
LEMMA WritersMoved ==
    ASSUME pc \in [Threads -> PCs], NEW t \in Threads, NEW to \in PCs,
           pc' = [pc EXCEPT ![t] = to]
    PROVE  /\ Cardinality(Writers) \in Nat /\ Cardinality(Writers') \in Nat
           /\ Cardinality(Writers') = Cardinality(Writers)
                + (IF to \in {"start_write", "stop_write"} THEN 1 ELSE 0)
                - (IF pc[t] \in {"start_write", "stop_write"} THEN 1 ELSE 0)
<1> DEFINE P == {"start_write", "stop_write"}
<1>1. Writers = At(P) /\ Writers' = At(P)'
  BY DEF Writers, At
<1> HIDE DEF P
<1>2. /\ Cardinality(At(P)) \in Nat /\ Cardinality(At(P)') \in Nat
      /\ Cardinality(At(P)') = Cardinality(At(P))
           + (IF to \in P THEN 1 ELSE 0) - (IF pc[t] \in P THEN 1 ELSE 0)
  BY AtMoved, Zenon
<1> QED BY <1>1, <1>2 DEF P

(* A step of a thread away from the pipe.                                  *)
PassesPipe(t) ==
    /\ UNCHANGED pipeVars
    /\ pc[t] \notin {"start_write", "stop_write"}
    /\ \E to \in PCs \ {"start_write", "stop_write"} :
          pc' = [pc EXCEPT ![t] = to]

(* The steps of a thread on the pipe, and the others.                      *)
LEMMA StepsOnThePipe ==
    ASSUME pc \in [Threads -> PCs], NEW t \in Threads, ThreadStep(t)
    PROVE  \/ StartWait(t) \/ StartWrite(t) \/ StopWait(t) \/ StopWrite(t)
           \/ PassesPipe(t)
<1> USE DEF Goto, PassesPipe, PCs
<1>1. CASE Barrier(t) \/ PassBarrier(t)
  BY <1>1 DEF Barrier, PassBarrier
<1>2. CASE FetchWait(t) \/ AllRead(t)
  BY <1>2 DEF FetchWait, AllRead
<1>3. CASE ReadLine(t) \/ CountLine(t)
  BY <1>3 DEF ReadLine, CountLine
<1>4. CASE VerifyPresent(t) \/ VerifyAbsent(t) \/ AppendFile(t)
  BY <1>4 DEF VerifyPresent, VerifyAbsent, AppendFile, NextAdd
<1>5. CASE TaskUp(t) \/ LookUp(t) \/ Take(t)
  BY <1>5 DEF TaskUp, LookUp, Take
<1>6. CASE Release(t) \/ TaskDown(t)
  BY <1>6 DEF Release, TaskDown
<1> QED BY <1>1, <1>2, <1>3, <1>4, <1>5, <1>6 DEF ThreadStep

(* Every step keeps the invariant of the pipe.                             *)
LEMMA NextKeepsPipeInv == PipeInv /\ [Next]_vars => PipeInv'
<1> SUFFICES ASSUME PipeInv, [Next]_vars PROVE PipeInv'
  OBVIOUS
<1>1. /\ Cardinality(Writers) \in Nat
      /\ Len(pipe) \in Nat /\ sem_pipe \in Nat
      /\ Len(pipe) + sem_pipe + (IF child = "post" THEN 1 ELSE 0)
            + Cardinality(Writers) = 1
  <2>1. Writers \subseteq Threads
    BY DEF Writers
  <2>2. Cardinality(Writers) \in Nat
    BY <2>1, ThreadsFinite, FS_Subset, FS_CardinalityType
  <2> QED BY <2>2, LenProperties DEF PipeInv, OneMessage, Writers
<1>2. ASSUME NEW t \in Threads, NEW to \in PCs, SendWait(t, pc[t], to),
             pc[t] \notin {"start_write", "stop_write"},
             to \in {"start_write", "stop_write"}
      PROVE  PipeInv'
  <2>1. /\ pc' = [pc EXCEPT ![t] = to] /\ pc' \in [Threads -> PCs]
        /\ sem_pipe > 0 /\ sem_pipe' = sem_pipe - 1
        /\ pipe' = pipe /\ child' = child
    BY <1>2 DEF SendWait, Goto, PipeInv
  <2>2. Cardinality(Writers') = Cardinality(Writers) + 1
    <3>1. /\ Cardinality(Writers) \in Nat /\ Cardinality(Writers') \in Nat
          /\ Cardinality(Writers') = Cardinality(Writers)
               + (IF to \in {"start_write", "stop_write"} THEN 1 ELSE 0)
               - (IF pc[t] \in {"start_write", "stop_write"} THEN 1 ELSE 0)
      BY <2>1, WritersMoved, Zenon DEF PipeInv
    <3> QED BY <1>2, <2>1, <3>1
  <2> QED BY <1>1, <2>1, <2>2 DEF PipeInv, OneMessage, Writers
<1>3. ASSUME NEW t \in Threads, NEW to \in PCs, NEW kind \in {"START", "STOP"},
             SendWrite(t, pc[t], to, kind),
             pc[t] \in {"start_write", "stop_write"},
             to \notin {"start_write", "stop_write"}
      PROVE  PipeInv'
  <2>1. /\ pc' = [pc EXCEPT ![t] = to] /\ pc' \in [Threads -> PCs]
        /\ sem_pipe' = sem_pipe /\ child' = child
        /\ pipe' = Append(pipe, <<t, kind>>)
    BY <1>3 DEF SendWrite, Goto, PipeInv
  <2>2. /\ pipe' \in Seq(Threads \X {"START", "STOP"})
        /\ Len(pipe') = Len(pipe) + 1
    BY <2>1, AppendProperties DEF PipeInv
  <2>3. Cardinality(Writers') = Cardinality(Writers) - 1
    <3>1. /\ Cardinality(Writers) \in Nat /\ Cardinality(Writers') \in Nat
          /\ Cardinality(Writers') = Cardinality(Writers)
               + (IF to \in {"start_write", "stop_write"} THEN 1 ELSE 0)
               - (IF pc[t] \in {"start_write", "stop_write"} THEN 1 ELSE 0)
      BY <2>1, WritersMoved, Zenon DEF PipeInv
    <3> QED BY <1>3, <2>1, <3>1
  <2> QED BY <1>1, <2>1, <2>2, <2>3 DEF PipeInv, OneMessage, Writers
<1>4. ASSUME NEW t \in Threads, PassesPipe(t) PROVE PipeInv'
  <2>1. PICK to \in PCs \ {"start_write", "stop_write"} :
              pc' = [pc EXCEPT ![t] = to]
    BY <1>4 DEF PassesPipe
  <2>2. Cardinality(Writers') = Cardinality(Writers)
    <3>1. /\ Cardinality(Writers) \in Nat /\ Cardinality(Writers') \in Nat
          /\ Cardinality(Writers') = Cardinality(Writers)
               + (IF to \in {"start_write", "stop_write"} THEN 1 ELSE 0)
               - (IF pc[t] \in {"start_write", "stop_write"} THEN 1 ELSE 0)
      BY <2>1, WritersMoved, Zenon DEF PipeInv
    <3> QED BY <1>4, <2>1, <3>1 DEF PassesPipe
  <2>3. /\ sem_pipe' = sem_pipe /\ pipe' = pipe /\ child' = child
        /\ pc' \in [Threads -> PCs]
    BY <1>4, <2>1 DEF PassesPipe, pipeVars, PipeInv
  <2> QED BY <1>1, <2>2, <2>3 DEF PipeInv, OneMessage, Writers
<1>5. CASE ChildPoll \/ UNCHANGED working
  BY <1>5 DEF ChildPoll, working, PipeInv, OneMessage
<1>6. CASE ChildRead
  <2>1. /\ pipe' = <<>> /\ child = "read" /\ child' = "post" /\ pc' = pc
        /\ sem_pipe' = sem_pipe
    BY <1>6 DEF ChildRead
  <2>2. Len(pipe) # 0 /\ Len(pipe') = 0 /\ Writers' = Writers
        /\ pipe' \in Seq(Threads \X {"START", "STOP"})
    BY <1>6, <2>1, EmptySeq DEF ChildRead, PipeInv, Writers
  <2> QED BY <1>1, <2>1, <2>2 DEF PipeInv, OneMessage, Writers
<1>7. CASE ChildPost
  <2>1. /\ pipe' = pipe /\ child = "post" /\ child' = "poll" /\ pc' = pc
        /\ sem_pipe' = sem_pipe + 1 /\ Writers' = Writers
    BY <1>7 DEF ChildPost, Writers
  <2> QED BY <1>1, <2>1 DEF PipeInv, OneMessage, Writers
<1>8. ASSUME NEW t \in Threads, ThreadStep(t) PROVE PipeInv'
  <2>1. CASE StartWait(t) \/ StopWait(t)
    BY <1>2, <2>1 DEF StartWait, StopWait, SendWait, Goto, PCs
  <2>2. CASE StartWrite(t) \/ StopWrite(t)
    BY <1>3, <2>2 DEF StartWrite, StopWrite, SendWrite, Goto, PCs
  <2> QED BY <1>4, <1>8, <2>1, <2>2, StepsOnThePipe DEF PipeInv
<1> QED BY <1>5, <1>6, <1>7, <1>8 DEF Next, ThreadRuns, ChildRuns, CreateThreads, Overrun, vars, ChildStep

(* The child process and the threads keep the pipe's protocol.             *)
THEOREM PipeInvariant == Spec => []PipeInv
<1>1. ASSUME Init PROVE PipeInv
  <2>1. pc \in [Threads -> PCs] /\ Writers = {}
    BY <1>1 DEF Init, PCs, Writers
  <2>2. /\ pipe \in Seq(Threads \X {"START", "STOP"}) /\ Len(pipe) = 0
        /\ sem_pipe = 1 /\ child = "poll"
    BY <1>1, EmptySeq DEF Init
  <2> QED BY <2>1, <2>2, FS_EmptySet DEF PipeInv, OneMessage, Writers
<1> QED BY <1>1, NextKeepsPipeInv, PTL DEF Spec

(* Lines and messages are taken one at a time.                             *)
THEOREM MessagesOneByOne == Spec => []OneAtATime
<1>1. PipeInv /\ NoNullRead => OneAtATime
  BY DEF PipeInv, OneAtATime
<1> QED BY <1>1, PipeInvariant, NobodyReadsNull, PTL

-----------------------------------------------------------------------------
(* The counter of running tasks counts the threads between its two steps,  *)
(* so it never passes the number of threads.                               *)
InTask == {"look", "take", "use", "task_down"}

TasksInv == pc \in [Threads -> PCs] /\ current_tasks = Cardinality(At(InTask))

(* A step of a thread that leaves the counter alone stays inside or outside.*)
KeepsTasks(t) ==
    /\ UNCHANGED current_tasks
    /\ \E to \in PCs : /\ pc' = [pc EXCEPT ![t] = to]
                       /\ to \in InTask <=> pc[t] \in InTask

(* Two steps move the counter.                                             *)
LEMMA StepsOnTheTasks ==
    ASSUME pc \in [Threads -> PCs], NEW t \in Threads, ThreadStep(t)
    PROVE  TaskUp(t) \/ TaskDown(t) \/ KeepsTasks(t)
<1> USE DEF Goto, KeepsTasks, InTask, PCs
<1>1. CASE Barrier(t) \/ PassBarrier(t)
  BY <1>1 DEF Barrier, PassBarrier
<1>2. CASE FetchWait(t) \/ AllRead(t)
  BY <1>2 DEF FetchWait, AllRead
<1>3. CASE ReadLine(t) \/ CountLine(t)
  BY <1>3 DEF ReadLine, CountLine
<1>4. CASE StartWait(t) \/ StopWait(t)
  BY <1>4 DEF StartWait, StopWait, SendWait
<1>5. CASE StartWrite(t) \/ StopWrite(t)
  BY <1>5 DEF StartWrite, StopWrite, SendWrite
<1>6. CASE VerifyPresent(t) \/ VerifyAbsent(t) \/ AppendFile(t)
  BY <1>6 DEF VerifyPresent, VerifyAbsent, AppendFile, NextAdd
<1>7. CASE LookUp(t) \/ Take(t) \/ Release(t)
  BY <1>7 DEF LookUp, Take, Release
<1> QED BY <1>1, <1>2, <1>3, <1>4, <1>5, <1>6, <1>7 DEF ThreadStep

(* Every step keeps the counter equal to the number of running tasks.      *)
LEMMA NextKeepsTasksInv == TasksInv /\ [Next]_vars => TasksInv'
<1> SUFFICES ASSUME TasksInv, [Next]_vars PROVE TasksInv'
  OBVIOUS
<1>1. ASSUME NEW t \in Threads, ThreadStep(t) PROVE TasksInv'
  <2>1. PICK to \in PCs, d \in {-1, 0, 1} :
          /\ pc' = [pc EXCEPT ![t] = to]
          /\ current_tasks' = current_tasks + d
          /\ d = (IF to \in InTask THEN 1 ELSE 0)
                 - (IF pc[t] \in InTask THEN 1 ELSE 0)
    <3>0. current_tasks \in Nat
      BY ThreadsFinite, FS_Subset, FS_CardinalityType DEF TasksInv, At
    <3>1. CASE TaskUp(t)
      BY <3>0, <3>1 DEF TaskUp, Goto, InTask, PCs
    <3>2. CASE TaskDown(t)
      BY <3>0, <3>2 DEF TaskDown, Goto, InTask, PCs
    <3>3. CASE KeepsTasks(t)
      <4>1. PICK to \in PCs : /\ pc' = [pc EXCEPT ![t] = to]
                              /\ to \in InTask <=> pc[t] \in InTask
        BY <3>3 DEF KeepsTasks
      <4>2. current_tasks' = current_tasks + 0
        BY <3>0, <3>3 DEF KeepsTasks
      <4>3. 0 = (IF to \in InTask THEN 1 ELSE 0)
                  - (IF pc[t] \in InTask THEN 1 ELSE 0)
        BY <4>1
      <4> WITNESS to \in PCs, 0 \in {-1, 0, 1}
      <4> QED BY <4>1, <4>2, <4>3
    <3> QED BY <1>1, <3>1, <3>2, <3>3, StepsOnTheTasks DEF TasksInv
  <2>2. /\ Cardinality(At(InTask)) \in Nat /\ Cardinality(At(InTask)') \in Nat
        /\ Cardinality(At(InTask)') = Cardinality(At(InTask))
             + (IF to \in InTask THEN 1 ELSE 0)
             - (IF pc[t] \in InTask THEN 1 ELSE 0)
    BY <2>1, AtMoved, Zenon DEF TasksInv
  <2>3. pc' \in [Threads -> PCs]
    BY <2>1 DEF TasksInv
  <2>4. current_tasks' = Cardinality(At(InTask)')
    BY <2>1, <2>2 DEF TasksInv
  <2> QED BY <2>3, <2>4 DEF TasksInv, At, InTask
<1>2. CASE ChildStep \/ UNCHANGED working
  BY <1>2 DEF ChildStep, ChildPoll, ChildRead, ChildPost, working, TasksInv, At
<1> QED BY <1>1, <1>2 DEF Next, ThreadRuns, ChildRuns,
         CreateThreads, Overrun, vars

(* The counter of running tasks is exact.                                  *)
THEOREM TasksInvariant == Spec => []TasksInv
<1>1. ASSUME Init PROVE TasksInv
  <2>1. pc \in [Threads -> PCs] /\ At(InTask) = {} /\ current_tasks = 0
    BY <1>1 DEF Init, PCs, At, InTask
  <2> QED BY <2>1, FS_EmptySet DEF TasksInv
<1> QED BY <1>1, NextKeepsTasksInv, PTL DEF Spec

-----------------------------------------------------------------------------
(* The list of files.  A thread that has put its operands in the list can  *)
(* count on them; the index it looked up is the first of its name, and so  *)
(* is every index it holds.                                                *)
Indices   == 1 .. Len(files_list)
Name(i)   == files_list[i].filename
Listed(f) == \E i \in Indices : Name(i) = f
First(i)  == /\ i \in Indices
             /\ \A j \in Indices : Name(j) = Name(i) => i <= j
Want(t)   == Takes(Lines[line[t]])
Upto(t, n) == {Want(t)[k] : k \in 1 .. n}

StepOK(t) ==
    /\ step[t] \in 1 .. 2
    /\ pc[t] \in {"verify", "append", "look", "take"} =>
          step[t] <= Len(Want(t))
    /\ pc[t] = "task_up" => step[t] = 1

ListedOK(t) ==
    /\ pc[t] \in {"verify", "append"} =>
          \A k \in 1 .. step[t] - 1 : Listed(Adds(Lines[line[t]])[k])
    /\ pc[t] \in {"task_up", "look", "take"} =>
          \A k \in 1 .. Len(Want(t)) : Listed(Want(t)[k])

LookOK(t) ==
    /\ look[t] \in 0 .. Len(files_list)
    /\ pc[t] = "take" => First(look[t]) /\ Name(look[t]) = ThisTake(t)

HeldOK(t) ==
    /\ \A i \in held[t] : First(i) /\ files_list[i].use_flag = 1
    /\ pc[t] \notin {"look", "take", "use"} => held[t] = {}
    /\ pc[t] \in {"look", "take"} => HeldFiles(t) = Upto(t, step[t] - 1)
    /\ pc[t] = "use" => HeldFiles(t) = Upto(t, Len(Want(t)))

FilesOf(t) == StepOK(t) /\ ListedOK(t) /\ LookOK(t) /\ HeldOK(t)

Shapes ==
    /\ files_list \in Seq([use_flag : 0 .. 1, filename : Files])
    /\ step \in [Threads -> 1 .. 2]
    /\ held \in [Threads -> SUBSET Nat]
    /\ look \in [Threads -> Nat]

FilesInv ==
    /\ Shapes
    /\ \A t \in Threads : FilesOf(t)
    /\ \A t, u \in Threads : t # u => held[t] \cap held[u] = {}

(* A name that is listed after the step.                                   *)
ListedNext(f) == \E i \in 1 .. Len(files_list') : files_list'[i].filename = f

(* The list only grows and names stay where they are.                      *)
Grows == /\ Len(files_list') \in Nat /\ Len(files_list) <= Len(files_list')
         /\ \A i \in Indices : files_list'[i].filename = files_list[i].filename

(* What is listed stays listed, and the first of a name stays the first.   *)
LEMMA FirstStays ==
    ASSUME Shapes, Grows
    PROVE  /\ \A i \in Indices : i \in Indices' /\ Name(i)' = Name(i)
           /\ \A i : First(i) => First(i)'
           /\ \A f : Listed(f) => Listed(f)'
<1>1. Len(files_list) \in Nat
  BY LenProperties DEF Shapes
<1>2. \A i \in Indices : i \in Indices' /\ Name(i)' = Name(i)
  BY <1>1 DEF Grows, Indices, Name
<1>3. \A i \in Indices, j \in Indices' : j \in Indices \/ i <= j
  BY <1>1 DEF Grows, Indices
<1> HIDE DEF Indices, Name
<1>4. ASSUME NEW i, First(i) PROVE First(i)'
  BY <1>2, <1>3, <1>4 DEF First
<1>5. ASSUME NEW f, Listed(f) PROVE Listed(f)'
  BY <1>2, <1>5 DEF Listed
<1> QED BY <1>2, <1>4, <1>5

(* A step of another thread that lets the list grow and keeps the flags of *)
(* a thread's files keeps all that thread relies on.                       *)
LEMMA OthersKeepFiles ==
    ASSUME Shapes, Grows, NEW u \in Threads, FilesOf(u),
           /\ pc'[u] = pc[u] /\ step'[u] = step[u] /\ line'[u] = line[u]
           /\ held'[u] = held[u] /\ look'[u] = look[u],
           \A i \in held[u] : files_list'[i].use_flag = files_list[i].use_flag
    PROVE  FilesOf(u)'
<1>1. /\ Want(u)' = Want(u) /\ ThisTake(u)' = ThisTake(u)
      /\ \A n : Upto(u, n)' = Upto(u, n)
  BY DEF Want, ThisTake, Upto
<1>2. /\ \A i \in Indices : i \in Indices' /\ Name(i)' = Name(i)
      /\ \A i : First(i) => First(i)'
      /\ \A f : Listed(f) => Listed(f)'
  BY FirstStays
<1>3. StepOK(u)'
  BY <1>1 DEF FilesOf, StepOK
<1>4. ListedOK(u)'
  BY <1>1, <1>2 DEF FilesOf, ListedOK
<1>5. LookOK(u)'
  <2>1. look'[u] \in 0 .. Len(files_list')
    BY LenProperties DEF FilesOf, LookOK, Shapes, Grows
  <2>2. ASSUME pc[u] = "take"
        PROVE  First(look[u])' /\ Name(look[u])' = ThisTake(u)
    BY <1>2, <2>2 DEF FilesOf, LookOK, First
  <2> QED BY <1>1, <2>1, <2>2 DEF LookOK, First, Name, Indices
<1>6. HeldOK(u)'
  <2>1. \A i \in held[u] : First(i) /\ i \in Indices
    BY DEF FilesOf, HeldOK, First
  <2>2. HeldFiles(u)' = HeldFiles(u)
    BY <2>1 DEF HeldFiles, Grows
  <2>3. \A i \in held'[u] : First(i)' /\ files_list'[i].use_flag = 1
    BY <1>2, <2>1 DEF FilesOf, HeldOK
  <2> QED BY <1>1, <2>2, <2>3 DEF FilesOf, HeldOK
<1> QED BY <1>3, <1>4, <1>5, <1>6 DEF FilesOf

(* verify_existency finds the first entry of a name that is listed.        *)
LEMMA FindsFirst ==
    ASSUME Shapes, NEW f
    PROVE  /\ verify_existency(f) # 0 => Listed(f)
           /\ Listed(f) => /\ First(verify_existency(f) + 1)
                           /\ Name(verify_existency(f) + 1) = f
<1>1. IndicesOf(f) \in SUBSET Nat /\ Len(files_list) \in Nat
  BY LenProperties DEF IndicesOf, Shapes
<1>2. IndicesOf(f) = {i \in Indices : Name(i) = f}
  BY DEF IndicesOf, Indices, Name
<1>3. CASE IndicesOf(f) = {}
  BY <1>2, <1>3 DEF verify_existency, Listed
<1>4. CASE IndicesOf(f) # {}
  <2> DEFINE m == Min(IndicesOf(f))
  <2>1. m \in IndicesOf(f) /\ \A y \in IndicesOf(f) : m <= y
    BY <1>1, <1>4, MinIsLeast
  <2>2. verify_existency(f) + 1 = m
    BY <1>1, <1>4, <2>1 DEF verify_existency
  <2> HIDE DEF m
  <2>3. First(m) /\ Name(m) = f
    BY <1>2, <2>1 DEF First
  <2>4. Listed(f)
    BY <1>2, <1>4 DEF Listed
  <2> QED BY <2>2, <2>3, <2>4
<1> QED BY <1>3, <1>4

(* A step that leaves the list and the flags alone and moves one thread,   *)
(* which keeps what that thread relies on.                                 *)
LEMMA QuietStep ==
    ASSUME FilesInv, NEW t \in Threads, UNCHANGED listVars,
           pc' = [pc EXCEPT ![t] = pc'[t]],
           step' = [step EXCEPT ![t] = step'[t]],
           line' = [line EXCEPT ![t] = line'[t]],
           pc \in [Threads -> PCs], line \in [Threads -> 0 .. line_counter],
           step'[t] \in 1 .. 2, FilesOf(t)'
    PROVE  FilesInv'
<1>1. Grows /\ Shapes'
  <2>1. files_list' = files_list /\ held' = held /\ look' = look
        /\ Len(files_list) \in Nat
    BY LenProperties DEF listVars, FilesInv, Shapes
  <2>2. Grows
    BY <2>1 DEF Grows
  <2>3. step' \in [Threads -> 1 .. 2]
    BY DEF FilesInv, Shapes
  <2> QED BY <2>1, <2>2, <2>3 DEF FilesInv, Shapes
<1>2. ASSUME NEW u \in Threads, u # t PROVE FilesOf(u)'
  <2>1. /\ pc'[u] = pc[u] /\ step'[u] = step[u] /\ line'[u] = line[u]
        /\ held'[u] = held[u] /\ look'[u] = look[u]
        /\ \A i \in held[u] : files_list'[i].use_flag = files_list[i].use_flag
    BY <1>2 DEF listVars, FilesInv, Shapes
  <2> QED BY <1>1, <2>1, OthersKeepFiles DEF FilesInv
<1> QED BY <1>1, <1>2 DEF FilesInv, listVars

(* What a thread outside its task relies on: nothing is held.              *)
LEMMA NothingHeld ==
    ASSUME NEW t \in Threads, FilesOf(t),
           pc[t] \notin {"look", "take", "use"}
    PROVE  held[t] = {}
BY DEF FilesOf, HeldOK

(* The line a thread works on has one or two operands.                     *)
LEMMA Wanted ==
    ASSUME FetchInv, NEW t \in Threads, pc[t] \in Working
    PROVE  /\ Len(Want(t)) \in 1 .. 2 /\ DOMAIN Want(t) = 1 .. Len(Want(t))
           /\ \A k \in 1 .. Len(Want(t)) :
                 /\ Want(t)[k] \in Files
                 /\ Adds(Lines[line[t]])[k] \in Files
                 /\ \E m \in 1 .. Len(Want(t)) :
                       Want(t)[k] = Adds(Lines[line[t]])[m]
<1>1. line[t] \in 1 .. line_counter
  BY DEF FetchInv
<1> QED BY <1>1, Operands, LenProperties DEF Want

(* A step to a place where the thread neither needs nor holds a file.      *)
LEMMA OutsideStep ==
    ASSUME FilesInv, NEW t \in Threads, UNCHANGED <<listVars, step>>,
           pc \in [Threads -> PCs], line \in [Threads -> 0 .. line_counter],
           pc' = [pc EXCEPT ![t] = pc'[t]],
           line' = [line EXCEPT ![t] = line'[t]],
           pc[t] \notin {"look", "take", "use"},
           pc'[t] \notin {"verify", "append", "task_up", "look", "take", "use"}
    PROVE  FilesInv'
<1>1. FilesOf(t) /\ held[t] = {} /\ step[t] \in 1 .. 2
      /\ look[t] \in 0 .. Len(files_list)
  BY NothingHeld DEF FilesInv, FilesOf, StepOK, LookOK
<1>2. StepOK(t)' /\ ListedOK(t)' /\ LookOK(t)' /\ HeldOK(t)'
  BY <1>1 DEF StepOK, ListedOK, LookOK, HeldOK, listVars
<1>3. step' = [step EXCEPT ![t] = step'[t]] /\ step'[t] \in 1 .. 2
  BY <1>1 DEF FilesInv, Shapes
<1> QED BY <1>2, <1>3, QuietStep DEF FilesOf, listVars

(* The steps of handle_routine, the messages and the end of a task.        *)
LEMMA OutsideKeepsFiles ==
    ASSUME FilesInv, FetchInv, NEW t \in Threads,
           \/ Barrier(t) \/ PassBarrier(t) \/ FetchWait(t) \/ AllRead(t)
           \/ ReadLine(t) \/ CountLine(t) \/ StartWait(t) \/ StopWait(t)
           \/ StopWrite(t) \/ TaskDown(t)
    PROVE  FilesInv'
<1>1. /\ pc \in [Threads -> PCs] /\ line \in [Threads -> 0 .. line_counter]
  BY DEF FetchInv
<1>2. /\ UNCHANGED <<listVars, step>>
      /\ pc' = [pc EXCEPT ![t] = pc'[t]]
      /\ line' = [line EXCEPT ![t] = line'[t]]
      /\ pc[t] \notin {"look", "take", "use"}
      /\ pc'[t] \notin {"verify", "append", "task_up", "look", "take", "use"}
  <2> USE <1>1 DEF Goto, fileVars
  <2>1. CASE Barrier(t) \/ PassBarrier(t)
    BY <2>1 DEF Barrier, PassBarrier
  <2>2. CASE FetchWait(t) \/ AllRead(t)
    BY <2>2 DEF FetchWait, AllRead
  <2>3. CASE ReadLine(t) \/ CountLine(t)
    BY <2>3 DEF ReadLine, CountLine
  <2>4. CASE StartWait(t) \/ StopWait(t)
    BY <2>4 DEF StartWait, StopWait, SendWait
  <2>5. CASE StopWrite(t)
    BY <2>5 DEF StopWrite, SendWrite
  <2>6. CASE TaskDown(t)
    BY <2>6 DEF TaskDown
  <2> QED BY <2>1, <2>2, <2>3, <2>4, <2>5, <2>6
<1> QED BY <1>1, <1>2, OutsideStep

(* START has been written, and the first operand is to be put in the list. *)
LEMMA StartKeepsFiles ==
    ASSUME FilesInv, FetchInv, NEW t \in Threads, StartWrite(t)
    PROVE  FilesInv'
<1>1. /\ pc[t] = "start_write" /\ pc' = [pc EXCEPT ![t] = "verify"]
      /\ step' = [step EXCEPT ![t] = 1] /\ line' = line
      /\ UNCHANGED listVars
      /\ pc \in [Threads -> PCs] /\ line \in [Threads -> 0 .. line_counter]
  BY DEF StartWrite, SendWrite, Goto, fileVars, FetchInv
<1>2. pc'[t] = "verify" /\ step'[t] = 1
  BY <1>1 DEF FilesInv, Shapes
<1>3. Len(Want(t)') \in 1 .. 2
  BY <1>1, Wanted DEF Working, PCs, Want
<1>4. held[t] = {} /\ look[t] \in 0 .. Len(files_list)
  BY <1>1, NothingHeld DEF FilesInv, FilesOf, LookOK
<1>5. StepOK(t)'
  BY <1>2, <1>3 DEF StepOK
<1>6. ListedOK(t)' /\ LookOK(t)' /\ HeldOK(t)'
  BY <1>1, <1>2, <1>4 DEF ListedOK, LookOK, HeldOK, listVars
<1>7. /\ pc' = [pc EXCEPT ![t] = pc'[t]]
      /\ step' = [step EXCEPT ![t] = step'[t]]
      /\ line' = [line EXCEPT ![t] = line'[t]] /\ step'[t] \in 1 .. 2
  <2>1. line' = [line EXCEPT ![t] = line'[t]]
    BY <1>1
  <2>2. pc' = [pc EXCEPT ![t] = pc'[t]]
    BY <1>1, <1>2, Zenon
  <2>3. step' = [step EXCEPT ![t] = step'[t]]
    BY <1>1, <1>2, Zenon
  <2>4. step'[t] \in 1 .. 2
    BY <1>2
  <2> QED BY <2>1, <2>2, <2>3, <2>4
<1>8. FilesOf(t)'
  BY <1>5, <1>6 DEF FilesOf
<1> QED BY <1>1, <1>7, <1>8, QuietStep

(* An operand that is not found goes on to be appended.                    *)
LEMMA AbsentKeepsFiles ==
    ASSUME FilesInv, FetchInv, NEW t \in Threads, VerifyAbsent(t)
    PROVE  FilesInv'
<1>1. /\ pc[t] = "verify" /\ pc' = [pc EXCEPT ![t] = "append"]
      /\ step' = step /\ line' = line /\ UNCHANGED listVars
      /\ pc \in [Threads -> PCs] /\ line \in [Threads -> 0 .. line_counter]
  BY DEF VerifyAbsent, Goto, fileVars, FetchInv
<1>2. pc'[t] = "append" /\ Want(t)' = Want(t) /\ step[t] \in 1 .. 2
  BY <1>1 DEF Want, FilesInv, Shapes
<1>3. \A f : Listed(f)' <=> Listed(f)
  BY <1>1 DEF Listed, Indices, Name, listVars
<1>4. FilesOf(t) /\ held[t] = {}
  BY <1>1, NothingHeld DEF FilesInv
<1>5. StepOK(t)' /\ LookOK(t)' /\ HeldOK(t)'
  BY <1>1, <1>2, <1>4 DEF FilesOf, StepOK, LookOK, HeldOK, listVars
<1>6. ListedOK(t)'
  BY <1>1, <1>2, <1>3, <1>4 DEF FilesOf, ListedOK
<1>7. /\ pc' = [pc EXCEPT ![t] = pc'[t]]
      /\ step' = [step EXCEPT ![t] = step'[t]]
      /\ line' = [line EXCEPT ![t] = line'[t]]
  BY <1>1, <1>2 DEF FilesInv, Shapes
<1> QED BY <1>1, <1>2, <1>5, <1>6, <1>7, QuietStep DEF FilesOf

(* Once the operand at hand is in the list, the thread goes to the next    *)
(* one, and after the last one all it wants is in the list.                *)
LEMMA AddDone ==
    ASSUME FilesInv, FetchInv, NEW t \in Threads,
           NEW from \in {"verify", "append"}, pc[t] = from, NextAdd(t, from),
           Grows, ListedNext(ThisAdd(t)),
           line' = line, held' = held, look' = look,
           ThisAdd(t) = Adds(Lines[line[t]])[step[t]]
    PROVE  FilesOf(t)'
<1> DEFINE A == Adds(Lines[line[t]])
           n == Len(Want(t))
<1>1. /\ n \in 1 .. 2 /\ Want(t)' = Want(t)
      /\ \A k \in 1 .. n : \E m \in 1 .. n : Want(t)[k] = A[m]
  BY Wanted DEF Working, PCs, Want
<1>2. FilesOf(t) /\ held[t] = {}
  BY NothingHeld DEF FilesInv
<1>3. step[t] \in 1 .. n
  <2>1. step[t] \in 1 .. 2 /\ step[t] <= n
    BY <1>2 DEF FilesOf, StepOK
  <2> QED BY <1>1, <2>1
<1>8. \A k \in 1 .. step[t] : ListedNext(A[k])
  <2>1. \A f : Listed(f) => ListedNext(f)
    BY FirstStays DEF FilesInv, Listed, Indices, Name, ListedNext
  <2>2. \A k \in 1 .. step[t] - 1 : Listed(A[k])
    BY <1>2 DEF FilesOf, ListedOK
  <2>3. ListedNext(A[step[t]])
    OBVIOUS
  <2>4. \A k \in 1 .. step[t] : k \in 1 .. step[t] - 1 \/ k = step[t]
    BY <1>1, <1>3
  <2> HIDE DEF A
  <2> QED BY <2>1, <2>2, <2>3, <2>4
<1>9. A' = A /\ \A f : ListedNext(f) <=> Listed(f)'
  BY DEF ListedNext, Listed, Indices, Name
<1>4. look'[t] \in 0 .. Len(files_list') /\ held'[t] = {}
  BY <1>2, LenProperties DEF FilesOf, LookOK, FilesInv, Shapes, Grows
<1>5. /\ pc'[t] = IF step[t] = n THEN "task_up" ELSE "verify"
      /\ step'[t] = IF step[t] = n THEN 1 ELSE step[t] + 1
  BY DEF NextAdd, Goto, LastStep, Want, FetchInv, FilesInv, Shapes
<1>6. StepOK(t)' /\ LookOK(t)' /\ HeldOK(t)'
  BY <1>1, <1>3, <1>4, <1>5 DEF StepOK, LookOK, HeldOK
<1>7. ListedOK(t)'
  <2>1. CASE step[t] = n
    <3>1. \A k \in 1 .. n : ListedNext(Want(t)[k])
      BY <1>1, <1>8, <2>1
    <3> QED BY <1>1, <1>5, <1>9, <2>1, <3>1 DEF ListedOK
  <2>2. CASE step[t] # n
    <3>1. step'[t] - 1 = step[t]
      BY <1>3, <1>5, <2>2
    <3> QED BY <1>5, <1>8, <1>9, <2>2, <3>1 DEF ListedOK
  <2> QED BY <2>1, <2>2
<1> QED BY <1>6, <1>7 DEF FilesOf

(* A step of one thread that lets the list grow, keeps the flags of the    *)
(* others' files and takes none of theirs.                                 *)
LEMMA OneMoves ==
    ASSUME FilesInv, NEW t \in Threads, Grows, Shapes', FilesOf(t)',
           \A u \in Threads : u # t =>
              /\ pc'[u] = pc[u] /\ step'[u] = step[u] /\ line'[u] = line[u]
              /\ held'[u] = held[u] /\ look'[u] = look[u]
              /\ held'[t] \cap held[u] = {}
              /\ \A i \in held[u] :
                    files_list'[i].use_flag = files_list[i].use_flag
    PROVE  FilesInv'
<1>1. ASSUME NEW u \in Threads, u # t PROVE FilesOf(u)'
  BY <1>1, OthersKeepFiles DEF FilesInv
<1>2. ASSUME NEW u \in Threads, NEW v \in Threads, u # v
      PROVE  held'[u] \cap held'[v] = {}
  BY <1>2 DEF FilesInv
<1> QED BY <1>1, <1>2 DEF FilesInv

(* An operand that is found need not be appended.                          *)
LEMMA PresentKeepsFiles ==
    ASSUME FilesInv, FetchInv, NEW t \in Threads, VerifyPresent(t)
    PROVE  FilesInv'
<1>1. /\ pc[t] = "verify" /\ NextAdd(t, "verify")
      /\ UNCHANGED listVars /\ line' = line
      /\ pc \in [Threads -> PCs] /\ line \in [Threads -> 0 .. line_counter]
      /\ verify_existency(ThisAdd(t)) # 0
  BY DEF VerifyPresent, fileVars, FetchInv
<1>2. Listed(ThisAdd(t))
  BY <1>1, FindsFirst DEF FilesInv
<1>3. ListedNext(ThisAdd(t))
  BY <1>1, <1>2 DEF Listed, ListedNext, Indices, Name, listVars
<1>4. Grows /\ held' = held /\ look' = look
  BY <1>1, LenProperties DEF Grows, listVars, FilesInv, Shapes
<1>5. FilesOf(t)'
  BY <1>1, <1>3, <1>4, AddDone DEF ThisAdd
<1>6. /\ pc' = [pc EXCEPT ![t] = pc'[t]]
      /\ step' = [step EXCEPT ![t] = step'[t]]
      /\ line' = [line EXCEPT ![t] = line'[t]]
  <2>1. line' = [line EXCEPT ![t] = line'[t]]
    BY <1>1
  <2> QED BY <1>1, <2>1 DEF NextAdd, Goto, FilesInv, Shapes
<1>7. step'[t] \in 1 .. 2
  BY <1>5 DEF FilesOf, StepOK
<1> QED BY <1>1, <1>5, <1>6, <1>7, QuietStep

(* An operand is appended with its flag down.                              *)
LEMMA AppendKeepsFiles ==
    ASSUME FilesInv, FetchInv, NEW t \in Threads, AppendFile(t)
    PROVE  FilesInv'
<1> DEFINE e == [use_flag |-> 0, filename |-> ThisAdd(t)]
           S == [use_flag : 0 .. 1, filename : Files]
<1>1. /\ pc[t] = "append" /\ NextAdd(t, "append")
      /\ held' = held /\ look' = look /\ line' = line
      /\ files_list' = Append(files_list, e)
      /\ pc \in [Threads -> PCs] /\ line \in [Threads -> 0 .. line_counter]
  BY DEF AppendFile, fileVars, FetchInv
<1>2. e \in S
  <2>1. step[t] \in 1 .. Len(Want(t))
    <3>1. step[t] \in 1 .. 2 /\ step[t] <= Len(Want(t))
      BY <1>1 DEF FilesInv, FilesOf, StepOK
    <3> QED BY <1>1, <3>1, Wanted DEF Working, PCs
  <2>2. ThisAdd(t) \in Files
    BY <1>1, <2>1, Wanted DEF Working, PCs, ThisAdd
  <2> QED BY <2>2
<1>3. files_list \in Seq(S)
  BY DEF FilesInv, Shapes
<1> HIDE DEF S, e
<1>4. /\ files_list' \in Seq(S) /\ Len(files_list') = Len(files_list) + 1
      /\ Len(files_list) \in Nat
      /\ \A i \in 1 .. Len(files_list) : files_list'[i] = files_list[i]
      /\ files_list'[Len(files_list) + 1] = e
  BY <1>1, <1>2, <1>3, AppendProperties, LenProperties
<1>5. ListedNext(ThisAdd(t))
  <2>1. Len(files_list) + 1 \in 1 .. Len(files_list')
    BY <1>4
  <2> QED BY <1>4, <2>1 DEF ListedNext, e
<1>6. Grows
  BY <1>4 DEF Grows, Indices
<1>7. FilesOf(t)'
  BY <1>1, <1>5, <1>6, AddDone DEF ThisAdd
<1>8. /\ pc' = [pc EXCEPT ![t] = pc'[t]]
      /\ step' = [step EXCEPT ![t] = step'[t]]
  BY <1>1 DEF NextAdd, Goto, FilesInv, Shapes
<1>9. step'[t] \in 1 .. 2
  BY <1>7 DEF FilesOf, StepOK
<1>10. Shapes'
  <2>1. step' \in [Threads -> 1 .. 2]
    BY <1>8, <1>9 DEF FilesInv, Shapes
  <2> QED BY <1>1, <1>4, <2>1 DEF FilesInv, Shapes, S
<1>11. ASSUME NEW u \in Threads, u # t
       PROVE  /\ pc'[u] = pc[u] /\ step'[u] = step[u] /\ line'[u] = line[u]
              /\ held'[u] = held[u] /\ look'[u] = look[u]
              /\ held'[t] \cap held[u] = {}
              /\ \A i \in held[u] :
                    files_list'[i].use_flag = files_list[i].use_flag
  <2>1. \A i \in held[u] : i \in 1 .. Len(files_list)
    BY DEF FilesInv, FilesOf, HeldOK, First, Indices
  <2>2. held[t] \cap held[u] = {}
    BY <1>11 DEF FilesInv
  <2>3. pc'[u] = pc[u] /\ step'[u] = step[u]
    BY <1>1, <1>11 DEF NextAdd, Goto, FilesInv, Shapes
  <2> QED BY <1>1, <1>4, <2>1, <2>2, <2>3
<1> QED BY <1>6, <1>7, <1>10, <1>11, OneMoves

(* A task begins with all its files listed and none held.                  *)
LEMMA TaskUpKeepsFiles ==
    ASSUME FilesInv, FetchInv, NEW t \in Threads, TaskUp(t)
    PROVE  FilesInv'
<1>1. /\ pc[t] = "task_up" /\ pc' = [pc EXCEPT ![t] = "look"]
      /\ step' = step /\ line' = line /\ UNCHANGED listVars
      /\ pc \in [Threads -> PCs] /\ line \in [Threads -> 0 .. line_counter]
  BY DEF TaskUp, Goto, fileVars, FetchInv
<1>2. FilesOf(t) /\ held[t] = {} /\ step[t] = 1 /\ pc'[t] = "look"
  BY <1>1, NothingHeld DEF FilesInv, FilesOf, StepOK
<1>3. Want(t)' = Want(t)
  BY <1>1 DEF Want
<1>5. Len(Want(t)') \in 1 .. 2
  BY <1>1, <1>3, Wanted DEF Working, PCs
<1>4. \A f : Listed(f)' <=> Listed(f)
  BY <1>1 DEF Listed, Indices, Name, listVars
<1>6. step'[t] = 1
  BY <1>1, <1>2
<1>7. StepOK(t)'
  <2>1. \A x \in 1 .. 2 : 1 <= x /\ 1 \in 1 .. 2
    OBVIOUS
  <2>2. step'[t] <= Len(Want(t)') /\ step'[t] \in 1 .. 2
    BY <1>5, <1>6, <2>1, Zenon
  <2> QED BY <1>2, <2>2 DEF StepOK
<1>8. LookOK(t)'
  BY <1>1, <1>2 DEF FilesOf, LookOK, listVars
<1>9. ListedOK(t)'
  BY <1>1, <1>2, <1>3, <1>4 DEF FilesOf, ListedOK
<1>10. HeldOK(t)'
  BY <1>1, <1>2 DEF HeldOK, HeldFiles, Upto, listVars
<1>11. /\ pc' = [pc EXCEPT ![t] = pc'[t]]
       /\ step' = [step EXCEPT ![t] = step'[t]]
      /\ line' = [line EXCEPT ![t] = line'[t]] /\ step'[t] \in 1 .. 2
  BY <1>1, <1>2 DEF FilesInv, Shapes
<1>12. FilesOf(t)'
  BY <1>7, <1>8, <1>9, <1>10 DEF FilesOf
<1> QED BY <1>1, <1>11, <1>12, QuietStep

(* verify_and_take looks up the first entry of a name that is listed.      *)
LEMMA LookUpKeepsFiles ==
    ASSUME FilesInv, FetchInv, NEW t \in Threads, LookUp(t)
    PROVE  FilesInv'
<1> DEFINE m == verify_existency(ThisTake(t)) + 1
<1>1. /\ pc[t] = "look" /\ pc' = [pc EXCEPT ![t] = "take"]
      /\ look' = [look EXCEPT ![t] = m]
      /\ step' = step /\ line' = line /\ files_list' = files_list
      /\ held' = held
      /\ pc \in [Threads -> PCs] /\ line \in [Threads -> 0 .. line_counter]
  BY DEF LookUp, Goto, fileVars, FetchInv
<1>2. FilesOf(t) /\ pc'[t] = "take" /\ look'[t] = m
  BY <1>1 DEF FilesInv, Shapes
<1>3. Want(t)' = Want(t) /\ ThisTake(t)' = ThisTake(t)
      /\ ThisTake(t) = Want(t)[step[t]]
  BY <1>1 DEF Want, ThisTake
<1>4. step[t] \in 1 .. Len(Want(t))
  <2>1. step[t] \in 1 .. 2 /\ step[t] <= Len(Want(t))
    BY <1>1, <1>2 DEF FilesOf, StepOK
  <2> QED BY <1>1, <2>1, Wanted DEF Working, PCs
<1>5. First(m) /\ Name(m) = ThisTake(t)
  <2>1. Listed(ThisTake(t))
    BY <1>1, <1>2, <1>3, <1>4 DEF FilesOf, ListedOK
  <2> QED BY <2>1, FindsFirst DEF FilesInv
<1> HIDE DEF m
<1>6. m \in 1 .. Len(files_list) /\ Len(files_list) \in Nat
  BY <1>5, LenProperties DEF First, Indices, FilesInv, Shapes
<1>7. /\ Grows
      /\ \A f : Listed(f)' <=> Listed(f)
      /\ First(m) => First(look[t])' /\ Name(look[t])' = Name(m)
  BY <1>1, <1>2, <1>6 DEF Grows, Listed, First, Indices, Name
<1>8. StepOK(t)'
  BY <1>1, <1>2, <1>3, <1>4 DEF FilesOf, StepOK
<1>9. ListedOK(t)'
  BY <1>1, <1>2, <1>3, <1>7 DEF FilesOf, ListedOK
<1>10. LookOK(t)'
  <2>1. look'[t] \in 0 .. Len(files_list')
    BY <1>1, <1>2, <1>6
  <2> QED BY <1>3, <1>5, <1>7, <2>1 DEF LookOK
<1>11. HeldOK(t)'
  <2>1. \A i : First(i)' <=> First(i)
    BY <1>1 DEF First, Indices, Name
  <2>2. /\ HeldFiles(t)' = HeldFiles(t)
        /\ Upto(t, step[t] - 1)' = Upto(t, step[t] - 1)
    BY <1>1, <1>3 DEF HeldFiles, Upto
  <2> QED BY <1>1, <1>2, <2>1, <2>2 DEF FilesOf, HeldOK
<1>12. Shapes'
  <2>1. look' \in [Threads -> Nat]
    BY <1>1, <1>6 DEF FilesInv, Shapes
  <2> QED BY <1>1, <2>1 DEF FilesInv, Shapes
<1>13. FilesOf(t)'
  BY <1>8, <1>9, <1>10, <1>11 DEF FilesOf
<1>14. ASSUME NEW u \in Threads, u # t
       PROVE  /\ pc'[u] = pc[u] /\ step'[u] = step[u] /\ line'[u] = line[u]
              /\ held'[u] = held[u] /\ look'[u] = look[u]
              /\ held'[t] \cap held[u] = {}
              /\ \A i \in held[u] :
                    files_list'[i].use_flag = files_list[i].use_flag
  BY <1>1, <1>14 DEF FilesInv, Shapes
<1> QED BY <1>7, <1>12, <1>13, <1>14, OneMoves

(* A free file is taken: nobody else holds it, because held flags are up.  *)
LEMMA TakeKeepsFiles ==
    ASSUME FilesInv, FetchInv, NEW t \in Threads, Take(t)
    PROVE  FilesInv'
<1> DEFINE m == look[t]
           n == Len(Want(t))
           S == [use_flag : 0 .. 1, filename : Files]
<1>1. /\ pc[t] = "take" /\ files_list[m].use_flag = 0
      /\ files_list' = [files_list EXCEPT ![m].use_flag = 1]
      /\ held' = [held EXCEPT ![t] = @ \cup {m}]
      /\ pc' = [pc EXCEPT ![t] = IF step[t] = n THEN "use" ELSE "look"]
      /\ step' = [step EXCEPT ![t] = IF step[t] = n THEN 1 ELSE @ + 1]
      /\ line' = line /\ look' = look
      /\ pc \in [Threads -> PCs] /\ line \in [Threads -> 0 .. line_counter]
  BY DEF Take, Goto, fileVars, FetchInv, LastStep, Want
<1>2. FilesOf(t) /\ First(m) /\ Name(m) = Want(t)[step[t]]
  BY <1>1 DEF FilesInv, FilesOf, LookOK, ThisTake, Want
<1>3. n \in 1 .. 2 /\ step[t] \in 1 .. n /\ Want(t)' = Want(t)
  <2>1. step[t] \in 1 .. 2 /\ step[t] <= n
    BY <1>1, <1>2 DEF FilesOf, StepOK
  <2>2. n \in 1 .. 2
    BY <1>1, Wanted DEF Working, PCs
  <2> QED BY <1>1, <2>1, <2>2 DEF Want
<1>4. /\ files_list \in Seq(S) /\ Len(files_list) \in Nat
      /\ m \in 1 .. Len(files_list) /\ files_list[m] \in S
  <2>1. files_list \in Seq(S) /\ m \in 1 .. Len(files_list)
    BY <1>2 DEF FilesInv, Shapes, First, Indices
  <2> QED BY <2>1, LenProperties, ElementOfSeq
<1>5. /\ files_list' \in Seq(S) /\ Len(files_list') = Len(files_list)
      /\ \A i \in 1 .. Len(files_list) :
            /\ files_list'[i].filename = files_list[i].filename
            /\ files_list'[i].use_flag =
                  IF i = m THEN 1 ELSE files_list[i].use_flag
  <2>1. [files_list[m] EXCEPT !.use_flag = 1] \in S
    BY <1>4
  <2>2. files_list' = [files_list EXCEPT ![m] =
                          [files_list[m] EXCEPT !.use_flag = 1]]
    BY <1>1
  <2>3. files_list' \in Seq(S) /\ Len(files_list') = Len(files_list)
        /\ \A i \in 1 .. Len(files_list) :
              files_list'[i] = IF i = m
                               THEN [files_list[m] EXCEPT !.use_flag = 1]
                               ELSE files_list[i]
    BY <1>4, <2>1, <2>2, ExceptSeq
  <2> QED BY <1>4, <2>3
<1>6. held[t] \subseteq Nat /\ step[t] \in 1 .. 2
      /\ held'[t] = held[t] \cup {m} /\ look'[t] = m
      /\ pc'[t] = (IF step[t] = n THEN "use" ELSE "look")
      /\ step'[t] = (IF step[t] = n THEN 1 ELSE step[t] + 1)
  BY <1>1 DEF FilesInv, Shapes
<1> HIDE DEF S, m, n
<1>7. Grows
  BY <1>4, <1>5 DEF Grows, Indices
<1>8. Shapes'
  <2>1. files_list' \in Seq([use_flag : 0 .. 1, filename : Files])
    BY <1>5 DEF S
  <2>2. (IF step[t] = n THEN 1 ELSE step[t] + 1) \in 1 .. 2
    BY <1>3
  <2>3. step' \in [Threads -> 1 .. 2]
    BY <1>1, <2>2 DEF FilesInv, Shapes
  <2>4. held' \in [Threads -> SUBSET Nat]
    BY <1>1, <1>4, <1>6 DEF FilesInv, Shapes
  <2> QED BY <1>1, <2>1, <2>3, <2>4 DEF FilesInv, Shapes
<1>9. StepOK(t)'
  <2>1. Len(Want(t)') = n
    BY <1>3 DEF n
  <2> QED BY <1>3, <1>6, <2>1 DEF StepOK
<1>10. ListedOK(t)'
  <2>1. \A k \in 1 .. n : Listed(Want(t)[k])
    BY <1>1, <1>2 DEF FilesOf, ListedOK, n
  <2>2. \A k \in 1 .. n : Listed(Want(t)[k])'
    BY <1>3, <2>1, <1>7, FirstStays DEF FilesInv
  <2> QED BY <1>3, <1>6, <2>2 DEF ListedOK, n
<1>11. LookOK(t)'
  <2>1. look'[t] \in 0 .. Len(files_list') /\ pc'[t] # "take"
    BY <1>4, <1>5, <1>6
  <2> QED BY <2>1 DEF LookOK
<1>12. HeldOK(t)'
  <2>1. \A i \in held'[t] : First(i) /\ files_list'[i].use_flag = 1
    BY <1>2, <1>5, <1>6 DEF FilesOf, HeldOK, First, Indices
  <2>2. \A i \in held'[t] : First(i)' /\ files_list'[i].use_flag = 1
    BY <2>1, <1>7, FirstStays DEF FilesInv
  <2>3. HeldFiles(t)' = HeldFiles(t) \cup {Name(m)}
    <3>1. \A i \in held'[t] : files_list'[i].filename = files_list[i].filename
      BY <1>5, <2>1 DEF First, Indices
    <3>2. HeldFiles(t)' = {files_list[i].filename : i \in held'[t]}
      BY <3>1 DEF HeldFiles
    <3> QED BY <1>6, <3>2 DEF HeldFiles, Name
  <2>4. HeldFiles(t) = Upto(t, step[t] - 1)
    BY <1>1, <1>2 DEF FilesOf, HeldOK
  <2>5. Upto(t, step[t]) = Upto(t, step[t] - 1) \cup {Want(t)[step[t]]}
    <3>1. 1 .. step[t] = (1 .. step[t] - 1) \cup {step[t]}
      BY <1>3
    <3> QED BY <3>1 DEF Upto
  <2>6. HeldFiles(t)' = Upto(t, step[t])
    BY <1>2, <2>3, <2>4, <2>5
  <2>7. CASE step[t] = n
    <3>1. Upto(t, Len(Want(t)))' = Upto(t, step[t])
      BY <1>3, <2>7 DEF Upto, n
    <3> QED BY <1>6, <2>2, <2>6, <2>7, <3>1 DEF HeldOK
  <2>8. CASE step[t] # n
    <3>1. Upto(t, step[t] - 1)' = Upto(t, step[t])
      BY <1>3, <1>6, <2>8 DEF Upto
    <3> QED BY <1>6, <2>2, <2>6, <2>8, <3>1 DEF HeldOK
  <2> QED BY <2>7, <2>8
<1>13. FilesOf(t)'
  BY <1>9, <1>10, <1>11, <1>12 DEF FilesOf
<1>14. ASSUME NEW u \in Threads, u # t
       PROVE  /\ pc'[u] = pc[u] /\ step'[u] = step[u] /\ line'[u] = line[u]
              /\ held'[u] = held[u] /\ look'[u] = look[u]
              /\ held'[t] \cap held[u] = {}
              /\ \A i \in held[u] :
                    files_list'[i].use_flag = files_list[i].use_flag
  <2>1. \A i \in held[u] : i \in 1 .. Len(files_list)
                           /\ files_list[i].use_flag = 1
    BY DEF FilesInv, FilesOf, HeldOK, First, Indices
  <2>2. m \notin held[u]
    BY <1>1, <2>1 DEF m
  <2>3. held[t] \cap held[u] = {}
    BY <1>14 DEF FilesInv
  <2>4. pc'[u] = pc[u] /\ step'[u] = step[u] /\ held'[u] = held[u]
    BY <1>1, <1>14 DEF FilesInv, Shapes
  <2>5. held'[t] \cap held[u] = {}
    BY <1>6, <2>2, <2>3
  <2>6. \A i \in held[u] : files_list'[i].use_flag = files_list[i].use_flag
    BY <1>5, <2>1, <2>2
  <2> QED BY <1>1, <2>4, <2>5, <2>6
<1> QED BY <1>7, <1>8, <1>13, <1>14, OneMoves

(* A thread that has finished clears the flags of its own files only.      *)
LEMMA ReleaseKeepsFiles ==
    ASSUME FilesInv, FetchInv, NEW t \in Threads, Release(t)
    PROVE  FilesInv'
<1> DEFINE S == [use_flag : 0 .. 1, filename : Files]
           n == Len(files_list)
           F(i) == IF i \in held[t] THEN [files_list[i] EXCEPT !.use_flag = 0]
                                    ELSE files_list[i]
<1>1. /\ pc' = [pc EXCEPT ![t] = "task_down"]
      /\ held' = [held EXCEPT ![t] = {}]
      /\ step' = step /\ line' = line /\ look' = look
      /\ files_list' = [i \in DOMAIN files_list |-> F(i)]
      /\ pc \in [Threads -> PCs] /\ line \in [Threads -> 0 .. line_counter]
  BY DEF Release, Goto, fileVars, FetchInv
<1>2. /\ files_list \in Seq(S) /\ n \in Nat /\ DOMAIN files_list = 1 .. n
      /\ \A i \in 1 .. n : files_list[i] \in S
  <2>1. files_list \in Seq(S)
    BY DEF FilesInv, Shapes
  <2> QED BY <2>1, LenProperties, ElementOfSeq
<1>3. \A i \in 1 .. n : F(i) \in S
  BY <1>2
<1>4. /\ files_list' \in Seq(S) /\ Len(files_list') = n
      /\ \A i \in 1 .. n : files_list'[i] = F(i)
  <2>1. files_list' = [i \in 1 .. n |-> F(i)]
    BY <1>1, <1>2
  <2> HIDE DEF F, S
  <2>2. files_list' \in [1 .. n -> S]
    BY <1>3, <2>1
  <2>3. files_list' \in Seq(S) /\ DOMAIN files_list' = 1 .. n
    BY <1>2, <2>2
  <2>4. Len(files_list') = n
    BY <1>2, <2>3, LenProperties
  <2> QED BY <2>1, <2>3, <2>4
<1>5. \A i \in 1 .. n :
         /\ files_list'[i].filename = files_list[i].filename
         /\ i \notin held[t] => files_list'[i] = files_list[i]
  BY <1>2, <1>4
<1>6. held'[t] = {} /\ pc'[t] = "task_down"
  BY <1>1 DEF FilesInv, Shapes
<1> HIDE DEF S, n, F
<1>7. Grows
  BY <1>2, <1>4, <1>5 DEF Grows, Indices, n
<1>8. Shapes'
  <2>1. files_list' \in Seq([use_flag : 0 .. 1, filename : Files])
    BY <1>4 DEF S
  <2>2. held' \in [Threads -> SUBSET Nat]
    BY <1>1 DEF FilesInv, Shapes
  <2> QED BY <1>1, <2>1, <2>2 DEF FilesInv, Shapes
<1>9. FilesOf(t)'
  <2>1. FilesOf(t)
    BY DEF FilesInv
  <2>2. step[t] \in 1 .. 2 /\ look[t] \in 0 .. n
    BY <2>1 DEF FilesOf, StepOK, LookOK, n
  <2>3. StepOK(t)' /\ ListedOK(t)'
    BY <1>1, <1>6, <2>2 DEF StepOK, ListedOK
  <2>4. LookOK(t)' /\ HeldOK(t)'
    BY <1>1, <1>4, <1>6, <2>2 DEF LookOK, HeldOK
  <2> QED BY <2>3, <2>4 DEF FilesOf
<1>10. ASSUME NEW u \in Threads, u # t
       PROVE  /\ pc'[u] = pc[u] /\ step'[u] = step[u] /\ line'[u] = line[u]
              /\ held'[u] = held[u] /\ look'[u] = look[u]
              /\ held'[t] \cap held[u] = {}
              /\ \A i \in held[u] :
                    files_list'[i].use_flag = files_list[i].use_flag
  <2>1. \A i \in held[u] : i \in 1 .. n
    BY DEF FilesInv, FilesOf, HeldOK, First, Indices, n
  <2>2. held[t] \cap held[u] = {}
    BY <1>10 DEF FilesInv
  <2>3. pc'[u] = pc[u] /\ held'[u] = held[u]
    BY <1>1, <1>10 DEF FilesInv, Shapes
  <2>4. \A i \in held[u] : files_list'[i] = files_list[i]
    BY <1>5, <2>1, <2>2
  <2> QED BY <1>1, <1>6, <2>3, <2>4
<1> QED BY <1>7, <1>8, <1>9, <1>10, OneMoves

(* Steps of the child process leave the files alone.                       *)
LEMMA ChildKeepsFiles ==
    ASSUME FilesInv, ChildStep \/ UNCHANGED working PROVE FilesInv'
<1>1. UNCHANGED <<pc, line, step, files_list, held, look>>
  BY DEF ChildStep, ChildPoll, ChildRead, ChildPost, working, fileVars, listVars
<1>2. Grows /\ Shapes'
  BY <1>1, LenProperties DEF Grows, FilesInv, Shapes
<1>3. \A u \in Threads : FilesOf(u)'
  BY <1>1, <1>2, OthersKeepFiles DEF FilesInv
<1> QED BY <1>1, <1>2, <1>3 DEF FilesInv

(* Every step keeps the invariant of the list.                             *)
LEMMA NextKeepsFilesInv ==
    FilesInv /\ FetchInv /\ [Next]_vars => FilesInv'
<1> SUFFICES ASSUME FilesInv, FetchInv, [Next]_vars PROVE FilesInv'
  OBVIOUS
<1>1. ASSUME NEW t \in Threads, ThreadStep(t) PROVE FilesInv'
  <2>1. CASE \/ Barrier(t) \/ PassBarrier(t) \/ FetchWait(t) \/ AllRead(t)
             \/ ReadLine(t) \/ CountLine(t) \/ StartWait(t) \/ StopWait(t)
             \/ StopWrite(t) \/ TaskDown(t)
    BY <2>1, OutsideKeepsFiles
  <2>2. CASE StartWrite(t) \/ VerifyAbsent(t) \/ VerifyPresent(t)
    BY <2>2, StartKeepsFiles, AbsentKeepsFiles, PresentKeepsFiles
  <2>3. CASE AppendFile(t) \/ TaskUp(t) \/ LookUp(t)
    BY <2>3, AppendKeepsFiles, TaskUpKeepsFiles, LookUpKeepsFiles
  <2>4. CASE Take(t) \/ Release(t)
    BY <2>4, TakeKeepsFiles, ReleaseKeepsFiles
  <2> QED BY <1>1, <2>1, <2>2, <2>3, <2>4 DEF ThreadStep
<1> QED BY <1>1, ChildKeepsFiles DEF Next, ThreadRuns, ChildRuns,
         CreateThreads, Overrun, vars

(* The list of files serves the threads as they rely on it.                *)
THEOREM FilesInvariant == Spec => []FilesInv
<1>1. ASSUME Init PROVE FilesInv
  <2>1. /\ \A t \in Threads : /\ pc[t] = "barrier" /\ step[t] = 1
                              /\ held[t] = {} /\ look[t] = 0
        /\ files_list = <<>>
        /\ step \in [Threads -> 1 .. 2] /\ held \in [Threads -> SUBSET Nat]
        /\ look \in [Threads -> Nat]
    BY <1>1 DEF Init
  <2>2. /\ files_list \in Seq([use_flag : 0 .. 1, filename : Files])
        /\ Len(files_list) = 0
    BY <2>1, EmptySeq
  <2>3. \A t \in Threads : FilesOf(t)
    BY <2>1, <2>2 DEF FilesOf, StepOK, ListedOK, LookOK, HeldOK
  <2> QED BY <2>1, <2>2, <2>3 DEF FilesInv, Shapes
<1> QED BY <1>1, NextKeepsFilesInv, FetchInvariant, PTL DEF Spec

(* No two threads use one file at once, and a thread that works on its     *)
(* files holds all of them, while the list has not overrun its array.      *)
THEOREM FilesExclusive == Spec => []FileExclusive
<1>1. ASSUME FilesInv, FetchInv PROVE FileExclusive
  <2>1. ASSUME NEW t \in Threads, NEW u \in Threads, t # u
        PROVE  HeldFiles(t) \cap HeldFiles(u) = {}
    <3> SUFFICES ASSUME NEW i \in held[t], NEW j \in held[u],
                        Name(i) = Name(j)
                 PROVE  FALSE
      BY DEF HeldFiles, Name
    <3>1. First(i) /\ First(j)
      BY <1>1 DEF FilesInv, FilesOf, HeldOK
    <3>2. i <= j /\ j <= i /\ i \in Int /\ j \in Int
      BY <3>1 DEF First, Indices
    <3>3. i = j
      BY <3>2
    <3> QED BY <1>1, <2>1, <3>3 DEF FilesInv
  <2>2. ASSUME NEW t \in Threads, pc[t] = "use"
        PROVE  HeldFiles(t) = ToSet(Takes(Lines[line[t]]))
    <3>1. HeldFiles(t) = Upto(t, Len(Want(t)))
      BY <1>1, <2>2 DEF FilesInv, FilesOf, HeldOK
    <3>2. DOMAIN Want(t) = 1 .. Len(Want(t))
      BY <1>1, <2>2, Wanted DEF Working, PCs
    <3> QED BY <3>1, <3>2 DEF Upto, ToSet, Want
  <2> QED BY <2>1, <2>2 DEF FileExclusive
<1> QED BY <1>1, FilesInvariant, FetchInvariant, PTL

-----------------------------------------------------------------------------
(* The room in the list.  A line adds two names at most, and what the      *)
(* threads may still add for the lines they have taken is set aside.       *)
TwoLeft == {t \in Threads : \/ pc[t] \in {"count", "start", "start_write"}
                            \/ pc[t] \in {"verify", "append"} /\ step[t] = 1}
OneLeft == {t \in Threads : pc[t] \in {"verify", "append"} /\ step[t] = 2}

RoomInv ==
    /\ Len(files_list) <= MaxPthreads
    /\ Len(files_list) + 2 * Cardinality(TwoLeft) + Cardinality(OneLeft)
          <= 2 * filepos
    /\ process \in {"starting", "running", "exited", "overrun"}
    /\ process = "overrun" => \E t \in Threads : /\ pc[t] = "append"
                                                  /\ Len(files_list) = MaxPthreads

(* How a step of one thread changes what is set aside.                     *)
LEMMA LeftMoved ==
    ASSUME pc \in [Threads -> PCs], step \in [Threads -> 1 .. 2],
           NEW t \in Threads, NEW to \in PCs, NEW k \in 1 .. 2,
           pc' = [pc EXCEPT ![t] = to], step' = [step EXCEPT ![t] = k]
    PROVE  /\ Cardinality(TwoLeft) \in Nat /\ Cardinality(TwoLeft') \in Nat
           /\ Cardinality(OneLeft) \in Nat /\ Cardinality(OneLeft') \in Nat
           /\ Cardinality(TwoLeft') = Cardinality(TwoLeft)
                + (IF t \in TwoLeft' THEN 1 ELSE 0) - (IF t \in TwoLeft THEN 1 ELSE 0)
           /\ Cardinality(OneLeft') = Cardinality(OneLeft)
                + (IF t \in OneLeft' THEN 1 ELSE 0) - (IF t \in OneLeft THEN 1 ELSE 0)
<1>1. /\ TwoLeft \in SUBSET Threads /\ TwoLeft' \in SUBSET Threads
      /\ OneLeft \in SUBSET Threads /\ OneLeft' \in SUBSET Threads
  BY DEF TwoLeft, OneLeft
<1>2. \A u \in Threads : u # t => /\ u \in TwoLeft <=> u \in TwoLeft'
                                  /\ u \in OneLeft <=> u \in OneLeft'
  BY DEF TwoLeft, OneLeft
<1> HIDE DEF TwoLeft, OneLeft
<1> QED BY <1>1, <1>2, ThreadsFinite, MovedSize

(* Every step of a thread leaves room for the lines that were read.        *)
LEMMA ThreadKeepsRoom ==
    ASSUME RoomInv, FilesInv, FetchInv, NEW t \in Threads, ThreadStep(t)
    PROVE  /\ Len(files_list') <= MaxPthreads
           /\ Len(files_list') + 2 * Cardinality(TwoLeft') + Cardinality(OneLeft')
                 <= 2 * filepos'
<1>1. /\ pc \in [Threads -> PCs] /\ step \in [Threads -> 1 .. 2]
      /\ Len(files_list) \in Nat /\ filepos \in Nat /\ MaxPthreads \in Nat
  BY ThreadsFinite, LenProperties, MaxPthreadsAssumption
     DEF FetchInv, FilesInv, Shapes
<1>2. ASSUME NEW to \in PCs, NEW k \in 1 .. 2,
             pc' = [pc EXCEPT ![t] = to], step' = [step EXCEPT ![t] = k],
             t \in TwoLeft <=> t \in TwoLeft', t \in OneLeft <=> t \in OneLeft',
             files_list' = files_list, filepos' = filepos
      PROVE  /\ Len(files_list') <= MaxPthreads
             /\ Len(files_list') + 2 * Cardinality(TwoLeft') + Cardinality(OneLeft')
                   <= 2 * filepos'
  <2>1. /\ Cardinality(TwoLeft') = Cardinality(TwoLeft)
        /\ Cardinality(OneLeft') = Cardinality(OneLeft)
        /\ Cardinality(TwoLeft) \in Nat /\ Cardinality(OneLeft) \in Nat
    <3>1. /\ Cardinality(TwoLeft) \in Nat /\ Cardinality(OneLeft) \in Nat
          /\ Cardinality(TwoLeft') = Cardinality(TwoLeft)
               + (IF t \in TwoLeft' THEN 1 ELSE 0) - (IF t \in TwoLeft THEN 1 ELSE 0)
          /\ Cardinality(OneLeft') = Cardinality(OneLeft)
               + (IF t \in OneLeft' THEN 1 ELSE 0) - (IF t \in OneLeft THEN 1 ELSE 0)
      BY <1>1, <1>2, LeftMoved
    <3> QED BY <1>2, <3>1
  <2>2. Len(files_list') = Len(files_list) /\ filepos' = filepos
    BY <1>2
  <2>3. /\ Len(files_list) <= MaxPthreads
        /\ Len(files_list) + 2 * Cardinality(TwoLeft) + Cardinality(OneLeft)
              <= 2 * filepos
    BY DEF RoomInv
  <2> QED BY <1>1, <2>1, <2>2, <2>3
<1>3. CASE \/ Barrier(t) \/ PassBarrier(t) \/ FetchWait(t) \/ AllRead(t)
           \/ StopWait(t) \/ StopWrite(t) \/ TaskUp(t) \/ LookUp(t)
           \/ Release(t) \/ TaskDown(t) \/ Take(t)
  <2> DEFINE Adding == {"count", "start", "start_write", "verify", "append"}
  <2>1. \E to \in PCs \ Adding : pc[t] \notin Adding /\ pc' = [pc EXCEPT ![t] = to]
    BY <1>3 DEF Barrier, PassBarrier, FetchWait, AllRead, StopWait, StopWrite,
         SendWait, SendWrite, TaskUp, LookUp, Release, TaskDown, Take, Goto, PCs
  <2>2. /\ Len(files_list') = Len(files_list) /\ filepos' = filepos
        /\ \A u \in Threads : u # t => step'[u] = step[u]
    <3>1. CASE Release(t)
      <4>1. /\ files_list' = [i \in DOMAIN files_list |->
                   IF i \in held[t] THEN [files_list[i] EXCEPT !.use_flag = 0]
                                    ELSE files_list[i]]
            /\ UNCHANGED <<step, filepos>>
        BY <3>1 DEF Release, fileVars
      <4>2. DOMAIN files_list = 1 .. Len(files_list)
        BY LenProperties DEF FilesInv, Shapes
      <4> QED BY <1>1, <4>1, <4>2
    <3>2. CASE Take(t)
      <4>1. /\ files_list' = [files_list EXCEPT ![look[t]].use_flag = 1]
            /\ \E k : step' = [step EXCEPT ![t] = k]
            /\ filepos' = filepos
        BY <3>2 DEF Take, fileVars
      <4> QED BY <1>1, <4>1 DEF FilesInv, Shapes
    <3>3. CASE ~ Release(t) /\ ~ Take(t)
      BY <1>3, <3>3 DEF Barrier, PassBarrier, FetchWait, AllRead, StopWait,
           StopWrite, SendWait, SendWrite, TaskUp, LookUp, TaskDown, fileVars,
           listVars
    <3> QED BY <3>1, <3>2, <3>3
  <2>3. TwoLeft' = TwoLeft /\ OneLeft' = OneLeft
    BY <1>1, <2>1, <2>2 DEF TwoLeft, OneLeft
  <2> QED BY <2>2, <2>3 DEF RoomInv
<1>4. CASE CountLine(t) \/ StartWait(t) \/ StartWrite(t) \/ VerifyAbsent(t)
  <2>1. /\ files_list' = files_list /\ filepos' = filepos
        /\ \E to \in PCs, k \in 1 .. 2 :
             /\ pc' = [pc EXCEPT ![t] = to] /\ step' = [step EXCEPT ![t] = k]
             /\ \/ /\ pc[t] \in {"count", "start", "start_write"}
                   /\ \/ to \in {"start", "start_write"}
                      \/ to = "verify" /\ k = 1
                \/ pc[t] = "verify" /\ to = "append" /\ k = step[t]
    <3>1. \A k : k = step[t] => step = [step EXCEPT ![t] = k]
      BY <1>1
    <3> QED BY <1>1, <1>4, <3>1 DEF CountLine, StartWait, StartWrite, SendWait, SendWrite,
         VerifyAbsent, Goto, PCs, fileVars, listVars
  <2>2. PICK to \in PCs, k \in 1 .. 2 :
             /\ pc' = [pc EXCEPT ![t] = to] /\ step' = [step EXCEPT ![t] = k]
             /\ \/ /\ pc[t] \in {"count", "start", "start_write"}
                   /\ \/ to \in {"start", "start_write"}
                      \/ to = "verify" /\ k = 1
                \/ pc[t] = "verify" /\ to = "append" /\ k = step[t]
    BY <2>1
  <2>3. /\ t \in TwoLeft <=> t \in TwoLeft'
        /\ t \in OneLeft <=> t \in OneLeft'
    BY <1>1, <2>2 DEF TwoLeft, OneLeft
  <2> QED BY <1>2, <2>1, <2>2, <2>3
<1>5. CASE ReadLine(t)
  <2>1. /\ pc[t] = "read" /\ pc' = [pc EXCEPT ![t] = "count"]
        /\ step' = [step EXCEPT ![t] = step[t]]
        /\ files_list' = files_list /\ filepos' = filepos + 1
    BY <1>1, <1>5 DEF ReadLine, Goto, listVars
  <2>2. /\ t \notin TwoLeft /\ t \in TwoLeft' /\ t \notin OneLeft /\ t \notin OneLeft'
    BY <1>1, <2>1 DEF TwoLeft, OneLeft
  <2>3. step[t] \in 1 .. 2 /\ "count" \in PCs
    BY <1>1 DEF PCs
  <2>4. /\ Cardinality(TwoLeft) \in Nat /\ Cardinality(OneLeft) \in Nat
        /\ Cardinality(TwoLeft') = Cardinality(TwoLeft) + 1
        /\ Cardinality(OneLeft') = Cardinality(OneLeft)
    <3>1. /\ Cardinality(TwoLeft) \in Nat /\ Cardinality(OneLeft) \in Nat
          /\ Cardinality(TwoLeft') = Cardinality(TwoLeft)
               + (IF t \in TwoLeft' THEN 1 ELSE 0) - (IF t \in TwoLeft THEN 1 ELSE 0)
          /\ Cardinality(OneLeft') = Cardinality(OneLeft)
               + (IF t \in OneLeft' THEN 1 ELSE 0) - (IF t \in OneLeft THEN 1 ELSE 0)
      BY <1>1, <2>1, <2>3, LeftMoved
    <3> QED BY <2>2, <3>1
  <2> QED BY <1>1, <2>1, <2>4 DEF RoomInv
<1>6. CASE VerifyPresent(t) \/ AppendFile(t)
  <2>1. PICK from \in {"verify", "append"} : NextAdd(t, from)
    BY <1>6 DEF VerifyPresent, AppendFile
  <2>2. step[t] <= Len(Takes(Lines[line[t]])) /\ Len(Takes(Lines[line[t]])) \in 1 .. 2
    <3>1. pc[t] = from
      BY <2>1 DEF NextAdd, Goto
    <3>2. step[t] <= Len(Want(t))
      BY <3>1 DEF FilesInv, FilesOf, StepOK
    <3>3. line[t] \in 1 .. line_counter
      BY <3>1 DEF FetchInv, Working, PCs
    <3> QED BY <3>2, <3>3, Operands DEF Want
  <2>3. PICK to \in PCs, k \in 1 .. 2 :
             /\ pc' = [pc EXCEPT ![t] = to] /\ step' = [step EXCEPT ![t] = k]
             /\ \/ to = "task_up"
                \/ to = "verify" /\ k = 2 /\ step[t] = 1
    <3>1. pc[t] = from /\ pc' = [pc EXCEPT ![t] = IF LastStep(t) THEN "task_up" ELSE "verify"]
          /\ step' = [step EXCEPT ![t] = IF LastStep(t) THEN 1 ELSE step[t] + 1]
      BY <1>1, <2>1 DEF NextAdd, Goto
    <3>2. ~ LastStep(t) => step[t] = 1 /\ step[t] + 1 = 2
      <4>1. \A a, n \in 1 .. 2 : a <= n /\ a # n => a = 1 /\ a + 1 = 2
        OBVIOUS
      <4>2. step[t] \in 1 .. 2
        BY <1>1
      <4> QED BY <2>2, <4>1, <4>2 DEF LastStep
    <3>3. step[t] \in 1 .. 2 /\ {"task_up", "verify"} \subseteq PCs
      BY <1>1 DEF PCs
    <3>4. CASE LastStep(t)
      <4>1. pc' = [pc EXCEPT ![t] = "task_up"] /\ step' = [step EXCEPT ![t] = 1]
        BY <3>1, <3>4
      <4> "task_up" \in PCs /\ 1 \in 1 .. 2
        BY <3>3
      <4> WITNESS "task_up" \in PCs, 1 \in 1 .. 2
      <4> QED BY <4>1
    <3>5. CASE ~ LastStep(t)
      <4>1. pc' = [pc EXCEPT ![t] = "verify"] /\ step' = [step EXCEPT ![t] = 2]
        BY <3>1, <3>2, <3>5
      <4> "verify" \in PCs /\ 2 \in 1 .. 2
        BY <3>3
      <4> WITNESS "verify" \in PCs, 2 \in 1 .. 2
      <4> QED BY <3>2, <3>5, <4>1
    <3> QED BY <3>4, <3>5
  <2>4. /\ step[t] = 1 => t \in TwoLeft /\ t \notin OneLeft
        /\ step[t] = 2 => t \notin TwoLeft /\ t \in OneLeft
        /\ t \notin TwoLeft' /\ (t \in OneLeft' => step[t] = 1)
    BY <1>1, <2>1, <2>3 DEF TwoLeft, OneLeft, NextAdd, Goto
  <2>5. /\ Cardinality(TwoLeft) \in Nat /\ Cardinality(OneLeft) \in Nat
        /\ Cardinality(TwoLeft') \in Nat /\ Cardinality(OneLeft') \in Nat
        /\ Cardinality(TwoLeft') = Cardinality(TwoLeft)
             + (IF t \in TwoLeft' THEN 1 ELSE 0) - (IF t \in TwoLeft THEN 1 ELSE 0)
        /\ Cardinality(OneLeft') = Cardinality(OneLeft)
             + (IF t \in OneLeft' THEN 1 ELSE 0) - (IF t \in OneLeft THEN 1 ELSE 0)
    BY <1>1, <2>3, LeftMoved
  <2>6. 2 * Cardinality(TwoLeft') + Cardinality(OneLeft') + 1
           <= 2 * Cardinality(TwoLeft) + Cardinality(OneLeft)
    <3>1. step[t] = 1 \/ step[t] = 2
      BY <1>1
    <3>2. CASE step[t] = 1
      <4>1. t \in TwoLeft /\ t \notin TwoLeft' /\ t \notin OneLeft
        BY <2>4, <3>2
      <4>2. Cardinality(TwoLeft') = Cardinality(TwoLeft) - 1
        BY <2>5, <4>1
      <4>3. Cardinality(OneLeft') <= Cardinality(OneLeft) + 1
        BY <2>5, <4>1
      <4> QED BY <2>5, <4>2, <4>3
    <3>3. CASE step[t] = 2
      <4>1. t \notin TwoLeft /\ t \notin TwoLeft' /\ t \in OneLeft /\ t \notin OneLeft'
        BY <2>4, <3>3
      <4>2. Cardinality(TwoLeft') = Cardinality(TwoLeft)
        BY <2>5, <4>1
      <4>3. Cardinality(OneLeft') = Cardinality(OneLeft) - 1
        BY <2>5, <4>1
      <4> QED BY <2>5, <4>2, <4>3
    <3> QED BY <3>1, <3>2, <3>3
  <2>7. filepos' = filepos /\ Len(files_list') \in Nat
        /\ Len(files_list') <= Len(files_list) + 1
        /\ Len(files_list') <= MaxPthreads
    <3>1. CASE VerifyPresent(t)
      BY <1>1, <3>1 DEF VerifyPresent, fileVars, listVars, RoomInv
    <3>2. CASE AppendFile(t)
      <4>1. Len(files_list) < MaxPthreads /\ filepos' = filepos
        BY <3>2 DEF AppendFile, fileVars
      <4>2. Len(files_list') = Len(files_list) + 1
        BY <3>2 DEF AppendFile, FilesInv, Shapes
      <4> QED BY <1>1, <4>1, <4>2
    <3> QED BY <1>6, <3>1, <3>2
  <2>8. /\ Cardinality(TwoLeft) \in Nat /\ Cardinality(OneLeft) \in Nat
        /\ Cardinality(TwoLeft') \in Nat /\ Cardinality(OneLeft') \in Nat
    BY <2>5
  <2>9. Len(files_list) + 2 * Cardinality(TwoLeft) + Cardinality(OneLeft)
           <= 2 * filepos
    BY DEF RoomInv
  <2> QED BY <1>1, <2>6, <2>7, <2>8, <2>9
<1> QED BY <1>3, <1>4, <1>5, <1>6 DEF ThreadStep

LEMMA NextKeepsRoom ==
    RoomInv /\ FilesInv /\ FetchInv /\ [Next]_vars => RoomInv'
<1> SUFFICES ASSUME RoomInv, FilesInv, FetchInv, [Next]_vars PROVE RoomInv'
  OBVIOUS
<1>1. ASSUME NEW t \in Threads, ThreadRuns(t) PROVE RoomInv'
  <2>1. CASE ThreadStep(t) /\ UNCHANGED process
    BY <1>1, <2>1, ThreadKeepsRoom DEF ThreadRuns, RoomInv
  <2>2. CASE Overrun(t)
    BY <1>1, <2>2 DEF Overrun, working, RoomInv, TwoLeft, OneLeft
  <2> QED BY <1>1, <2>1, <2>2 DEF ThreadRuns
<1>2. ASSUME UNCHANGED <<pc, step, files_list, filepos>>,
             \/ UNCHANGED process
             \/ process' \in {"running", "exited"}
      PROVE  RoomInv'
  BY <1>2 DEF RoomInv, TwoLeft, OneLeft
<1>3. CASE CreateThreads
  BY <1>2, <1>3 DEF CreateThreads, working
<1>4. CASE ChildRuns
  BY <1>2, <1>4 DEF ChildRuns, ChildStep, ChildPoll, ChildRead, ChildPost,
                    fileVars, listVars
<1>5. CASE UNCHANGED vars
  BY <1>2, <1>5 DEF vars, working
<1> QED BY <1>1, <1>3, <1>4, <1>5 DEF Next

(* Lines still to be read and names still to be added leave room for each  *)
(* other: a line adds at most two names, whatever is listed already.       *)
THEOREM RoomInvariant == Spec => []RoomInv
<1>1. ASSUME Init PROVE RoomInv
  <2>1. TwoLeft = {} /\ OneLeft = {} /\ Len(files_list) = 0 /\ filepos = 0
    BY <1>1 DEF Init, TwoLeft, OneLeft
  <2>2. process = "starting"
    BY <1>1 DEF Init
  <2> QED BY <2>1, <2>2, FS_EmptySet, MaxPthreadsAssumption DEF RoomInv
<1> QED BY <1>1, NextKeepsRoom, FilesInvariant, FetchInvariant, PTL DEF Spec

(* A command file of half as many lines as the array has entries never     *)
(* overruns it, although a name may be listed again with every line.       *)
THEOREM ShortFilesFit ==
    ASSUME 2 * line_counter <= MaxPthreads
    PROVE  Spec => [](process # "overrun")
<1>1. RoomInv /\ FetchInv /\ FilesInv => process # "overrun"
  <2> SUFFICES ASSUME RoomInv, FetchInv, FilesInv, process = "overrun"
               PROVE  FALSE
    OBVIOUS
  <2>1. PICK t \in Threads : pc[t] = "append" /\ Len(files_list) = MaxPthreads
    BY DEF RoomInv
  <2>2. filepos \in 0 .. line_counter
    BY DEF FetchInv
  <2>3. TwoLeft \in SUBSET Threads /\ OneLeft \in SUBSET Threads
    BY DEF TwoLeft, OneLeft
  <2>4. /\ IsFiniteSet(TwoLeft) /\ IsFiniteSet(OneLeft)
        /\ Cardinality(TwoLeft) \in Nat /\ Cardinality(OneLeft) \in Nat
    BY <2>3, ThreadsFinite, FS_Subset, FS_CardinalityType
  <2>5. Cardinality(TwoLeft) = 0 /\ Cardinality(OneLeft) = 0
    BY <2>1, <2>2, <2>4, ThreadsFinite, MaxPthreadsAssumption DEF RoomInv
  <2>6. TwoLeft = {} /\ OneLeft = {}
    BY <2>4, <2>5, FS_EmptySet
  <2>7. step[t] \in 1 .. 2
    BY DEF FilesInv, Shapes
  <2> QED BY <2>1, <2>6, <2>7 DEF TwoLeft, OneLeft
<1> QED BY <1>1, RoomInvariant, FetchInvariant, FilesInvariant, PTL

(* Every variable has its type, the list its room.                         *)
THEOREM FileWorkersTypeCorrect == Spec => []TypeOK
<1>1. ASSUME FetchInv, PipeInv, TasksInv, FilesInv, RoomInv PROVE TypeOK
  <2>1. citit \in 0 .. line_counter
    <3>1. CASE \A t \in Threads : pc[t] # "count"
      BY <1>1, <3>1, ThreadsFinite DEF FetchInv
    <3>2. CASE \E t \in Threads : pc[t] = "count"
      BY <1>1, <3>2, ThreadsFinite DEF FetchInv
    <3> QED BY <3>1, <3>2
  <2>2. sem_pipe \in 0 .. 1
    <3>1. Cardinality(Writers) \in Nat /\ Len(pipe) \in Nat
      BY <1>1, ThreadsFinite, FS_Subset, FS_CardinalityType, LenProperties
         DEF PipeInv, Writers
    <3> QED BY <1>1, <3>1 DEF PipeInv, OneMessage, Writers
  <2>3. current_tasks \in 0 .. line_counter
    <3>1. At(InTask) \subseteq Threads
      BY DEF At
    <3>2. Cardinality(At(InTask)) <= line_counter
          /\ Cardinality(At(InTask)) \in Nat
      BY <3>1, ThreadsFinite, FS_Subset, FS_CardinalityType
    <3> QED BY <1>1, <3>2, ThreadsFinite DEF TasksInv
  <2>4. /\ held \in [Threads -> SUBSET (1 .. Len(files_list))]
        /\ look \in [Threads -> 0 .. Len(files_list)]
    <3>1. \A t \in Threads : /\ look[t] \in 0 .. Len(files_list)
                             /\ held[t] \subseteq 1 .. Len(files_list)
      BY <1>1 DEF FilesInv, FilesOf, LookOK, HeldOK, First, Indices
    <3> QED BY <1>1, <3>1 DEF FilesInv, Shapes
  <2>5. /\ pc \in [Threads -> PCs] /\ sem \in 0 .. 1
        /\ filepos \in 0 .. line_counter
        /\ line \in [Threads -> 0 .. line_counter]
    BY <1>1 DEF FetchInv
  <2>6. /\ step \in [Threads -> 1 .. 2]
        /\ files_list \in Seq([use_flag : 0 .. 1, filename : Files])
    BY <1>1 DEF FilesInv, Shapes
  <2>7. /\ pipe \in Seq(Threads \X {"START", "STOP"})
        /\ child \in {"poll", "read", "post"}
    BY <1>1 DEF PipeInv
  <2>8. /\ Len(files_list) <= MaxPthreads
        /\ process \in {"starting", "running", "exited", "overrun"}
    BY <1>1 DEF RoomInv
  <2> QED BY <2>1, <2>2, <2>3, <2>4, <2>5, <2>6, <2>7, <2>8 DEF TypeOK
<1> QED BY <1>1, FetchInvariant, PipeInvariant, TasksInvariant, FilesInvariant,
           RoomInvariant, PTL
=============================================================================
