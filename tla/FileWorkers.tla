----------------------------- MODULE FileWorkers ----------------------------
(***************************************************************************)
(* EXAMS/30.01.2023/server.c: one thread per line of a command file.  The  *)
(* threads meet at a barrier, then take the lines one by one and carry     *)
(* each out: "generate text file" writes a file, "checksum file file"      *)
(* reads two.  A file in use is marked by a flag in a shared list that the *)
(* threads search, extend and spin on.  Around each command a thread sends *)
(* START and STOP through a pipe to a child process, one message at a time *)
(* by means of a named semaphore that threads take and the child gives     *)
(* back.  What the files hold is left out; who may touch them is not.      *)
(* The list is an array with room for MAX_PTHREADS names, which nobody     *)
(* tests: a name too many overwrites whatever lies behind it, and the      *)
(* model ends there ("overrun").                                           *)
(***************************************************************************)
EXTENDS Naturals, Sequences, FiniteSets, FiniteSetsExt, SequencesExt

CONSTANTS Lines,      \* the command file: a sequence of [op, file1, file2]
          Files,      \* the names that occur in it
          MaxPthreads \* MAX_PTHREADS, the size of tid and of files_list

ASSUME LinesAssumption ==
    Lines \in Seq([op : {"generate", "checksum"}, file1 : Files, file2 : Files])

ASSUME MaxPthreadsAssumption == MaxPthreads \in Nat \ {0}

line_counter == Len(Lines)
Threads == 1 .. line_counter

VARIABLES pc,
          sem,            \* guards the command file
          citit,          \* lines taken so far
          filepos,        \* the position of fd_gobal, in lines
          line,           \* the line each thread carries out
          step,           \* which of the files of that line it has come to
          files_list,     \* the list: [filename, use_flag]
          held,           \* the indices whose flag each thread has set
          look,           \* the index each thread has looked up
          current_tasks,
          sem_pipe,
          pipe,           \* messages written and not read
          child,          \* where the child process is
          process         \* before its threads, running, exited or overrun

working == <<pc, sem, citit, filepos, line, step, files_list, held, look,
             current_tasks, sem_pipe, pipe, child>>
vars    == <<working, process>>
fileVars == <<sem, citit, filepos, line>>
listVars == <<files_list, held, look>>
pipeVars == <<sem_pipe, pipe, child>>

(* generate uses its second operand only; checksum adds its operands in    *)
(* one order and takes them in the other.                                  *)
Adds(l)  == IF l.op = "generate" THEN <<l.file2>> ELSE <<l.file2, l.file1>>
Takes(l) == IF l.op = "generate" THEN <<l.file2>> ELSE <<l.file1, l.file2>>

Init == /\ pc = [t \in Threads |-> "barrier"]
        /\ sem = 1
        /\ citit = 0
        /\ filepos = 0
        /\ line = [t \in Threads |-> 0]
        /\ step = [t \in Threads |-> 1]
        /\ files_list = <<>>
        /\ held = [t \in Threads |-> {}]
        /\ look = [t \in Threads |-> 0]
        /\ current_tasks = 0
        /\ sem_pipe = 1
        /\ pipe = <<>>
        /\ child = "poll"
        /\ process = "starting"

Goto(t, from, to) == /\ pc[t] = from
                     /\ pc' = [pc EXCEPT ![t] = to]

-----------------------------------------------------------------------------
(* create_threads                                                          *)

CreateThreads == /\ process = "starting"
                 /\ process' = IF line_counter > MaxPthreads THEN "exited"
                                                             ELSE "running"
                 /\ UNCHANGED working

-----------------------------------------------------------------------------
(* handle_routine                                                          *)

Barrier(t) == /\ Goto(t, "barrier", "arrived")
              /\ UNCHANGED <<fileVars, step, listVars, current_tasks, pipeVars>>

PassBarrier(t) == /\ \A u \in Threads : pc[u] # "barrier"
                  /\ Goto(t, "arrived", "fetch")
                  /\ UNCHANGED <<fileVars, step, listVars, current_tasks,
                                 pipeVars>>

(* Variant: no semaphore around the test and the read.                     *)
FetchNoWait(t) == /\ Goto(t, "fetch", "read")
                  /\ UNCHANGED <<fileVars, step, listVars, current_tasks,
                                 pipeVars>>

(* sem_wait(&sem)                                                          *)
FetchWait(t) == /\ sem > 0
                /\ Goto(t, "fetch", "read")
                /\ sem' = sem - 1
                /\ UNCHANGED <<citit, filepos, line, step, listVars,
                               current_tasks, pipeVars>>

AllRead(t) == /\ citit = line_counter
              /\ Goto(t, "read", "done")
              /\ sem' = sem + 1
              /\ UNCHANGED <<citit, filepos, line, step, listVars, current_tasks,
                             pipeVars>>

(* fgets moves the shared file position by one line, then citit follows.   *)
(* At the end of the file fgets would return NULL and the thread would     *)
(* loop with the semaphore kept; NoNullRead says that this does not happen. *)
ReadLine(t) == /\ citit # line_counter /\ filepos < line_counter
               /\ Goto(t, "read", "count")
               /\ filepos' = filepos + 1
               /\ line' = [line EXCEPT ![t] = filepos + 1]
               /\ UNCHANGED <<sem, citit, step, listVars, current_tasks, pipeVars>>

CountLine(t) == /\ Goto(t, "count", "start")
                /\ citit' = citit + 1
                /\ sem' = sem + 1
                /\ UNCHANGED <<filepos, line, step, listVars, current_tasks,
                               pipeVars>>

-----------------------------------------------------------------------------
(* thread_handler_file: START, the command, STOP.  The semaphore is taken  *)
(* before each write and never given back by a thread.                     *)

(* Variant: the message is written without taking the semaphore.           *)
SendNoWait(t, from, to) == /\ Goto(t, from, to)
                           /\ UNCHANGED <<fileVars, step, listVars,
                                          current_tasks, pipeVars>>

SendWait(t, from, to) == /\ sem_pipe > 0
                         /\ Goto(t, from, to)
                         /\ sem_pipe' = sem_pipe - 1
                         /\ UNCHANGED <<fileVars, step, listVars,
                                        current_tasks, pipe, child>>

SendWrite(t, from, to, kind) == /\ Goto(t, from, to)
                                /\ pipe' = Append(pipe, <<t, kind>>)
                                /\ UNCHANGED <<fileVars, listVars,
                                               current_tasks, sem_pipe, child>>

StartWait(t)  == SendWait(t, "start", "start_write")
StartWrite(t) == /\ SendWrite(t, "start_write", "verify", "START")
                 /\ step' = [step EXCEPT ![t] = 1]
StopWait(t)   == SendWait(t, "stop", "stop_write")
StopWrite(t)  == /\ SendWrite(t, "stop_write", "fetch", "STOP")
                 /\ UNCHANGED step

-----------------------------------------------------------------------------
(* The list of files.  verify_existency returns the first index of a name, *)
(* and 0 both for the first entry and for a name that is not there.        *)

IndicesOf(f) == {i \in 1 .. Len(files_list) : files_list[i].filename = f}
verify_existency(f) == IF IndicesOf(f) = {} THEN 0 ELSE Min(IndicesOf(f)) - 1

ThisAdd(t)  == Adds(Lines[line[t]])[step[t]]
ThisTake(t) == Takes(Lines[line[t]])[step[t]]
LastStep(t) == step[t] = Len(Takes(Lines[line[t]]))

NextAdd(t, from) ==
    /\ Goto(t, from, IF LastStep(t) THEN "task_up" ELSE "verify")
    /\ step' = [step EXCEPT ![t] = IF LastStep(t) THEN 1 ELSE @ + 1]

(* add_in_list: the answer 0 is taken for "not in the list".               *)
VerifyPresent(t) == /\ pc[t] = "verify"
                    /\ verify_existency(ThisAdd(t)) # 0
                    /\ NextAdd(t, "verify")
                    /\ UNCHANGED <<fileVars, listVars, current_tasks, pipeVars>>

VerifyAbsent(t) == /\ pc[t] = "verify"
                   /\ verify_existency(ThisAdd(t)) = 0
                   /\ Goto(t, "verify", "append")
                   /\ UNCHANGED <<fileVars, step, listVars, current_tasks,
                                  pipeVars>>

AppendFile(t) == /\ pc[t] = "append" /\ Len(files_list) < MaxPthreads
                 /\ files_list' = Append(files_list,
                        [use_flag |-> 0, filename |-> ThisAdd(t)])
                 /\ NextAdd(t, "append")
                 /\ UNCHANGED <<fileVars, held, look, current_tasks, pipeVars>>

(* The array is full: what the rest of the program does is undefined.      *)
Overrun(t) == /\ pc[t] = "append" /\ Len(files_list) = MaxPthreads
              /\ process' = "overrun"
              /\ UNCHANGED working

TaskUp(t) == /\ Goto(t, "task_up", "look")
             /\ current_tasks' = current_tasks + 1
             /\ UNCHANGED <<fileVars, step, listVars, pipeVars>>

(* Variant: the last entry of a name is looked up instead of the first.    *)
LookUpLast(t) == /\ pc[t] = "look"
                 /\ Goto(t, "look", "take")
                 /\ look' = [look EXCEPT ![t] = Max(IndicesOf(ThisTake(t)))]
                 /\ UNCHANGED <<fileVars, step, files_list, held, current_tasks,
                                pipeVars>>

(* verify_and_take: look the name up once, then spin on the flag.          *)
LookUp(t) == /\ pc[t] = "look"
             /\ Goto(t, "look", "take")
             /\ look' = [look EXCEPT ![t] = verify_existency(ThisTake(t)) + 1]
             /\ UNCHANGED <<fileVars, step, files_list, held, current_tasks,
                            pipeVars>>

Take(t) == /\ pc[t] = "take"
           /\ files_list[look[t]].use_flag = 0
           /\ files_list' = [files_list EXCEPT ![look[t]].use_flag = 1]
           /\ held' = [held EXCEPT ![t] = @ \cup {look[t]}]
           /\ Goto(t, "take", IF LastStep(t) THEN "use" ELSE "look")
           /\ step' = [step EXCEPT ![t] = IF LastStep(t) THEN 1 ELSE @ + 1]
           /\ UNCHANGED <<fileVars, look, current_tasks, pipeVars>>

(* Variant: the flags are left set.                                        *)
ReleaseNothing(t) == /\ Goto(t, "use", "task_down")
                     /\ held' = [held EXCEPT ![t] = {}]
                     /\ UNCHANGED <<fileVars, step, files_list, look,
                                    current_tasks, pipeVars>>

(* The files are written or read, then every flag is cleared at once.      *)
Release(t) == /\ Goto(t, "use", "task_down")
              /\ files_list' = [i \in DOMAIN files_list |->
                     IF i \in held[t] THEN [files_list[i] EXCEPT !.use_flag = 0]
                                      ELSE files_list[i]]
              /\ held' = [held EXCEPT ![t] = {}]
              /\ UNCHANGED <<fileVars, step, look, current_tasks, pipeVars>>

TaskDown(t) == /\ Goto(t, "task_down", "stop")
               /\ current_tasks' = current_tasks - 1
               /\ UNCHANGED <<fileVars, step, listVars, pipeVars>>

-----------------------------------------------------------------------------
(* child_routine: poll the semaphore; at 0 read whatever is in the pipe    *)
(* and give the semaphore back.                                            *)

ChildPoll == /\ child = "poll" /\ sem_pipe = 0
             /\ child' = "read"
             /\ UNCHANGED <<pc, fileVars, step, listVars, current_tasks,
                            sem_pipe, pipe>>

ChildRead == /\ child = "read" /\ pipe # <<>>
             /\ pipe' = <<>>
             /\ child' = "post"
             /\ UNCHANGED <<pc, fileVars, step, listVars, current_tasks,
                            sem_pipe>>

ChildPost == /\ child = "post"
             /\ sem_pipe' = sem_pipe + 1
             /\ child' = "poll"
             /\ UNCHANGED <<pc, fileVars, step, listVars, current_tasks, pipe>>

-----------------------------------------------------------------------------
ThreadStep(t) ==
    \/ Barrier(t) \/ PassBarrier(t)
    \/ FetchWait(t) \/ AllRead(t) \/ ReadLine(t) \/ CountLine(t)
    \/ StartWait(t) \/ StartWrite(t) \/ StopWait(t) \/ StopWrite(t)
    \/ VerifyPresent(t) \/ VerifyAbsent(t) \/ AppendFile(t)
    \/ TaskUp(t) \/ LookUp(t) \/ Take(t) \/ Release(t) \/ TaskDown(t)

ChildStep == ChildPoll \/ ChildRead \/ ChildPost

(* Threads and child run until the program exits or overruns its array.    *)
ThreadRuns(t) == /\ process = "running"
                 /\ (ThreadStep(t) /\ UNCHANGED process) \/ Overrun(t)
ChildRuns     == process = "running" /\ ChildStep /\ UNCHANGED process

Next == CreateThreads \/ (\E t \in Threads : ThreadRuns(t)) \/ ChildRuns

Spec == Init /\ [][Next]_vars

(* Every thread and the child keep running; a spinning thread whose file   *)
(* is free gets it.                                                        *)
FairSpec == /\ Spec
            /\ WF_vars(CreateThreads)
            /\ \A t \in Threads : WF_vars(ThreadRuns(t))
            /\ WF_vars(ChildRuns)

-----------------------------------------------------------------------------
PCs == {"barrier", "arrived", "fetch", "read", "count", "start", "start_write",
        "verify", "append", "task_up", "look", "take", "use", "task_down",
        "stop", "stop_write", "done"}

(* Every variable has its type: both semaphores are binary, citit never    *)
(* passes the number of lines, the list its array, and the flags taken     *)
(* belong to listed files.                                                 *)
TypeOK == /\ pc \in [Threads -> PCs]
          /\ sem \in 0 .. 1
          /\ citit \in 0 .. line_counter
          /\ filepos \in 0 .. line_counter
          /\ line \in [Threads -> 0 .. line_counter]
          /\ step \in [Threads -> 1 .. 2]
          /\ files_list \in Seq([use_flag : 0 .. 1, filename : Files])
          /\ Len(files_list) <= MaxPthreads
          /\ held \in [Threads -> SUBSET (1 .. Len(files_list))]
          /\ look \in [Threads -> 0 .. Len(files_list)]
          /\ current_tasks \in 0 .. line_counter
          /\ sem_pipe \in 0 .. 1
          /\ pipe \in Seq(Threads \X {"START", "STOP"})
          /\ child \in {"poll", "read", "post"}
          /\ process \in {"starting", "running", "exited", "overrun"}

(* No file is used by two threads at once, although the list may hold a    *)
(* name more than once: everybody looks up the first entry of a name.      *)
(* Nothing is said of a program whose list has overrun its array: there    *)
(* the flags may hold anything.                                            *)
HeldFiles(t) == {files_list[i].filename : i \in held[t]}
FileExclusive ==
    process = "running" =>
        /\ \A t, u \in Threads : t # u => HeldFiles(t) \cap HeldFiles(u) = {}
        /\ \A t \in Threads : pc[t] = "use" =>
              HeldFiles(t) = ToSet(Takes(Lines[line[t]]))

(* Part of OneAtATime.                                                     *)
(* The child never finds two messages in one read, where it would see only *)
(* the first: while a message is in the pipe nobody else may write.        *)
OneMessage ==
    Len(pipe) + sem_pipe + (IF child = "post" THEN 1 ELSE 0)
      + Cardinality({t \in Threads : pc[t] \in {"start_write", "stop_write"}}) = 1

(* Part of OneAtATime.                                                     *)
(* A thread that has seen lines left always gets one: the count of lines   *)
(* and the position in the file agree when it matters, so no thread keeps  *)
(* the semaphore by the path where fgets returns NULL.                     *)
NoNullRead ==
    \A t \in Threads :
        pc[t] = "read" /\ citit # line_counter => filepos < line_counter

(* Messages and lines are taken one at a time, although each is guarded by *)
(* a semaphore that threads, and for the pipe another process, hand over.  *)
OneAtATime == OneMessage /\ NoNullRead

(* With the operands of all lines in one order every thread comes to its   *)
(* end: nobody waits for ever for a flag, a semaphore or the barrier.  If  *)
(* not, the program has exited for its number of lines, or its list has    *)
(* overrun the array.                                                      *)
AllThreadsEnd == <>(\/ \A t \in Threads : pc[t] = "done"
                    \/ process \in {"exited", "overrun"})

(* A name that is in the list is not added again.                          *)
ListedOnce ==
    \A i, j \in 1 .. Len(files_list) :
        i # j => files_list[i].filename # files_list[j].filename
=============================================================================
