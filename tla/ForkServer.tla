------------------------------ MODULE ForkServer -----------------------------
(***************************************************************************)
(* lab14_DAv/server.c with its client: main starts a thread for every      *)
(* connection; the thread reads one command and serves it.  "run" forks a  *)
(* child, records the job, tells the client its id and waits for the child.*)
(*                                                                         *)
(* id_seed and running_jobs are read without the mutex that the updates    *)
(* hold, id_seed even before the command has arrived.                      *)
(***************************************************************************)
EXTENDS Integers, FiniteSets

CONSTANTS Conns,       \* the connections, each with a thread of its own
          RunningMax,  \* the 5 of thread_handle
          FirstId,     \* what id_seed begins at
          Asks         \* the commands each client may send

ASSUME ForkAssumption == /\ IsFiniteSet(Conns)
                         /\ FirstId \in Int
                         /\ RunningMax \in Nat

VARIABLES step,          \* where the thread of each connection is
          command,       \* what its client asks for
          job_id,        \* id in thread_handle
          answer,        \* what the client has received
          status,        \* jobs[].status
          files,         \* the ids whose .stdout file exists
          id_seed, running_jobs, job_index,
          child,         \* the child of each thread
          down           \* the server was killed by a signal

forkVars == <<step, command, job_id, answer, status, files, id_seed,
              running_jobs, job_index, child, down>>
jobVars  == <<status, id_seed, running_jobs, job_index>>

Ids == FirstId .. FirstId + Cardinality(Conns)
Nothing == "nothing"
(* The argument of a run is a program; a command may have none, or be one  *)
(* that the server does not know.                                          *)
Commands == [op : {"run", "wordless", "unknown"}, of : {FirstId}]
                \cup [op : {"get_status", "get_stdout"}, of : Ids]

Start == /\ step = [c \in Conns |-> "none"]
         /\ command \in {f \in [Conns -> Commands] : \A c \in Conns : f[c].op \in Asks[c]}
         /\ job_id = [c \in Conns |-> FirstId]
         /\ answer = [c \in Conns |-> Nothing]
         /\ status = [i \in Ids |-> "empty"]
         /\ files = {}
         /\ id_seed = FirstId
         /\ running_jobs = 0
         /\ job_index = 0
         /\ child = [c \in Conns |-> "none"]
         /\ down = FALSE

-----------------------------------------------------------------------------
Go(c, from, to) == /\ step[c] = from /\ ~down
                   /\ step' = [step EXCEPT ![c] = to]
Tell(c, a) == answer' = [answer EXCEPT ![c] = a]

(* main: accept and pthread_create.  A client without its command waits.   *)
Accept(c) == /\ Go(c, "none", "seed")
             /\ UNCHANGED <<command, job_id, answer, jobVars, files, child, down>>

ReadSeed(c) == /\ Go(c, "seed", "recv")
               /\ job_id' = [job_id EXCEPT ![c] = id_seed]
               /\ UNCHANGED <<command, answer, jobVars, files, child, down>>

(* Without a space in the command strchr returns NULL, and line 211 writes *)
(* through it.  An unknown command is neither answered nor is the socket   *)
(* closed.                                                                 *)
Reached(m) == IF m.op = "unknown" THEN "end" ELSE m.op
RecvCommand(c) == /\ Go(c, "recv", Reached(command[c]))
                  /\ down' = (command[c].op = "wordless")
                  /\ UNCHANGED <<command, job_id, answer, jobVars, files, child>>

(* Variant: the refused job is taken off the counter.                      *)
RefuseUncounted(c) == /\ running_jobs >= RunningMax
                      /\ Go(c, "run", "end")
                      /\ Tell(c, "limit")
                      /\ running_jobs' = running_jobs - 1
                      /\ UNCHANGED <<command, job_id, status, id_seed, job_index,
                                     files, child, down>>

Refuse(c) == /\ running_jobs >= RunningMax
             /\ Go(c, "run", "end")
             /\ Tell(c, "limit")
             /\ UNCHANGED <<command, job_id, jobVars, files, child, down>>

Fork(c) == /\ running_jobs < RunningMax
           /\ Go(c, "run", "record")
           /\ child' = [child EXCEPT ![c] = "running"]
           /\ UNCHANGED <<command, job_id, answer, jobVars, files, down>>
ForkFails(c) == /\ running_jobs < RunningMax
                /\ Go(c, "run", "end")
                /\ UNCHANGED <<command, job_id, answer, jobVars, files, child, down>>

(* Variant: the counter is read before the lock.                           *)
RecordRunning(c) == /\ Go(c, "record", "write")
                    /\ status' = [status EXCEPT ![job_id[c]] = "RUNNING"]
                    /\ running_jobs' = 1
                    /\ id_seed' = id_seed + 1
                    /\ UNCHANGED <<command, job_id, answer, job_index, files,
                                   child, down>>

(* One critical section.                                                   *)
Record(c) == /\ Go(c, "record", "write")
             /\ status' = [status EXCEPT ![job_id[c]] = "RUNNING"]
             /\ running_jobs' = running_jobs + 1
             /\ id_seed' = id_seed + 1
             /\ UNCHANGED <<command, job_id, answer, job_index, files, child, down>>

WriteId(c) == /\ Go(c, "write", "waitpid")
              /\ Tell(c, "id")
              /\ UNCHANGED <<command, job_id, jobVars, files, child, down>>

(* Variant: the thread does not mark its job.                              *)
TerminatedUnmarked(c) == /\ Go(c, "terminated", "end")
                         /\ running_jobs' = running_jobs - 1
                         /\ job_index' = job_index + 1
                         /\ UNCHANGED <<command, job_id, answer, status, id_seed,
                                        files, child, down>>

WaitPid(c) == /\ child[c] = "zombie"
              /\ Go(c, "waitpid", "terminated")
              /\ child' = [child EXCEPT ![c] = "reaped"]
              /\ UNCHANGED <<command, job_id, answer, jobVars, files, down>>

Terminated(c) == /\ Go(c, "terminated", "end")
                 /\ status' = [status EXCEPT ![job_id[c]] = "TERMINATED"]
                 /\ running_jobs' = running_jobs - 1
                 /\ job_index' = job_index + 1
                 /\ UNCHANGED <<command, job_id, answer, id_seed, files, child, down>>

(* The bound of get_status lets id_seed itself through.                    *)
GetStatus(c) == LET i == command[c].of
                IN  /\ Go(c, "get_status", "end")
                    /\ Tell(c, IF i > id_seed THEN "JOB NOT EXIST" ELSE status[i])
                    /\ UNCHANGED <<command, job_id, jobVars, files, child, down>>

(* Without the file, what is sent is whatever the buffer holds.            *)
GetStdout(c) == /\ Go(c, "get_stdout", "end")
                /\ Tell(c, IF command[c].of \in files THEN "output" ELSE "garbage")
                /\ UNCHANGED <<command, job_id, jobVars, files, child, down>>

(* Writing to a client that is gone ends the server.                       *)
WriteFails(c) == /\ \/ step[c] \in {"write", "get_status", "get_stdout"}
                    \/ step[c] = "run" /\ running_jobs >= RunningMax
                 /\ ~down
                 /\ down' = TRUE
                 /\ UNCHANGED <<step, command, job_id, answer, jobVars, files, child>>

(* The child opens its files before it runs the program.                   *)
ChildOpens(c) == /\ child[c] = "running"
                 /\ child' = [child EXCEPT ![c] = "exec"]
                 /\ files' = files \cup {job_id[c]}
                 /\ UNCHANGED <<step, command, job_id, answer, jobVars, down>>
ChildExits(c) == /\ child[c] = "exec"
                 /\ child' = [child EXCEPT ![c] = "zombie"]
                 /\ UNCHANGED <<step, command, job_id, answer, jobVars, files, down>>

ServesOn(c) == \/ ReadSeed(c) \/ Refuse(c) \/ Fork(c) \/ ForkFails(c)
               \/ Record(c) \/ WriteId(c) \/ WaitPid(c) \/ Terminated(c)
               \/ GetStatus(c) \/ GetStdout(c) \/ WriteFails(c)
ThreadHandle(c) == RecvCommand(c) \/ ServesOn(c)
ChildStep(c) == ChildOpens(c) \/ ChildExits(c)
ForkNext == \E c \in Conns : Accept(c) \/ ThreadHandle(c) \/ ChildStep(c)

ForkSpec == Start /\ [][ForkNext]_forkVars

(* A thread that has its command runs on.  Nobody need connect or speak,   *)
(* and no job need end.                                                    *)
ForkFairness == \A c \in Conns : WF_forkVars(ServesOn(c))

-----------------------------------------------------------------------------
ForkTypeOK == /\ running_jobs \in 0 .. Cardinality(Conns)
              /\ id_seed \in Ids
              /\ \A c \in Conns : job_id[c] \in Ids

(* Whatever the interleaving of the unlocked tests, the counters agree with*)
(* the threads: running_jobs counts the jobs between their two critical    *)
(* sections, and every id given out is running or done.                    *)
BetweenSections == {c \in Conns : step[c] \in {"write", "waitpid", "terminated"}}
CountersAgree == /\ running_jobs = Cardinality(BetweenSections)
                 /\ id_seed - FirstId = running_jobs + job_index

(* A job whose id a client was told exists for get_status: recorded, and   *)
(* never beyond id_seed, although other threads share its id.              *)
ToldExists == \A c \in Conns : answer[c] = "id" =>
                 /\ job_id[c] <= id_seed
                 /\ status[job_id[c]] \in {"RUNNING", "TERMINATED"}

(* The table is right: its counters agree with the threads, and a job a    *)
(* client was told of exists.                                              *)
TableAgrees == CountersAgree /\ ToldExists

(* Every command that was read is answered, but for a fork that failed, an *)
(* unknown command and a server that went down.  Once the job whose id was *)
(* sent has ended, and every other that shares the id, it is TERMINATED.   *)
Heard(c)      == step[c] \notin {"none", "recv"}
ForkFailed(c) == step[c] = "end" /\ child[c] = "none" /\ command[c].op = "run"
Sharing(c)    == {d \in Conns : job_id[d] = job_id[c]}
AllAnswered ==
    down \/ \A c \in Conns :
               /\ Heard(c) => \/ answer[c] # Nothing
                              \/ ForkFailed(c)
                              \/ command[c].op = "unknown"
               /\ (/\ answer[c] = "id"
                   /\ \A d \in Sharing(c) : child[d] \notin {"running", "exec"})
                     => status[job_id[c]] = "TERMINATED"
=============================================================================
