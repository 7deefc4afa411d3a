----------------------------- MODULE JobServer ------------------------------
(***************************************************************************)
(* EXAMS/PART2_lab14/server.c: a TCP job server.  main accepts connections *)
(* and starts a thread per client; the thread reads one request (run a     *)
(* command, ask for its status, kill it, fetch its output, list jobs) and  *)
(* answers it; one more thread reaps the children and marks their jobs     *)
(* finished.  The table of jobs, the counter of running jobs and the next  *)
(* id are shared, each under a mutex of its own or under none.             *)
(*                                                                         *)
(* A critical section that touches one variable is one atomic step; only   *)
(* jobs_mutex is a variable, because one path of the code never releases   *)
(* it.  Ids are counted from 0 (the code adds SEED_INIT).  The end of the  *)
(* server by SIGTERM is modelled in SelectServer; here the process ends    *)
(* only when a request, or a client that is gone, makes the kernel end it. *)
(***************************************************************************)
EXTENDS Integers, FiniteSets, FiniteSetsExt

CONSTANTS Clients,      \* connections, each with its handler thread
          MaxClients,   \* entries of tid and param (500 in the code)
          Careless,     \* clients that may leave out the argument of a
                        \* request, or be gone when the answer is written
          Pids,         \* process ids the kernel may give to children
          Limit,        \* how many jobs may run at once (5 in the code)
          Ops,          \* the requests each client may make
          Honest,       \* do clients name only ids the server has told them?
          ForkMayFail,  \* may fork return -1?
          PidReuse,     \* may the pid of a reaped child be given out again?
          None          \* no process, no holder of jobs_mutex

ASSUME JobAssumption ==
    /\ IsFiniteSet(Clients) /\ IsFiniteSet(Pids)
    /\ Cardinality(Clients) <= MaxClients
    /\ Careless \subseteq Clients
    /\ Limit \in Nat \ {0}
    /\ Ops \in [Clients -> SUBSET {"run", "get_status", "kill_job", "get_output",
                                  "get_jobs", "istoric", "other"}]
    /\ {Honest, ForkMayFail, PidReuse} \subseteq BOOLEAN
    /\ None \notin Clients \cup Pids

VARIABLES id_seed,          \* the next id
          jobs,             \* the table: pid (None is 0) and status
          running_jobs_nr,
          sem,              \* children started and recorded, not yet waited for
          jobs_mutex,       \* its holder, or None
          pc,               \* where each client's handler is
          op,               \* the request each handler serves
          id,               \* the local variable id of each handler
          pid,              \* the local variable pid of run
          nr,               \* the local variable nr of a listing
          reply,            \* the first byte of the answer
          listed,           \* the jobs a listing has sent
          fd,               \* each client's socket in the server
          main,             \* where main is, and the socket in its hands
          waiter,           \* where thread_handle_wait is
          waited,           \* its local variable pid
          found,            \* the index its search has stopped at
          proc,             \* the child processes, by pid
          down              \* has the kernel ended the server?

serving == <<id_seed, jobs, running_jobs_nr, sem, jobs_mutex, pc, op, id, pid,
             nr, reply, listed, fd, main, waiter, waited, found, proc>>
vars        == <<serving, down>>
tableVars   == <<id_seed, jobs, running_jobs_nr, sem>>
handlerVars == <<pc, op, id, pid, nr, reply, listed>>
waiterVars  == <<waiter, waited, found>>

(* A run request takes one id, so there are never more ids than clients;   *)
(* the table of the code has 1000 entries, more than there may be clients. *)
JobIds == 0 .. Cardinality(Clients) - 1
NoId   == -1

Failed == "fork failed"

(* What fork returns when it fails is neither a process nor nothing.       *)
ASSUME FailedAssumption == Failed \notin Pids \cup {None}

HandlerPCs == {"none", "recv", "take_id", "reserve", "fill", "fork", "record",
               "post", "check", "stuck", "read_status", "send_output",
               "count", "list", "close", "leaked", "done"}

Init == /\ id_seed = 0
        /\ jobs = [i \in JobIds |-> [pid |-> None, status |-> "RUNNING"]]
        /\ running_jobs_nr = 0
        /\ sem = 0
        /\ jobs_mutex = None
        /\ pc = [c \in Clients |-> "none"]
        /\ op = [c \in Clients |-> "none"]
        /\ id = [c \in Clients |-> NoId]
        /\ pid = [c \in Clients |-> None]
        /\ nr = [c \in Clients |-> 0]
        /\ reply = [c \in Clients |-> "none"]
        /\ listed = [c \in Clients |-> {}]
        /\ fd = [c \in Clients |-> "none"]
        /\ main = <<"accept", None>>
        /\ waiter = "sem_wait"
        /\ waited = None
        /\ found = NoId
        /\ proc = [p \in Pids |-> [state |-> "free", job |-> NoId, fds |-> {}]]
        /\ down = FALSE

-----------------------------------------------------------------------------
(* main: accept, set FD_CLOEXEC, start the handler thread.                 *)

Accept(c) == /\ main[1] = "accept"
             /\ fd[c] = "none"
             /\ fd' = [fd EXCEPT ![c] = "inheritable"]
             /\ main' = <<"cloexec", c>>
             /\ UNCHANGED <<tableVars, jobs_mutex, handlerVars, waiterVars,
                            proc>>

SetCloexec(c) == /\ main = <<"cloexec", c>>
                 /\ fd' = [fd EXCEPT ![c] = "cloexec"]
                 /\ main' = <<"create", c>>
                 /\ UNCHANGED <<tableVars, jobs_mutex, handlerVars, waiterVars,
                                proc>>

CreateThread(c) == /\ main = <<"create", c>>
                   /\ pc' = [pc EXCEPT ![c] = "recv"]
                   /\ main' = <<"accept", None>>
                   /\ UNCHANGED <<tableVars, jobs_mutex, op, id, pid, nr,
                                  reply, listed, fd, waiterVars, proc>>

-----------------------------------------------------------------------------
(* thread_handle                                                           *)

Goto(c, from, to) == /\ pc[c] = from
                     /\ pc' = [pc EXCEPT ![c] = to]

Told == {id[c] : c \in {d \in Clients : op[d] = "run" /\ reply[d] = "ok"}}
Nameable == IF Honest THEN Told ELSE JobIds

(* The request: run and the two listings take no id.  A command the server *)
(* does not know is not answered.  What recv returns is not tested: when   *)
(* the client has left without a request, the buffer holds any of these.   *)
Receive(c) ==
    /\ pc[c] = "recv"
    /\ \E o \in Ops[c] :
        /\ op' = [op EXCEPT ![c] = o]
        /\ CASE o = "run" -> /\ pc' = [pc EXCEPT ![c] = "take_id"]
                             /\ UNCHANGED id
             [] o \in {"get_jobs", "istoric"} ->
                             /\ pc' = [pc EXCEPT ![c] = "count"]
                             /\ UNCHANGED id
             [] o = "other" -> /\ pc' = [pc EXCEPT ![c] = "close"]
                               /\ UNCHANGED id
             [] OTHER -> \E i \in Nameable :
                             /\ id' = [id EXCEPT ![c] = i]
                             /\ pc' = [pc EXCEPT ![c] = "check"]
    /\ UNCHANGED <<tableVars, jobs_mutex, pid, nr, reply, listed, fd, main,
                   waiterVars, proc>>

(* Variant: the id is read here and the seed advanced by nobody.           *)
TakeSameId(c) == /\ Goto(c, "take_id", "reserve")
                 /\ id' = [id EXCEPT ![c] = id_seed]
                 /\ UNCHANGED <<tableVars, jobs_mutex, op, pid, nr, reply, listed,
                                fd, main, waiterVars, proc>>

(* int id = id_seed++ under id_seed_mutex.                                 *)
TakeId(c) == /\ Goto(c, "take_id", "reserve")
             /\ id' = [id EXCEPT ![c] = id_seed]
             /\ id_seed' = id_seed + 1
             /\ UNCHANGED <<jobs, running_jobs_nr, sem, jobs_mutex, op, pid,
                            nr, reply, listed, fd, main, waiterVars, proc>>

(* Variant: the limit is off by one.                                       *)
ReserveOneMore(c) ==
    /\ running_jobs_nr <= Limit
    /\ Goto(c, "reserve", "fill")
    /\ running_jobs_nr' = running_jobs_nr + 1
    /\ UNCHANGED <<id_seed, jobs, sem, jobs_mutex, op, id, pid, nr, reply, listed,
                   fd, main, waiterVars, proc>>

(* Variant: the increment of the counter is lost.                          *)
ReserveUncounted(c) == /\ running_jobs_nr < Limit
                       /\ Goto(c, "reserve", "fill")
                       /\ UNCHANGED <<tableVars, jobs_mutex, op, id, pid, nr,
                                      reply, listed, fd, main, waiterVars, proc>>

(* The limit is tested and the slot taken under job_index_mutex.           *)
Reserve(c) == /\ running_jobs_nr < Limit
              /\ Goto(c, "reserve", "fill")
              /\ running_jobs_nr' = running_jobs_nr + 1
              /\ UNCHANGED <<id_seed, jobs, sem, jobs_mutex, op, id, pid, nr,
                             reply, listed, fd, main, waiterVars, proc>>

(* "Job queue is full": the thread returns without closing the socket.     *)
Reject(c) == /\ running_jobs_nr >= Limit
             /\ Goto(c, "reserve", "leaked")
             /\ reply' = [reply EXCEPT ![c] = "error"]
             /\ UNCHANGED <<tableVars, jobs_mutex, op, id, pid, nr, listed, fd,
                            main, waiterVars, proc>>

(* run(): the entry is filled without jobs_mutex (the lock is commented    *)
(* out in the code).                                                       *)
Fill(c) == /\ Goto(c, "fill", "fork")
           /\ jobs' = [jobs EXCEPT ![id[c]].status = "RUNNING"]
           /\ UNCHANGED <<id_seed, running_jobs_nr, sem, jobs_mutex, op, id,
                          pid, nr, reply, listed, fd, main, waiterVars, proc>>

FreshPid(p) == proc[p].state \in {"free"} \cup (IF PidReuse THEN {"reaped"} ELSE {})

(* Variant: the client is told its job before the pid is in the table.     *)
ForkTellsAtOnce(c) ==
    /\ Goto(c, "fork", "record")
    /\ \E p \in Pids :
         /\ FreshPid(p)
         /\ pid' = [pid EXCEPT ![c] = p]
         /\ proc' = [proc EXCEPT ![p] =
              [state |-> "running", job |-> id[c],
               fds |-> {d \in Clients : fd[d] = "inheritable"}]]
    /\ reply' = [reply EXCEPT ![c] = "ok"]
    /\ UNCHANGED <<tableVars, jobs_mutex, op, id, nr, listed, fd, main,
                   waiterVars>>

(* The child keeps across exec every socket that is not yet close-on-exec. *)
Fork(c) == /\ Goto(c, "fork", "record")
           /\ \E p \in Pids :
                /\ FreshPid(p)
                /\ pid' = [pid EXCEPT ![c] = p]
                /\ proc' = [proc EXCEPT ![p] =
                     [state |-> "running", job |-> id[c],
                      fds |-> {d \in Clients : fd[d] = "inheritable"}]]
           /\ UNCHANGED <<tableVars, jobs_mutex, op, id, nr, reply, listed, fd,
                          main, waiterVars>>

(* fork returned -1: run prints and returns; its caller still answers ok.  *)
ForkFails(c) == /\ ForkMayFail
                /\ Goto(c, "fork", "close")
                /\ pid' = [pid EXCEPT ![c] = Failed]
                /\ reply' = [reply EXCEPT ![c] = "ok"]
                /\ UNCHANGED <<tableVars, jobs_mutex, op, id, nr, listed, fd,
                               main, waiterVars, proc>>

Record(c) == /\ jobs_mutex = None
             /\ Goto(c, "record", "post")
             /\ jobs' = [jobs EXCEPT ![id[c]].pid = pid[c]]
             /\ UNCHANGED <<id_seed, running_jobs_nr, sem, jobs_mutex, op, id,
                            pid, nr, reply, listed, fd, main, waiterVars,
                            proc>>

(* Variant: the semaphore is not posted.                                   *)
PostForgets(c) == /\ Goto(c, "post", "close")
                  /\ reply' = [reply EXCEPT ![c] = "ok"]
                  /\ UNCHANGED <<tableVars, jobs_mutex, op, id, pid, nr, listed,
                                 fd, main, waiterVars, proc>>

(* sem_post and the answer with the id of the job.                         *)
Post(c) == /\ Goto(c, "post", "close")
           /\ sem' = sem + 1
           /\ reply' = [reply EXCEPT ![c] = "ok"]
           /\ UNCHANGED <<id_seed, jobs, running_jobs_nr, jobs_mutex, op, id,
                          pid, nr, listed, fd, main, waiterVars, proc>>

(* get_status: with a pid the answer is read after the unlock; without one *)
(* the thread locks the mutex it holds.                                    *)
GetStatus(c) == /\ pc[c] = "check" /\ op[c] = "get_status"
                /\ jobs_mutex = None
                /\ \/ /\ jobs[id[c]].pid # None
                      /\ Goto(c, "check", "read_status")
                      /\ UNCHANGED jobs_mutex
                   \/ /\ jobs[id[c]].pid = None
                      /\ Goto(c, "check", "stuck")
                      /\ jobs_mutex' = c
                /\ UNCHANGED <<tableVars, op, id, pid, nr, reply, listed, fd,
                               main, waiterVars, proc>>

ReadStatus(c) == /\ Goto(c, "read_status", "close")
                 /\ reply' = [reply EXCEPT ![c] = jobs[id[c]].status]
                 /\ UNCHANGED <<tableVars, jobs_mutex, op, id, pid, nr, listed,
                                fd, main, waiterVars, proc>>

(* Variant: the job is marked finished although no signal is sent.         *)
KillOnlyMarks(c) ==
    /\ pc[c] = "check" /\ op[c] = "kill_job"
    /\ jobs_mutex = None
    /\ Goto(c, "check", "close")
    /\ IF jobs[id[c]].pid # None /\ jobs[id[c]].status = "RUNNING"
       THEN jobs' = [jobs EXCEPT ![id[c]].status = "FINISHED"]
       ELSE UNCHANGED jobs
    /\ reply' = [reply EXCEPT ![c] = "ok"]
    /\ UNCHANGED <<id_seed, running_jobs_nr, sem, jobs_mutex, op, id, pid, nr,
                   listed, fd, main, waiterVars, proc>>

(* kill(pid, SIGKILL) reaches whatever process has that pid now.           *)
KillJob(c) ==
    /\ pc[c] = "check" /\ op[c] = "kill_job"
    /\ jobs_mutex = None
    /\ Goto(c, "check", "close")
    /\ LET j == jobs[id[c]] IN
       IF j.pid # None /\ j.status = "RUNNING"
       THEN /\ proc' = [proc EXCEPT ![j.pid].state =
                          IF @ = "running" THEN "killed" ELSE @]
            /\ jobs' = [jobs EXCEPT ![id[c]].status = "FINISHED"]
       ELSE UNCHANGED <<proc, jobs>>
    /\ reply' = [reply EXCEPT ![c] = "ok"]
    /\ UNCHANGED <<id_seed, running_jobs_nr, sem, jobs_mutex, op, id, pid, nr,
                   listed, fd, main, waiterVars>>

(* get_stdout and get_stderr: only of a finished job.                      *)
GetOutput(c) ==
    /\ pc[c] = "check" /\ op[c] = "get_output"
    /\ jobs_mutex = None
    /\ IF jobs[id[c]].pid # None /\ jobs[id[c]].status = "FINISHED"
       THEN /\ Goto(c, "check", "send_output")
            /\ UNCHANGED reply
       ELSE /\ Goto(c, "check", "close")
            /\ reply' = [reply EXCEPT ![c] = "error"]
    /\ UNCHANGED <<tableVars, jobs_mutex, op, id, pid, nr, listed, fd, main,
                   waiterVars, proc>>

SendOutput(c) == /\ Goto(c, "send_output", "close")
                 /\ reply' = [reply EXCEPT ![c] = "ok"]
                 /\ UNCHANGED <<tableVars, jobs_mutex, op, id, pid, nr, listed,
                                fd, main, waiterVars, proc>>

(* get_jobs and istoric: the number of entries is read under id_seed_mutex *)
(* (get_jobs leaves the newest out), the entries later under jobs_mutex.   *)
CountJobs(c) ==
    /\ Goto(c, "count", "list")
    /\ nr' = [nr EXCEPT ![c] = IF op[c] = "get_jobs" THEN id_seed - 1 ELSE id_seed]
    /\ UNCHANGED <<tableVars, jobs_mutex, op, id, pid, reply, listed, fd, main,
                   waiterVars, proc>>

ListJobs(c) ==
    /\ jobs_mutex = None
    /\ Goto(c, "list", "close")
    /\ LET wanted == IF op[c] = "get_jobs" THEN "RUNNING" ELSE "FINISHED" IN
       listed' = [listed EXCEPT ![c] =
            {i \in JobIds : i < nr[c] /\ jobs[i].pid # None /\ jobs[i].status = wanted}]
    /\ reply' = [reply EXCEPT ![c] = "ok"]
    /\ UNCHANGED <<tableVars, jobs_mutex, op, id, pid, nr, fd, main,
                   waiterVars, proc>>

Close(c) == /\ Goto(c, "close", "done")
            /\ fd' = [fd EXCEPT ![c] = "closed"]
            /\ UNCHANGED <<tableVars, jobs_mutex, op, id, pid, nr, reply,
                           listed, main, waiterVars, proc>>

(* The argument of a request is NULL when it has none: strcpy, in run(),   *)
(* and atoi then end the process.  An id far outside the table does, too.  *)
NoArgument(c) == pc[c] \in {"fill", "check"}

(* SIGPIPE, when the client is gone and the answer is written in two parts,*)
(* or after the reset has come.                                            *)
AnswersNobody(c) == \/ pc[c] = "close" /\ op[c] # "other"
                    \/ pc[c] = "list"
                    \/ pc[c] = "reserve" /\ running_jobs_nr >= Limit

Crash(c) == /\ c \in Careless
            /\ NoArgument(c) \/ AnswersNobody(c)
            /\ down' = TRUE
            /\ UNCHANGED serving

-----------------------------------------------------------------------------
(* thread_handle_wait                                                      *)

SemWait == /\ waiter = "sem_wait" /\ sem > 0
           /\ sem' = sem - 1
           /\ waiter' = "wait"
           /\ UNCHANGED <<id_seed, jobs, running_jobs_nr, jobs_mutex,
                          handlerVars, fd, main, waited, found, proc>>

(* wait(NULL) takes any child that has ended.                              *)
Wait(p) == /\ waiter = "wait" /\ proc[p].state = "zombie"
           /\ proc' = [proc EXCEPT ![p].state = "reaped"]
           /\ waited' = p
           /\ waiter' = "scan"
           /\ UNCHANGED <<tableVars, jobs_mutex, handlerVars, fd, main, found>>

(* The table is searched without jobs_mutex; the first entry with the pid  *)
(* is the one.                                                             *)
Matching == {i \in JobIds : i < id_seed /\ jobs[i].pid = waited}

ScanMisses == /\ waiter = "scan" /\ Matching = {}
              /\ waiter' = "release"
              /\ UNCHANGED <<tableVars, jobs_mutex, handlerVars, fd, main,
                             waited, found, proc>>

(* Variant: the search stops one entry late.                               *)
ScanFindsNext == /\ waiter = "scan" /\ Matching # {}
                 /\ found' = IF Min(Matching) + 1 \in JobIds
                             THEN Min(Matching) + 1 ELSE Min(Matching)
                 /\ waiter' = "mark"
                 /\ UNCHANGED <<tableVars, jobs_mutex, handlerVars, fd, main,
                                waited, proc>>

ScanFinds == /\ waiter = "scan" /\ Matching # {}
             /\ found' = Min(Matching)
             /\ waiter' = "mark"
             /\ UNCHANGED <<tableVars, jobs_mutex, handlerVars, fd, main,
                            waited, proc>>

MarkFinished == /\ waiter = "mark" /\ jobs_mutex = None
                /\ jobs' = [jobs EXCEPT ![found].status = "FINISHED"]
                /\ found' = NoId
                /\ waiter' = "release"
                /\ UNCHANGED <<id_seed, running_jobs_nr, sem, jobs_mutex,
                               handlerVars, fd, main, waited, proc>>

ReleaseSlot == /\ waiter = "release"
               /\ running_jobs_nr' = running_jobs_nr - 1
               /\ waited' = None
               /\ waiter' = "sem_wait"
               /\ UNCHANGED <<id_seed, jobs, sem, jobs_mutex, handlerVars, fd,
                              main, found, proc>>

-----------------------------------------------------------------------------
(* A child ends by itself, because it was killed, or because exec failed.  *)
ChildEnds(p) == /\ proc[p].state \in {"running", "killed"}
                /\ proc' = [proc EXCEPT ![p].state = "zombie"]
                /\ UNCHANGED <<tableVars, jobs_mutex, handlerVars, fd, main,
                               waiterVars>>

MainStep == \E c \in Clients : Accept(c) \/ SetCloexec(c) \/ CreateThread(c)

HandlerStep(c) ==
    \/ Receive(c)
    \/ TakeId(c) \/ Reserve(c) \/ Reject(c) \/ Fill(c) \/ Fork(c) \/ ForkFails(c)
    \/ Record(c) \/ Post(c)
    \/ GetStatus(c) \/ ReadStatus(c) \/ KillJob(c) \/ GetOutput(c)
    \/ SendOutput(c) \/ CountJobs(c) \/ ListJobs(c) \/ Close(c)

WaiterStep == \/ SemWait \/ ScanMisses \/ ScanFinds \/ MarkFinished \/ ReleaseSlot
              \/ \E p \in Pids : Wait(p)

Step == \/ MainStep
        \/ \E c \in Clients : HandlerStep(c)
        \/ WaiterStep
        \/ \E p \in Pids : ChildEnds(p)

(* Nothing happens in a process that the kernel has ended.                 *)
Next == /\ ~down
        /\ \/ Step /\ UNCHANGED down
           \/ \E c \in Clients : Crash(c)

Spec == Init /\ [][Next]_vars

(* Threads that can run do run, once their clients have spoken.  A child   *)
(* need not ever end by itself; one that was killed does.                  *)
Alive(A) == ~down /\ A /\ UNCHANGED down
Fairness == /\ \A c \in Clients : WF_vars(Alive(pc[c] # "recv" /\ HandlerStep(c)))
            /\ WF_vars(Alive(WaiterStep))
            /\ \A p \in Pids : WF_vars(Alive(proc[p].state = "killed" /\ ChildEnds(p)))

FairSpec == Spec /\ Fairness

-----------------------------------------------------------------------------
Unreaped == {p \in Pids : proc[p].state \in {"running", "killed", "zombie"}}
HandlersAt(places) == {c \in Clients : pc[c] \in places}
One(condition) == IF condition THEN 1 ELSE 0

(* Every variable has its type; the counter of running jobs never passes   *)
(* the limit and the semaphore never falls below zero.                     *)
TypeOK ==
    /\ id_seed \in 0 .. Cardinality(Clients)
    /\ jobs \in [JobIds -> [pid : Pids \cup {None}, status : {"RUNNING", "FINISHED"}]]
    /\ running_jobs_nr \in 0 .. Limit
    /\ sem \in 0 .. Cardinality(Clients)
    /\ jobs_mutex \in Clients \cup {None}
    /\ pc \in [Clients -> HandlerPCs]
    /\ \A c \in Clients : op[c] \in Ops[c] \cup {"none"}
    /\ id \in [Clients -> JobIds \cup {NoId}]
    /\ pid \in [Clients -> Pids \cup {None, Failed}]
    /\ nr \in [Clients -> -1 .. Cardinality(Clients)]
    /\ reply \in [Clients -> {"none", "ok", "error", "RUNNING", "FINISHED"}]
    /\ listed \in [Clients -> SUBSET JobIds]
    /\ fd \in [Clients -> {"none", "inheritable", "cloexec", "closed"}]
    /\ main \in {"accept", "cloexec", "create"} \X (Clients \cup {None})
    /\ waiter \in {"sem_wait", "wait", "scan", "mark", "release"}
    /\ waited \in Pids \cup {None}
    /\ found \in JobIds \cup {NoId}
    /\ proc \in [Pids -> [state : {"free", "running", "killed", "zombie", "reaped"},
                          job : JobIds \cup {NoId}, fds : SUBSET Clients]]
    /\ down \in BOOLEAN

(* The counter of running jobs is exact at every moment: one for each      *)
(* thread between its admission and its fork, each child not yet reaped,   *)
(* the child the waiter is accounting for, and each fork that failed (those *)
(* are never given back).  Hence at most Limit children exist at once.     *)
SlotsAccounted ==
    /\ running_jobs_nr = Cardinality(HandlersAt({"fill", "fork"}))
                          + Cardinality(Unreaped)
                          + One(waiter \in {"scan", "mark", "release"})
                          + Cardinality({c \in Clients : pid[c] = Failed})
    /\ running_jobs_nr <= Limit

(* The semaphore counts what wait(NULL) may take: a child that is neither  *)
(* reaped nor about to be belongs to one post, made or still to come.  So  *)
(* wait never returns -1 for want of a child, whichever child it takes.    *)
ChildrenAccounted ==
    Cardinality(Unreaped) = sem + One(waiter = "wait")
                                + Cardinality(HandlersAt({"record", "post"}))

(* Two run requests never work on the same entry of the table.             *)
UniqueIds ==
    \A c, d \in Clients :
        c # d /\ op[c] = "run" /\ op[d] = "run" /\ id[c] # NoId => id[c] # id[d]

(* The books balance: slots, children and ids.                             *)
BooksBalance == SlotsAccounted /\ ChildrenAccounted /\ UniqueIds

(* A job is reported finished, and its output sent, only when its process  *)
(* has ended or has been sent the signal that ends it.  What breaks this is*)
(* a pid that belonged to another job before: whoever waits for that one,  *)
(* or kills it, marks or kills this one.                                   *)
FinishedIsDead ==
    \A p \in Pids :
        proc[p].state = "running" /\ jobs[proc[p].job].status = "FINISHED"
            => \E c \in Clients : pid[c] = p /\ id[c] # proc[p].job

(* A client that was given an id finds its pid in the table, so get_status *)
(* never takes the branch that locks jobs_mutex twice and stops the server. *)
NeverStuck == \A c \in Clients : pc[c] # "stuck"

(* The status of a job that was reported finished does not go back,        *)
(* although run fills entries without a lock.                              *)
FinishedIsFinal ==
    [][\A i \in JobIds : jobs[i].status = "FINISHED" => jobs'[i].status = "FINISHED"]_vars

(* No child of the server inherits the socket of a client.                 *)
InheritNothing == \A p \in Pids : proc[p].fds = {}

(* A child that ends after its pid was recorded is reaped and its job      *)
(* marked, whichever jobs' posts the waiter is served in the meantime,     *)
(* unless the server goes down.                                            *)
RecordedJobFinishes ==
    \A p \in Pids :
        (proc[p].state = "zombie" /\ jobs[proc[p].job].pid = p)
            ~> \/ proc[p].state = "reaped" /\ jobs[proc[p].job].status = "FINISHED"
               \/ down

(* Every request that was read and is one of the server's commands is      *)
(* answered and its socket closed; a refused job's client is answered and  *)
(* waits for the end of file; another command's socket is closed without   *)
(* an answer.  If not, the server has gone down.                           *)
Refused(c) == pc[c] = "leaked" /\ op[c] = "run" /\ reply[c] = "error"
EveryRequestAnswered ==
    \A c \in Clients :
        pc[c] \in {"take_id", "check", "count", "close"}
            ~> \/ /\ pc[c] = "done" /\ fd[c] = "closed"
                  /\ reply[c] = "none" <=> op[c] = "other"
               \/ Refused(c)
               \/ down
=============================================================================
